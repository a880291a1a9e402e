SPECIFICATION Spec
CONSTANTS
  k1 = k1
  k2 = k2
  k3 = k3
  k4 = k4
  c1 = c1
  c2 = c2
  None = None
  CheckpointIds = {k1, k2}
  Clients = {c1, c2}
  Payloads = {"sound"}
  Exclusive = FALSE
INVARIANT
  AtMostOneLatest
CHECK_DEADLOCK FALSE
