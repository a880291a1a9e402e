SPECIFICATION Spec
CONSTANTS
  k1 = k1
  k2 = k2
  k3 = k3
  k4 = k4
  c1 = c1
  c2 = c2
  None = None
  CheckpointIds = {k1, k2, k3, k4}
  Clients = {c1, c2}
  Payloads = {"sound", "timed_out"}
  Exclusive = TRUE
INVARIANTS
  AtMostOneLatest
  PausedHasCheckpoint
PROPERTIES
  ImplementsCheckpointChain
  ResumeRespectsEnd
SYMMETRY Symmetry
CHECK_DEADLOCK FALSE
