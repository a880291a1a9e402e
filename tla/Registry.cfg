\* Two clients, two investigations, three alerts: twins apart in time and one
\* alert around both; every kind of write, two version bumps per row.
SPECIFICATION Spec
CONSTANTS
  i1 = i1
  i2 = i2
  c1 = c1
  c2 = c2
  None = None
  Ids = {i1, i2}
  Clients = {c1, c2}
  Alerts <- SomeAlerts
  CasTargets = {"hitl_paused", "resolved"}
  ManagerTargets = {"hitl_paused"}
  MaxDedupRetries = 2
  MaxVersion = 2
INVARIANTS
  TypeOK
  OneLivePerSymptom
  VersionDeterminesStatus
PROPERTIES
  ClaimsSeeClaims
  ImplementsLiveClaims
SYMMETRY Symmetry
CHECK_DEADLOCK FALSE
