\* The graph with the state as declared and with all keys kept; two evidence
\* items, one of which may be mismatched without calling the critic.
SPECIFICATION FairSpec
CONSTANTS
  e1 = e1
  e2 = e2
  Runtimes = {TRUE, FALSE}
  Injected = {"unset", "DUPLICATE", "SUBSET"}
  Evidence = {e1, e2}
  MinEvidenceDepth = 2
  MismatchPercent = 50
  RecursionLimit = 14
INVARIANTS
  TypeOK
  UnattendedIsGrounded
  SuperstepsSuffice
PROPERTIES
  ClosesUnlessKeptOpen
CHECK_DEADLOCK FALSE
