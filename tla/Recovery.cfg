\* The components that must finish what they begin, one of them in each
\* behaviour.  Limits are scaled down so that every budget, retry and timeout
\* runs out.
SPECIFICATION RecoverySpec
CONSTANTS
  \* ToolExecution: one executor, its calls one at a time or two together
  Overlaps = {TRUE, FALSE}
  Slots = {"s1", "s2"}
  ToolRequests = {"a1", "a2", "a3", "b1"}
  Tools = {"a", "b"}
  ToolOf <- TwoTools
  Invalid = {"a3"}
  Budget = 4
  FailureLimit = 2
  MaxAttempts = 2
  MaxToolCalls = 5
  \* ArtifactCache: three workers with one key
  Callers = {"c1", "c2", "c3"}
  Nobody = Nobody
  MaxFaults = 2
  \* CircuitBreaker: three threads
  Threads = {"t1", "t2", "t3"}
  FailureThreshold = 2
  OpenTimeout = 2
  \* StageExecution: one investigation
  GlobalBudget = 4
  NodeLimit = 3
  Buffer = 1
  MaxToolRetries = 2
  MaxSchemaRetries = 1
  MaxRepairs = 1
  MaxTime = 6
INVARIANTS
  AttemptsAreBounded
  BreakerCountsFailures
  AnswersAreReused
  ComputesAlone
  NodeRunsAlone
PROPERTIES
  CallsEnd
  AskedIsServed
  HealsWithItsTool
  StageReturns
CHECK_DEADLOCK FALSE
