\* The components that are checked for safety alone, one of them in each
\* behaviour.  Limits are scaled down so that every exit is reached.
SPECIFICATION ComponentsSpec
CONSTANTS
  \* AgentLoop: both subgraphs, with and without the completion flag
  Runtimes = {TRUE, FALSE}
  Requests = {"r1", "r2", "r3"}
  Hypotheses = {"h1", "h2"}
  HypothesisOf <- ThreeRequests
  MaxCalls = 2
  DuplicateLimit = 2
  HypothesisBudget = 2
  TotalBudget = 3
  RecursionLimit = 6
  \* BreakerStore: two workers with one row
  Workers = {"w1", "w2"}
  Threshold = 2
  MaxEvolves = 2
  MaxVersion = 3
  NoRow = NoRow
  \* SchemaMigrations: two processes and three versions
  Processes = {"p1", "p2"}
  Latest = 3
  \* Five components and at most four of the ten calls between them; five
  \* hosts and two playbooks over two passes; up to three findings about up
  \* to six hypotheses; three appended records, two crashes
  c1 = c1
  c2 = c2
  c3 = c3
  c4 = c4
  c5 = c5
  Components = {c1, c2, c3, c4, c5}
  Calls <- MCCalls
  MaxEdges = 4
  MaxDegrees = 2
  Hosts = {1, 2, 3, 4, 5}
  KpiMaps <- MCKpiMaps
  Categories = {"cpu", "jvm"}
  Registry <- MCRegistry
  MaxPasses = 2
  Ranked <- MCRanked
  Findings <- MCFindings
  MaxFindings = 3
  Corrections = {"neutral", "strongly_contradicts"}
  MinEvidence = 2
  MismatchPercent = 15
  Stages = {"s1", "s2"}
  FailureTypes = {"tool_timeout", "schema_violation"}
  Declarations = {TRUE, FALSE}
  MaxAppends = 3
  MaxCrashes = 2
  Nothing = Nothing
INVARIANTS
  TypeOK
  CountedBudgetIsHard
  RunsDoAsAsked
  AnalysisTypeOK
  ClustersAreIncidents
  InjectedComeWithFacts
  IndifferenceShowsFromFour
  CountersMatchLogs
PROPERTIES
  ImplementsSubgraphCall
  NoTransitionLost
CHECK_DEADLOCK FALSE
