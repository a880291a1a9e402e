\* A finding: two hypotheses of equal scores are not ambiguous, because the
\* entropy is divided by the logarithm of one more than there are.
SPECIFICATION AnalysisSpec
CONSTANTS
  c1 = c1
  c2 = c2
  c3 = c3
  c4 = c4
  c5 = c5
  Components = {c1, c2, c3, c4, c5}
  Calls <- MCCalls
  MaxEdges = 4
  MaxDegrees = 2
  Hosts = {1, 2, 3, 4, 5}
  KpiMaps <- MCKpiMaps
  Categories = {"cpu", "jvm"}
  Registry <- MCRegistry
  MaxPasses = 2
  Ranked <- MCRanked
  Findings <- MCFindings
  MaxFindings = 3
  Corrections = {"neutral", "strongly_contradicts"}
  MinEvidence = 2
  MismatchPercent = 15
  Stages = {"s1", "s2"}
  FailureTypes = {"tool_timeout", "schema_violation"}
  Declarations = {TRUE, FALSE}
  MaxAppends = 3
  MaxCrashes = 2
  Nothing = Nothing
INVARIANTS
  FlatIsAmbiguous
CHECK_DEADLOCK FALSE
