\* A finding: LangGraph drops the completion flag, and a subgraph goes on after
\* its report until it runs out of supersteps.
SPECIFICATION Spec
CONSTANTS
  Runtimes = {FALSE}
  Requests = {"r1", "r2", "r3"}
  Hypotheses = {"h1", "h2"}
  HypothesisOf <- ThreeRequests
  MaxCalls = 2
  DuplicateLimit = 2
  HypothesisBudget = 2
  TotalBudget = 3
  RecursionLimit = 8
INVARIANTS
  SubmitFinishes
CHECK_DEADLOCK FALSE
