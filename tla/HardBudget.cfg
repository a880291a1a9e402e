\* A finding: an early return before the first full round loses the counts of
\* its message, and the run goes on, so that the budget of rca is not hard.
SPECIFICATION Spec
CONSTANTS
  Runtimes = {FALSE}
  Requests = {"r1", "r2", "r3"}
  Hypotheses = {"h1", "h2"}
  HypothesisOf <- ThreeRequests
  MaxCalls = 2
  DuplicateLimit = 2
  HypothesisBudget = 2
  TotalBudget = 3
  RecursionLimit = 8
INVARIANTS
  BudgetIsHard
CHECK_DEADLOCK FALSE
