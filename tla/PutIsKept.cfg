\* The program as it is: InvestigationState lacks a field its serializer names.
SPECIFICATION PayloadSpec
CONSTANTS
  Stages = {"s1", "s2"}
  FailureTypes = {"tool_timeout", "schema_violation"}
  Declarations = {FALSE}
  MaxAppends = 2
  MaxCrashes = 1
  Nothing = Nothing
INVARIANTS
  PutIsKept
CHECK_DEADLOCK FALSE
