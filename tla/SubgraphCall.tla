---------------------------- MODULE SubgraphCall ----------------------------
(* What the investigation graph sees of its two compiled subgraphs: a call *)
(* that is pending, then either returns one kind of result or fails with   *)
(* LangGraph's GraphRecursionError.  AgentLoop implements it, and          *)
(* InvestigationGraph has an action for each of Results and, in Raise, one *)
(* for the failure.                                                        *)

CONSTANT Runtimes   \* see AgentLoop

VARIABLES
  stage,    \* "triage" or "rca"
  flagged,  \* does the state keep the subgraph's completion flag
  result    \* "pending" until the call has ended

(* "silent": the subgraph ended on its stopping condition and has written  *)
(* neither a report nor a forced exit.                                     *)
Results(s) ==
  IF s = "triage" THEN {"report", "loop_break"}
                  ELSE {"report", "loop_break", "budget", "silent"}

SInit ==
  /\ stage \in {"triage", "rca"}
  /\ flagged \in Runtimes
  /\ result = "pending"

(* Without its flag the triage subgraph has no way to end.                 *)
Return ==
  /\ result = "pending"
  /\ flagged \/ stage = "rca"
  /\ result' \in Results(stage)
  /\ UNCHANGED <<stage, flagged>>

Fail ==
  /\ result = "pending"
  /\ result' = "recursion_error"
  /\ UNCHANGED <<stage, flagged>>

SNext == Return \/ Fail

SSpec == SInit /\ [][SNext]_<<stage, flagged, result>>
=============================================================================
