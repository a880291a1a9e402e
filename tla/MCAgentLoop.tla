---------------------------- MODULE MCAgentLoop ----------------------------
(* Instances of AgentLoop for TLC.                                         *)
EXTENDS AgentLoop

(* Two requests about one hypothesis, one about another.                   *)
ThreeRequests == [r1 |-> "h1", r2 |-> "h1", r3 |-> "h2"]
=============================================================================
