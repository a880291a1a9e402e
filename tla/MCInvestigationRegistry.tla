---------------------- MODULE MCInvestigationRegistry ----------------------
(* Instances of InvestigationRegistry for TLC.                             *)
EXTENDS InvestigationRegistry, TLC

CONSTANTS i1, i2, c1, c2

(* Two alerts with one signature whose windows are apart, and one with     *)
(* another signature around the first and across the start of the second.  *)
Base     == [cluster |-> "k1", signature |-> "s1", start |-> 1, end |-> 3]
Later    == [cluster |-> "k1", signature |-> "s1", start |-> 4, end |-> 6]
Around   == [cluster |-> "k1", signature |-> "s2", start |-> 0, end |-> 5]

SomeAlerts == {Base, Later, Around}

Symmetry == Permutations({c1, c2}) \cup Permutations({i1, i2})
=============================================================================
