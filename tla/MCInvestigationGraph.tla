------------------------ MODULE MCInvestigationGraph ------------------------
(* Instances of InvestigationGraph for TLC.                                *)
EXTENDS InvestigationGraph

CONSTANTS e1, e2
=============================================================================
