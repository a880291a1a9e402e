------------------------- MODULE MCCheckpointStore -------------------------
(* Instances of CheckpointStore for TLC.                                   *)
EXTENDS CheckpointStore, TLC

CONSTANTS k1, k2, k3, k4, c1, c2

Symmetry ==
  Permutations(CheckpointIds) \cup Permutations(Clients)
=============================================================================
