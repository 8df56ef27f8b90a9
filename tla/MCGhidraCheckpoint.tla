--------------------------- MODULE MCGhidraCheckpoint ---------------------------
(* Processes that open the same checkpoint, publish, die and start again.   *)
EXTENDS GhidraCheckpoint, TLC

Symmetry == Permutations(Process) \cup Permutations(Blob)
=============================================================================
