---------------------------- MODULE MCGhidraSession ----------------------------
(* Three requests: one at the bridge, one queued behind it and one that     *)
(* starts or waits meanwhile.                                               *)
EXTENDS GhidraSession

CONSTANTS r1, r2, r3
=============================================================================
