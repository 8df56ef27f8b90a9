--------------------------- MODULE MCBinarySession ---------------------------
(* BinarySession for TLC: interchangeable calls and clients.                *)
EXTENDS BinarySession, TLC

CONSTANTS c1, c2, p1, p2, p3, t1, t2

CallsAndClients == Permutations({c1, c2}) \cup Permutations({p1, p2, p3})
=============================================================================
