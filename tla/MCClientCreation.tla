--------------------------- MODULE MCClientCreation ---------------------------
(* Three callers of one deferred client; two native clients suffice, as at  *)
(* most one is ever open.                                                   *)
EXTENDS ClientCreation

CONSTANTS c1, c2, c3, n1, n2
=============================================================================
