------------------------------ MODULE MCShutdown ------------------------------
(* One call and one target under a shutdown that is tried twice.            *)
EXTENDS Shutdown
=============================================================================
