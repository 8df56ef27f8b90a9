----------------------------- MODULE MCToolRequest -----------------------------
(* Two requests and two transitions.                                        *)
EXTENDS ToolRequest

CONSTANTS r1, r2
=============================================================================
