---------------------------- MODULE MCKunaAdmission ----------------------------
(* Two queries of one session for its native slot, and the lookup of another *)
(* session with which they compete for the only foreground slot.             *)
EXTENDS KunaAdmission

CONSTANTS s1, s2, l1, q1, q2

MCSessionOf == [r \in Runs |-> IF r = l1 THEN s2 ELSE s1]
=============================================================================
