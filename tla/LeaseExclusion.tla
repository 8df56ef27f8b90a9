--------------------------- MODULE LeaseExclusion ---------------------------
(***************************************************************************)
(* What a named lease promises, and nothing about how: at most one process *)
(* has it, it passes on only after that process gave it up or died.        *)
(* OwnedLease refines this module.                                         *)
(***************************************************************************)
CONSTANT Process

VARIABLE holders        \* the processes that have the lease

Init == holders = {}

Take(p) ==
    /\ holders = {}
    /\ holders' = {p}

Leave(p) ==
    /\ p \in holders
    /\ holders' = holders \ {p}

Next == \E p \in Process : Take(p) \/ Leave(p)

Spec == Init /\ [][Next]_holders
=============================================================================
