-------------------------- MODULE SessionExclusion --------------------------
(***************************************************************************)
(* What a BinarySession promises its callers about admission, and nothing  *)
(* about how: any number of provider calls run against the current         *)
(* selection, or one target transition replaces the selection, never both. *)
(* SessionLock refines this module.                                        *)
(***************************************************************************)
CONSTANT Calls      \* the provider calls of the session

VARIABLES
    reading,        \* the calls that run against the current selection
    writer          \* TRUE while a transition may replace the selection

vars == <<reading, writer>>

Init ==
    /\ reading = {}
    /\ writer = FALSE

BeginCall(c) ==
    /\ ~writer
    /\ c \notin reading
    /\ reading' = reading \cup {c}
    /\ UNCHANGED writer

EndCall(c) ==
    /\ c \in reading
    /\ reading' = reading \ {c}
    /\ UNCHANGED writer

BeginTransition ==
    /\ ~writer
    /\ reading = {}
    /\ writer' = TRUE
    /\ UNCHANGED reading

EndTransition ==
    /\ writer
    /\ writer' = FALSE
    /\ UNCHANGED reading

Next ==
    \/ \E c \in Calls : BeginCall(c) \/ EndCall(c)
    \/ BeginTransition
    \/ EndTransition

Spec == Init /\ [][Next]_vars
=============================================================================
