----------------------------- MODULE OwnedLease -----------------------------
(***************************************************************************)
(* A lease of src/process/OwnedLease.ts: a listening local socket at one    *)
(* path of a private directory, with the recovery of a socket whose owner   *)
(* died.  Processes share only the directory and may die between any two    *)
(* system calls.  One step is one system call of one process, together      *)
(* with what the process decides from its result.                           *)
(*                                                                          *)
(* External behaviour, as this code relies on it: the operating system ends *)
(* the socket of a dead process and leaves its file; `listen` binds and     *)
(* listens at once; Node unlinks the path before it closes the listening    *)
(* socket.  The identities of processes are reused after a death.           *)
(***************************************************************************)
EXTENDS Naturals

CONSTANTS
    Process,            \* processes that want the lease
    Nothing,            \* no file, or no reservation
    Dead                \* the file or the reservation of a process that died

ASSUME LeaseAssumption == Nothing \notin Process /\ Dead \notin Process /\ Nothing # Dead

VARIABLES
    file,               \* who bound the socket file at the path
    bound,              \* the processes whose server is listening
    reservation,        \* who made the `.recovery` directory
    at,                 \* the call each process is about to make
    round,              \* which of its three attempts to bind
    owes                \* what resources.release failed to give back

leaseVars == <<file, bound, reservation, at, round, owes>>

Owed == {"socket", "reservation"}

LeaseTypeOK ==
    /\ file \in Process \cup {Nothing, Dead}
    /\ bound \subseteq Process
    /\ reservation \in Process \cup {Nothing, Dead}
    /\ at \in [Process -> {"idle", "bind", "ask", "reserve", "remove", "unreserve", "held"}]
    /\ round \in [Process -> 1..3]
    /\ owes \in [Process -> SUBSET Owed]

LeaseInit ==
    /\ file = Nothing
    /\ bound = {}
    /\ reservation = Nothing
    /\ at = [p \in Process |-> "idle"]
    /\ round = [p \in Process |-> 1]
    /\ owes = [p \in Process |-> {}]

Go(p, call) == at' = [at EXCEPT ![p] = call]

(* Where an attempt that failed leaves the process: the first one throws,   *)
(* the others are caught and give the reservation back.                     *)
AfterFailure(p) == IF round[p] = 1 THEN "idle" ELSE "unreserve"
AfterSuccess(p) == IF round[p] = 1 THEN "held" ELSE "unreserve"

-----------------------------------------------------------------------------
(* acquireOwnedLease.  Its callers do not start over while an earlier       *)
(* attempt still owes something (`hasPending` blocks a new startup).        *)
Acquire(p) ==
    /\ at[p] = "idle"
    /\ p \notin bound
    /\ owes[p] = {}
    /\ Go(p, "bind")
    /\ round' = [round EXCEPT ![p] = 1]
    /\ UNCHANGED <<file, bound, reservation, owes>>

(* The file of a server that was bound is taken away with it.               *)
CloseServer(p) ==
    /\ file' = Nothing
    /\ bound' = bound \ {p}

(* bind: the path is free.                                                  *)
Bind(p) ==
    /\ at[p] = "bind"
    /\ file = Nothing
    /\ file' = p
    /\ bound' = bound \cup {p}
    /\ Go(p, AfterSuccess(p))
    /\ UNCHANGED <<reservation, round, owes>>

(* The socket was bound, but its permissions could not be set: it is        *)
(* closed again, or owed when that fails too.                               *)
BindInsecurely(p) ==
    /\ at[p] = "bind"
    /\ file = Nothing
    /\ \/ UNCHANGED <<file, bound, owes>>
       \/ /\ file' = p
          /\ bound' = bound \cup {p}
          /\ owes' = [owes EXCEPT ![p] = @ \cup {"socket"}]
    /\ Go(p, AfterFailure(p))
    /\ UNCHANGED <<reservation, round>>

(* EADDRINUSE; or the system refuses the address for another reason.        *)
BindFails(p) ==
    /\ at[p] = "bind"
    /\ \/ /\ file # Nothing
          /\ Go(p, "ask")
       \/ Go(p, AfterFailure(p))
    /\ UNCHANGED <<file, bound, reservation, round, owes>>

(* readOwner: connecting says who is at the path.  A live owner answers, or *)
(* cannot be verified within the deadline: either way nothing is acquired.  *)
AskLive(p) ==
    /\ at[p] = "ask"
    /\ file \in bound
    /\ Go(p, AfterFailure(p))
    /\ UNCHANGED <<file, bound, reservation, round, owes>>

(* ENOENT is "missing", ECONNREFUSED is "stale"; the third attempt gives up. *)
AskGone(p) ==
    /\ at[p] = "ask"
    /\ file \notin bound
    /\ \/ round[p] = 1 /\ Go(p, "reserve") /\ UNCHANGED round
       \/ /\ round[p] = 2
          /\ Go(p, IF file = Nothing THEN "bind" ELSE "remove")
          /\ round' = [round EXCEPT ![p] = IF file = Nothing THEN 3 ELSE @]
       \/ round[p] = 3 /\ Go(p, "unreserve") /\ UNCHANGED round
    /\ UNCHANGED <<file, bound, reservation, owes>>

(* Variant: recovery goes ahead although another process reserved it.       *)
ReserveAnyway(p) ==
    /\ at[p] = "reserve"
    /\ reservation' = p
    /\ Go(p, "bind")
    /\ round' = [round EXCEPT ![p] = 2]
    /\ UNCHANGED <<file, bound, owes>>

(* reserveRecovery.                                                         *)
Reserve(p) ==
    /\ at[p] = "reserve"
    /\ reservation = Nothing
    /\ reservation' = p
    /\ Go(p, "bind")
    /\ round' = [round EXCEPT ![p] = 2]
    /\ UNCHANGED <<file, bound, owes>>

(* EEXIST (recovery_busy), or the directory cannot be made.                 *)
ReserveFails(p) ==
    /\ at[p] = "reserve"
    /\ Go(p, "idle")
    /\ UNCHANGED <<file, bound, reservation, round, owes>>

(* `rm(socketPath)`, which removes whatever the path names by now.          *)
RemoveStale(p) ==
    /\ at[p] = "remove"
    /\ \/ /\ file' = Nothing
          /\ Go(p, "bind")
          /\ round' = [round EXCEPT ![p] = 3]
       \/ /\ Go(p, "unreserve")
          /\ UNCHANGED <<file, round>>
    /\ UNCHANGED <<bound, reservation, owes>>

(* The end of a recovery, acquired or not.                                  *)
Unreserve(p) ==
    /\ at[p] = "unreserve"
    /\ reservation' = Nothing
    /\ Go(p, IF p \in bound /\ "socket" \notin owes[p] THEN "held" ELSE "idle")
    /\ UNCHANGED <<file, bound, round, owes>>

(* The reservation cannot be removed: a socket that was acquired is given   *)
(* back as well, and what cannot be given back stays owed.                  *)
UnreserveFails(p) ==
    /\ at[p] = "unreserve"
    /\ \/ /\ p \in bound /\ "socket" \notin owes[p]
          /\ CloseServer(p)
          /\ owes' = [owes EXCEPT ![p] = @ \cup {"reservation"}]
       \/ /\ owes' = [owes EXCEPT ![p] = @ \cup {"reservation"}
                                        \cup (IF p \in bound THEN {"socket"} ELSE {})]
          /\ UNCHANGED <<file, bound>>
    /\ Go(p, "idle")
    /\ UNCHANGED <<reservation, round>>

(* ArtifactResourceScope.retryCleanup gives back what is owed.              *)
RetryOwed(p) ==
    /\ at[p] = "idle"
    /\ \/ /\ "socket" \in owes[p]
          /\ CloseServer(p)
          /\ owes' = [owes EXCEPT ![p] = @ \ {"socket"}]
          /\ UNCHANGED reservation
       \/ /\ "reservation" \in owes[p]
          /\ reservation' = Nothing
          /\ owes' = [owes EXCEPT ![p] = @ \ {"reservation"}]
          /\ UNCHANGED <<file, bound>>
    /\ UNCHANGED <<at, round>>

(* The `release` of a lease that was acquired.                              *)
Release(p) ==
    /\ at[p] = "held"
    /\ CloseServer(p)
    /\ Go(p, "idle")
    /\ UNCHANGED <<reservation, round, owes>>

(* The process dies: its socket stops answering, its files stay.            *)
Die(p) ==
    /\ \/ at[p] # "idle"
       \/ owes[p] # {}
    /\ file' = IF file = p THEN Dead ELSE file
    /\ bound' = bound \ {p}
    /\ reservation' = IF reservation = p THEN Dead ELSE reservation
    /\ Go(p, "idle")
    /\ owes' = [owes EXCEPT ![p] = {}]
    /\ UNCHANGED round

(* The user removes the reservation of a recovery that was interrupted,     *)
(* after the sessions stopped, as docs/installation.md:890 asks.            *)
UserRemovesReservation ==
    /\ reservation = Dead
    /\ \A p \in Process : at[p] = "idle" /\ owes[p] = {}
    /\ reservation' = Nothing
    /\ UNCHANGED <<file, bound, at, round, owes>>

Recover(p) ==
    \/ Acquire(p) \/ Bind(p) \/ BindInsecurely(p) \/ BindFails(p)
    \/ AskLive(p) \/ AskGone(p)
    \/ Reserve(p) \/ ReserveFails(p) \/ RemoveStale(p)
    \/ Unreserve(p) \/ UnreserveFails(p) \/ RetryOwed(p)

LeaseNext ==
    \/ \E p \in Process : Recover(p) \/ Release(p) \/ Die(p)
    \/ UserRemovesReservation

LeaseSpec == LeaseInit /\ [][LeaseNext]_leaseVars

-----------------------------------------------------------------------------
(* The file at the path belongs to whoever listens: no recovery has taken   *)
(* the path away from a live owner, so the next one that looks finds it     *)
(* (the comments at OwnedLease.ts:125 and :232).                            *)
OwnerKeepsPath == \A p \in bound : file = p

(* Whoever found the socket stale and is about to remove it has the         *)
(* recovery for itself, and the file is still the stale one.                *)
OnlyStaleIsRemoved ==
    \A p \in Process : at[p] = "remove" => reservation = p /\ file = Dead

(* A recovery under way, or one that is owed, is the one that is reserved,  *)
(* and a lease that is held is bound.                                       *)
RecoveryIsReserved ==
    \A p \in Process :
        /\ at[p] = "unreserve" \/ (at[p] \in {"bind", "ask"} /\ round[p] # 1)
               => reservation = p
        /\ "reservation" \in owes[p] => reservation = p
        /\ at[p] = "held" \/ "socket" \in owes[p] => p \in bound

LeaseInvariant == LeaseTypeOK /\ OwnerKeepsPath /\ OnlyStaleIsRemoved /\ RecoveryIsReserved

(* At most one process has the lease, whatever dies when: the listening     *)
(* servers behave as the holders of an exclusive lease.                     *)
Exclusion == INSTANCE LeaseExclusion WITH holders <- bound
ImplementsLease == Exclusion!Spec
=============================================================================
