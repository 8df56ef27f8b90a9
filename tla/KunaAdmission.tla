----------------------------- MODULE KunaAdmission -----------------------------
(***************************************************************************)
(* Admission of the native Kuna runs of all sessions of one provider.      *)
(*                                                                         *)
(* A lookup (`#singleFunction`) needs a slot of the provider's foreground  *)
(* budget; while it waits, the project export of its session may finish    *)
(* and answer it instead.  A query (KunaQueryWork.run) first takes the one *)
(* native slot of its session and then a foreground slot.  Both hand their *)
(* slots to KunaTargetCommands, which gives them back when the process has *)
(* ended, or keeps them while it cannot prove that it stopped.             *)
(***************************************************************************)
EXTENDS RunSlots

CONSTANTS
    Lookups, Queries,   \* the runs, one ticket each
    Sessions,
    SessionOf,          \* the session of each run
    Foreground,         \* the pool of the provider; the others are native slots
    Budget              \* capacity of the foreground pool

Runs == Lookups \cup Queries
Pools == Sessions \cup {Foreground}
Capacity(p) == IF p = Foreground THEN Budget ELSE 1

ASSUME AdmissionAssumption ==
    /\ Tickets = Runs
    /\ Lookups \cap Queries = {}
    /\ Foreground \notin Sessions
    /\ SessionOf \in [Runs -> Sessions]
    /\ Budget \in Nat \ {0}

VARIABLES
    slots,      \* the pools
    step,       \* where each run is
    aborted,    \* runs whose signal is aborted
    exported,   \* sessions whose project export has finished
    closing,    \* sessions whose close has begun
    closed      \* sessions whose close succeeded

admissionVars == <<slots, step, aborted, exported, closing, closed>>

Steps == {"idle", "native", "foreground", "yielding", "running", "thrown", "retained", "done"}

AdmissionInit ==
    /\ slots = [p \in Pools |-> FreshSlots]
    /\ step = [r \in Runs |-> "idle"]
    /\ aborted = {} /\ exported = {} /\ closing = {} /\ closed = {}

Native(r) == SessionOf[r]

(* The pools a run has to give back.                                        *)
PoolsOf(r) == IF r \in Queries THEN {Foreground, Native(r)} ELSE {Foreground}

Goto(r, s) == step' = [step EXCEPT ![r] = s]

(* `releaseRun`: the foreground slot and, for a query, the native one.      *)
ReleaseRun(r) ==
    slots' = [p \in Pools |-> IF p \in PoolsOf(r) THEN Released(slots[p], r) ELSE slots[p]]

AcquireIn(p, r) == slots' = [slots EXCEPT ![p] = Acquired(@, Capacity(p), r)]

-----------------------------------------------------------------------------

(* `acquire` of a lookup; a signal that is already aborted gets no ticket.  *)
RequestLookup(r) ==
    /\ r \in Lookups /\ step[r] = "idle" /\ SessionOf[r] \notin closing
    /\ IF r \in aborted
         THEN Goto(r, "done") /\ UNCHANGED slots
         ELSE Goto(r, "foreground") /\ AcquireIn(Foreground, r)
    /\ UNCHANGED <<aborted, exported, closing, closed>>

(* The native slot of a query.                                              *)
RequestQuery(r) ==
    /\ r \in Queries /\ step[r] = "idle" /\ SessionOf[r] \notin closing
    /\ IF r \in aborted
         THEN Goto(r, "done") /\ UNCHANGED slots
         ELSE Goto(r, "native") /\ AcquireIn(Native(r), r)
    /\ UNCHANGED <<aborted, exported, closing, closed>>

(* Variant: a query cancelled after its native slot keeps it.               *)
GrantedNativeOnly(r) ==
    /\ step[r] = "native" /\ slots[Native(r)].ticket[r] = "held"
    /\ IF r \in aborted
         THEN Goto(r, "done") /\ UNCHANGED slots
         ELSE Goto(r, "foreground") /\ AcquireIn(Foreground, r)
    /\ UNCHANGED <<aborted, exported, closing, closed>>

(* With the native slot the query asks for a foreground slot, or returns    *)
(* the native one because it was cancelled meanwhile.                       *)
GrantedNative(r) ==
    /\ step[r] = "native" /\ slots[Native(r)].ticket[r] = "held"
    /\ IF r \in aborted
         THEN Goto(r, "done") /\ ReleaseRun(r)
         ELSE Goto(r, "foreground") /\ AcquireIn(Foreground, r)
    /\ UNCHANGED <<aborted, exported, closing, closed>>

RefusedNative(r) ==
    /\ step[r] = "native" /\ slots[Native(r)].ticket[r] = "aborted"
    /\ Goto(r, "done")
    /\ UNCHANGED <<slots, aborted, exported, closing, closed>>

(* The command starts, unless the signal was aborted after the grant.       *)
GrantedForeground(r) ==
    /\ step[r] = "foreground" /\ slots[Foreground].ticket[r] = "held"
    /\ IF r \in aborted
         THEN Goto(r, "done") /\ ReleaseRun(r)
         ELSE Goto(r, "running") /\ UNCHANGED slots
    /\ UNCHANGED <<aborted, exported, closing, closed>>

RefusedForeground(r) ==
    /\ step[r] = "foreground" /\ slots[Foreground].ticket[r] = "aborted"
    /\ Goto(r, "done")
    /\ ReleaseRun(r)
    /\ UNCHANGED <<aborted, exported, closing, closed>>

(* Variant: an answer by the export forgets a slot granted in the same turn. *)
YieldOnly(r) ==
    /\ r \in Lookups /\ step[r] = "foreground" /\ SessionOf[r] \in exported
    /\ slots' = [slots EXCEPT ![Foreground] = Aborted(@, {r})]
    /\ Goto(r, "done")
    /\ UNCHANGED <<aborted, exported, closing, closed>>

(* The export answers first: the ticket is given up, and a slot that was    *)
(* granted in the same turn is returned rather than leaked.                 *)
Yield(r) ==
    /\ r \in Lookups /\ step[r] = "foreground" /\ SessionOf[r] \in exported
    /\ slots' = [slots EXCEPT ![Foreground] = Aborted(@, {r})]
    /\ Goto(r, "yielding")
    /\ UNCHANGED <<aborted, exported, closing, closed>>

ReturnSlot(r) ==
    /\ step[r] = "yielding"
    /\ ReleaseRun(r)
    /\ Goto(r, "done")
    /\ UNCHANGED <<aborted, exported, closing, closed>>

(* The process ended, or never started: its slots are given back.           *)
FinishRun(r) ==
    /\ step[r] = "running"
    /\ ReleaseRun(r)
    /\ Goto(r, "done")
    /\ UNCHANGED <<aborted, exported, closing, closed>>

(* The command throws: it gives the slots back, and so does the query that  *)
(* catches it a turn later.                                                 *)
Throw(r) ==
    /\ r \in Queries /\ step[r] = "running"
    /\ ReleaseRun(r)
    /\ Goto(r, "thrown")
    /\ UNCHANGED <<aborted, exported, closing, closed>>

Catch(r) ==
    /\ step[r] = "thrown"
    /\ ReleaseRun(r)
    /\ Goto(r, "done")
    /\ UNCHANGED <<aborted, exported, closing, closed>>

(* The process cannot be proven stopped; the slots stay with the session.   *)
Retain(r) ==
    /\ step[r] = "running"
    /\ Goto(r, "retained")
    /\ UNCHANGED <<slots, aborted, exported, closing, closed>>

(* Only lookups wait for it.                                                *)
ExportFinishes(s) ==
    /\ s \notin exported
    /\ \E r \in Lookups : SessionOf[r] = s
    /\ exported' = exported \cup {s}
    /\ UNCHANGED <<slots, step, aborted, closing, closed>>

(* Signals of runs: their tickets that wait, in either pool, are given up.  *)
AbortAll(rs) ==
    /\ aborted' = aborted \cup rs
    /\ slots' = [p \in Pools |-> Aborted(slots[p], rs)]

Signal(r) ==
    /\ r \notin aborted /\ step[r] # "done"
    /\ AbortAll({r})
    /\ UNCHANGED <<step, exported, closing, closed>>

-----------------------------------------------------------------------------

RunsOf(s) == {r \in Runs : SessionOf[r] = s}

(* `close` aborts the session signal, on which all its runs depend.         *)
BeginSessionClose(s) ==
    /\ s \notin closing
    /\ closing' = closing \cup {s}
    /\ AbortAll({r \in RunsOf(s) : step[r] # "done"})
    /\ UNCHANGED <<step, exported, closed>>

(* Its requests are awaited first.                                          *)
Quiet(s) == \A r \in RunsOf(s) : step[r] \in {"idle", "retained", "done"}

(* A later attempt of the close proves that a retained process stopped.     *)
ProveStopped(r) ==
    /\ step[r] = "retained"
    /\ SessionOf[r] \in closing \ closed /\ Quiet(SessionOf[r])
    /\ ReleaseRun(r)
    /\ Goto(r, "done")
    /\ UNCHANGED <<aborted, exported, closing, closed>>

(* It succeeds when nothing is retained.                                    *)
CloseSucceeds(s) ==
    /\ s \in closing \ closed /\ Quiet(s)
    /\ \A r \in RunsOf(s) : step[r] # "retained"
    /\ closed' = closed \cup {s}
    /\ UNCHANGED <<slots, step, aborted, exported, closing>>

RunSteps(r) ==
    \/ GrantedNative(r)
    \/ RefusedNative(r)
    \/ GrantedForeground(r)
    \/ RefusedForeground(r)
    \/ ReturnSlot(r)
    \/ FinishRun(r)
    \/ Throw(r)
    \/ Catch(r)
    \/ Retain(r)

AdmissionNext ==
    \/ \E r \in Runs :
          \/ RequestLookup(r)
          \/ RequestQuery(r)
          \/ RunSteps(r)
          \/ Yield(r)
          \/ Signal(r)
          \/ ProveStopped(r)
    \/ \E s \in Sessions :
          \/ ExportFinishes(s)
          \/ BeginSessionClose(s)
          \/ CloseSucceeds(s)

AdmissionSpec == AdmissionInit /\ [][AdmissionNext]_admissionVars

(* Promises resolve, and every command has a deadline.  Nothing obliges an  *)
(* export to finish, a caller to give up or a retained process to stop.     *)
AdmissionFairSpec == AdmissionSpec /\ \A r \in Runs : WF_admissionVars(RunSteps(r))

-----------------------------------------------------------------------------

(* The pools and the runs stay within their ranges.                         *)
AdmissionTypeOK ==
    /\ slots \in [Pools -> Slots]
    /\ step \in [Runs -> Steps]
    /\ aborted \subseteq Runs
    /\ exported \subseteq Sessions
    /\ closed \subseteq closing /\ closing \subseteq Sessions

(* Every pool admits no more than its capacity, counts exactly the runs     *)
(* that hold a slot, queues exactly those that wait, and leaves no slot     *)
(* idle while one waits.                                                    *)
PoolsAreSound == \A p \in Pools : SlotsSound(slots[p], Capacity(p))

(* A slot is held only by a run that will still give it back: however a run *)
(* is cancelled, answered by the export or thrown, no slot leaks. And a Kuna*)
(* process runs, or may still run, only under all slots it needs, until the *)
(* close of its session succeeds.                                           *)
SlotsFollowRuns ==
    \A r \in Runs :
        /\ r \in Holders(slots[Foreground]) =>
              step[r] \in {"foreground", "yielding", "running", "retained"}
        /\ r \in Holders(slots[Native(r)]) =>
              r \in Queries /\ step[r] \in {"native", "foreground", "running", "retained"}
        /\ step[r] \in {"running", "retained"} =>
              SessionOf[r] \notin closed /\ \A p \in PoolsOf(r) : r \in Holders(slots[p])

(* Nested slots do not deadlock: a run that waits is admitted or refused,   *)
(* unless a process that cannot be proven stopped keeps a slot.             *)
EveryWaiterIsServed ==
    \A r \in Runs : step[r] \in {"native", "foreground"} ~>
        step[r] \notin {"native", "foreground"} \/ \E q \in Runs : step[q] = "retained"
=============================================================================
