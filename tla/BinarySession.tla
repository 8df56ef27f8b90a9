---------------------------- MODULE BinarySession ----------------------------
(***************************************************************************)
(* The lifecycle of one BinarySession: which provider client is active,    *)
(* which retired clients still owe a cleanup, the replay cache, and the    *)
(* transitions (open, open_bundle_resources, external mutation, close,     *)
(* dispose, reset) that change them under the lock of SessionLock.         *)
(*                                                                         *)
(* A transition past its drain advances one await at a time; `step` names  *)
(* the await it is at.  Cancellation is a choice at each place where the   *)
(* code looks at the signal: the first look that finds it aborted ends the *)
(* attempt, so nothing about the signal has to be remembered.  A target    *)
(* stands for a target with its provider profile.                          *)
(***************************************************************************)
EXTENDS SessionLock, Sequences

CONSTANTS
    Clients,        \* identities of provider clients, reused once closed
    Targets,        \* targets, each with the profile its route selects
    Profiled,       \* the targets whose route has an analysis profile
    MaxQueued,      \* bound: transitions queued at once, the running one included
    None

ASSUME SessionAssumption ==
    /\ Profiled \subseteq Targets
    /\ None \notin Clients \cup Targets
    /\ MaxQueued \in Nat

Kinds == {"open", "openResources", "mutate", "close", "dispose", "reset"}

VARIABLES
    client, target,     \* #active: its client and target, or None
    resource,           \* the client of #activeBundleResources, or None
    pending,            \* the client of #pendingCleanup, or None
    pendingRes,         \* the clients of #pendingBundleResourceCleanup
    open,               \* clients created and not yet closed successfully
    staged, entries,    \* the replay cache: its target, and how old its entries are
    invalidated,        \* #snapshotInvalidated
    mutationFailure,    \* #externalMutationCleanupFailure is cleanupIncomplete
    shutdown, disposed, \* #shutdownStarted, #investigationDisposed
    serving,            \* the client that works on each call, or None
    observing,          \* what its answer will be worth to the replay cache
    ops,                \* kinds of the unsettled transitions, in request order
    outcome,            \* how the last transition settled
    step, goal, importing, previous, run    \* locals of the head transition

selection == <<client, target, resource>>
cleanup == <<pending, pendingRes, open>>
cache == <<staged, entries, invalidated>>
flags == <<mutationFailure, shutdown, disposed>>
callVars == <<serving, observing>>
queue == <<ops, outcome>>
locals == <<goal, importing, previous, run>>
vars == <<lockVars, selection, cleanup, cache, flags, callVars, queue, step, locals>>

Init ==
    /\ LockInit
    /\ client = None /\ target = None /\ resource = None
    /\ pending = None /\ pendingRes = {} /\ open = {}
    /\ staged = None /\ entries = {} /\ invalidated = FALSE
    /\ mutationFailure = FALSE /\ shutdown = FALSE /\ disposed = FALSE
    /\ serving = [c \in Calls |-> None]
    /\ observing = [c \in Calls |-> "nothing"]
    /\ ops = <<>> /\ outcome = "none"
    /\ step = "none" /\ goal = None /\ importing = FALSE /\ previous = None /\ run = None

-----------------------------------------------------------------------------
(* The replay cache *)

EmptyCache == staged' = None /\ entries' = {}

ClearSnapshot == EmptyCache /\ UNCHANGED invalidated

InvalidateSnapshot == EmptyCache /\ invalidated' = TRUE

ClearEngineRecords == EmptyCache /\ invalidated' = FALSE

(* Entries that survive `resetSnapshotInvalidation` and then the move to t. *)
Kept(t) == IF staged = t /\ ~invalidated THEN entries ELSE {}

(* `resetSnapshotInvalidation`, then `clearSnapshot` for a target without a *)
(* profile and `selectSnapshot` for one that has it.                        *)
SelectSnapshot(t) ==
    /\ invalidated' = FALSE
    /\ staged' = IF t \in Profiled THEN t ELSE None
    /\ entries' = IF t \in Profiled THEN Kept(t) ELSE {}

(* Variant: entries of another target are merged as well.                   *)
ImportAnywhere(t) ==
    /\ invalidated' = FALSE
    /\ staged' = IF staged = None THEN t ELSE staged
    /\ entries' = entries \cup {"fresh"}

(* `importAnalysisSnapshot`: entries of the same target are merged.         *)
ImportSnapshot(t) ==
    /\ invalidated' = FALSE
    /\ staged' = t
    /\ entries' = Kept(t) \cup {"fresh"}

Replayable == target # None /\ staged = target /\ ~invalidated

-----------------------------------------------------------------------------
(* Calls *)

InvokeCall(c) ==
    /\ Invoke(c)
    /\ UNCHANGED <<selection, cleanup, cache, flags, callVars, queue, step, locals>>

(* Variant: admitted whatever transitions are unsettled.                    *)
AdmitCallEarly(c) ==
    /\ callState[c] = "waiting"
    /\ callState' = [callState EXCEPT ![c] = "admitted"]
    /\ UNCHANGED <<generation, settled, phase, drain, callGen, barrier>>
    /\ UNCHANGED <<selection, cleanup, cache, flags, callVars, queue, step, locals>>

AdmitCall(c) ==
    /\ Admit(c)
    /\ UNCHANGED <<selection, cleanup, cache, flags, callVars, queue, step, locals>>

CancelCall(c) ==
    /\ CancelWait(c)
    /\ UNCHANGED <<selection, cleanup, cache, flags, callVars, queue, step, locals>>

(* An admitted call hands a request to the selected client.                 *)
Send(c, worth) ==
    /\ callState[c] = "admitted"
    /\ serving[c] = None
    /\ serving' = [serving EXCEPT ![c] = IF resource # None THEN resource ELSE client]
    /\ observing' = [observing EXCEPT ![c] = worth]
    /\ UNCHANGED <<lockVars, selection, cleanup, flags, queue, step, locals>>

(* `executeIfProviderReady`: sent at once to the active client.             *)
CallReady(c) ==
    /\ client # None
    /\ InvokeReady(c)
    /\ serving' = [serving EXCEPT ![c] = client]
    /\ UNCHANGED <<selection, cleanup, cache, flags, observing, queue, step, locals>>

(* `#execute` on a bundle resource: never cached.                           *)
DispatchResource(c) ==
    /\ resource # None
    /\ Send(c, "nothing")
    /\ UNCHANGED cache

(* `#execute` of a read that the cache does not answer.                     *)
DispatchRead(c) ==
    /\ resource = None /\ client # None
    /\ Send(c, IF target \in Profiled THEN "fresh" ELSE "nothing")
    /\ UNCHANGED cache

(* What a metadata change does to the observations made before it.          *)
Outdated(worths) == [d \in Calls |-> IF worths[d] = "fresh" THEN "stale" ELSE worths[d]]

(* `#execute` of an operation that mutates the artifact: replay stops       *)
(* before the request is sent, whatever the reply will be.                  *)
DispatchMutation(c) ==
    /\ resource = None /\ client # None
    /\ Send(c, "mutation")
    /\ InvalidateSnapshot

(* `invalidateSnapshotForExternalMutation` inside an admitted call that may *)
(* change the artifact through another tool.                                *)
InvalidateExternally(c) ==
    /\ callState[c] = "admitted"
    /\ serving[c] = None
    /\ observing' = [Outdated(observing) EXCEPT ![c] = "mutation"]
    /\ InvalidateSnapshot
    /\ UNCHANGED <<lockVars, selection, cleanup, flags, serving, queue, step, locals>>

(* `recordSnapshot` ignores what it is told once the cache is invalidated.  *)
RecordSnapshot(worth) ==
    IF invalidated
      THEN UNCHANGED cache
      ELSE /\ staged' = target
           /\ entries' = Kept(target) \cup {worth}
           /\ UNCHANGED invalidated

(* A read answers; a failed or uncacheable answer is not recorded.          *)
AnswerRead(c) ==
    /\ serving[c] # None
    /\ observing[c] # "mutation"
    /\ serving' = [serving EXCEPT ![c] = None]
    /\ observing' = [observing EXCEPT ![c] = "nothing"]
    /\ UNCHANGED cache \/ (observing[c] # "nothing" /\ RecordSnapshot(observing[c]))
    /\ UNCHANGED <<lockVars, selection, cleanup, flags, queue, step, locals>>

(* A mutation takes effect at some moment before it answers: observations   *)
(* and entries made until then are outdated.                                *)
AnswerMutation(c) ==
    /\ observing[c] = "mutation"
    /\ serving' = [serving EXCEPT ![c] = None]
    /\ observing' = [Outdated(observing) EXCEPT ![c] = "nothing"]
    /\ entries' = IF entries = {} THEN {} ELSE {"stale"}
    /\ UNCHANGED <<lockVars, selection, cleanup, staged, invalidated, flags, queue, step, locals>>

SettleCall(c) ==
    /\ serving[c] = None /\ observing[c] = "nothing"
    /\ Settle(c)
    /\ UNCHANGED <<selection, cleanup, cache, flags, callVars, queue, step, locals>>

-----------------------------------------------------------------------------
(* Requesting, starting and settling transitions *)

(* Variant: `dispose` queues without beginning the shutdown.                *)
RequestOnly(kind) ==
    /\ Len(ops) < MaxQueued
    /\ Serialize
    /\ ops' = Append(ops, kind)
    /\ UNCHANGED <<selection, cleanup, cache, flags, callVars, outcome, step, locals>>

(* `dispose` begins the shutdown before it queues; `resetInvestigation`     *)
(* is refused once the shutdown began.                                      *)
Request(kind) ==
    /\ Len(ops) < MaxQueued
    /\ kind = "reset" => ~shutdown
    /\ Serialize
    /\ ops' = Append(ops, kind)
    /\ shutdown' = (shutdown \/ kind = "dispose")
    /\ UNCHANGED <<selection, cleanup, cache, mutationFailure, disposed, callVars,
                   outcome, step, locals>>

BeginShutdown ==
    /\ ~shutdown
    /\ shutdown' = TRUE
    /\ UNCHANGED <<lockVars, selection, cleanup, cache, mutationFailure, disposed,
                   callVars, queue, step, locals>>

(* The owner of an unfinished external mutation cleanup finishes it.        *)
MutationCleanupResolves ==
    /\ mutationFailure
    /\ mutationFailure' = FALSE
    /\ UNCHANGED <<lockVars, selection, cleanup, cache, shutdown, disposed,
                   callVars, queue, step, locals>>

Kind == Head(ops)

Leave(result) ==
    /\ ops' = Tail(ops)
    /\ outcome' = result
    /\ step' = "none"
    /\ goal' = None /\ importing' = FALSE /\ previous' = None /\ run' = None

(* The transition returns: an `await` chain ends and the lock moves on.     *)
Return(result) == SettleTransition /\ Leave(result)

(* The transition goes on to its next await.                                *)
Goto(next) == step' = next /\ UNCHANGED <<lockVars, queue, goal, importing, previous>>

(* `#targetAcquisitionRefused`, a cancellation, a target or snapshot that   *)
(* does not resolve, or a mutation while only app resources are open.       *)
RefuseEarly ==
    /\ SettleEarly
    /\ \/ Kind \in {"open", "mutate"}
       \/ Kind = "openResources" /\ shutdown
    /\ Leave("failed")
    /\ UNCHANGED <<selection, cleanup, cache, flags, callVars>>

(* A target is resolved against the session it replaces: with no target     *)
(* open, it has to match the staged snapshot.                               *)
Resolves(t) == client = None => staged \in {None, t}

Start ==
    /\ StartDrain
    /\ Kind \in {"open", "openResources"} => ~shutdown
    /\ Kind = "open" => ~mutationFailure
    /\ Kind = "mutate" => resource = None
    /\ IF Kind = "open"
         THEN /\ goal' \in {t \in Targets : Resolves(t)}
              /\ importing' \in BOOLEAN
         ELSE UNCHANGED <<goal, importing>>
    /\ UNCHANGED <<selection, cleanup, cache, flags, callVars, queue, step, previous, run>>

Drained ==
    /\ DrainDone
    /\ step' = IF Kind \in {"close", "dispose"} THEN "close" ELSE "pending"
    /\ UNCHANGED <<selection, cleanup, cache, flags, callVars, queue, locals>>

-----------------------------------------------------------------------------
(* Cleanup shared by the transitions *)

(* `closeAnalysisClient` on #pendingCleanup answers ok: the owner is gone.  *)
PendingCloses ==
    /\ open' = open \ {pending}
    /\ pending' = None
    /\ UNCHANGED pendingRes

(* #retryPendingBundleResourceCleanup: each session closes or stays pending. *)
ResourcesClose(failed) ==
    /\ open' = open \ (pendingRes \ failed)
    /\ pendingRes' = failed
    /\ UNCHANGED pending

(* `#retireClient` up to its await: the run becomes the pending cleanup.    *)
Retire(c) == pending' = c /\ run' = None

Present(c) == {c} \ {None}

(* A new client, owned by the transition that created it.                   *)
Create(n) == n \in Clients \ open /\ open' = open \cup {n}

(* Variants: the pending client is not retried; the unfinished mutation is  *)
(* not looked at.                                                           *)
SkipPending ==
    /\ step = "pending"
    /\ mutationFailure => Kind = "mutate"
    /\ mutationFailure' = FALSE
    /\ Goto(IF Kind = "mutate" THEN "mutate" ELSE "resources")
    /\ UNCHANGED <<selection, cleanup, cache, shutdown, disposed, callVars, run>>

IgnoreMutationFailure ==
    /\ step = "pending"
    /\ PendingCloses
    /\ Goto(IF Kind = "mutate" THEN "mutate" ELSE "resources")
    /\ UNCHANGED <<selection, cache, flags, callVars, run>>

(* The first awaits past the drain of every transition but a close.  An     *)
(* open was refused while a mutation cleanup is unfinished; a mutation may  *)
(* recover it here, the others give up.                                     *)
RetryPending ==
    /\ step = "pending"
    /\ mutationFailure => Kind = "mutate"
    /\ mutationFailure' = FALSE
    /\ PendingCloses
    /\ Goto(IF Kind = "mutate" THEN "mutate" ELSE "resources")
    /\ UNCHANGED <<selection, cache, shutdown, disposed, callVars, run>>

(* The transition is cancelled, the mutation cleanup cannot be recovered or *)
(* the pending client still does not close.                                 *)
GiveUpPending ==
    /\ step = "pending"
    /\ Return("failed")
    /\ mutationFailure' \in {mutationFailure, mutationFailure /\ Kind # "mutate"}
    /\ UNCHANGED <<selection, cleanup, cache, shutdown, disposed, callVars>>

RetryResources ==
    /\ step = "resources"
    /\ \E failed \in SUBSET pendingRes :
        /\ ResourcesClose(failed)
        /\ \/ failed = {} /\ Goto(Kind) /\ UNCHANGED run
           \/ Return("failed")
    /\ UNCHANGED <<selection, cache, flags, callVars>>

-----------------------------------------------------------------------------
(* open_binary *)

(* `#tryRetainedFastPath`: the selected target is asked for again and its   *)
(* client is live, or the caller cancelled while it was probed.             *)
FastPath ==
    /\ step = "open"
    /\ client # None /\ target = goal
    /\ \/ ~importing /\ Return("ok") /\ UNCHANGED cache
       \/ importing /\ ~invalidated /\ Return("ok") /\ ImportSnapshot(goal)
       \/ Return("failed") /\ UNCHANGED cache
    /\ UNCHANGED <<selection, cleanup, flags, callVars>>

(* The selection is taken away before its client is retired.                *)
TakeSelection ==
    /\ step = "open"
    /\ client' = None /\ target' = None
    /\ previous' = target
    /\ pending' = IF client = None THEN pending ELSE client
    /\ step' = IF client = None THEN "start" ELSE "retire"
    /\ UNCHANGED <<lockVars, resource, pendingRes, open, cache, flags, callVars, queue,
                   goal, importing, run>>

RetirePrevious ==
    /\ step = "retire"
    /\ PendingCloses
    /\ Goto("start")
    /\ UNCHANGED <<selection, cache, flags, callVars, run>>

RetirePreviousFails ==
    /\ step = "retire"
    /\ ClearSnapshot
    /\ Return("failed")
    /\ UNCHANGED <<selection, cleanup, flags, callVars>>

(* Cancelled after the retirement, or the route cannot be refreshed.        *)
AbandonStart ==
    /\ step = "start"
    /\ Goto("restore")
    /\ UNCHANGED <<selection, cleanup, cache, flags, callVars, run>>

(* The candidate is created and asked for its health.                       *)
StartCandidate ==
    /\ step = "start"
    /\ \E n \in Clients :
        /\ Create(n)
        /\ \/ /\ run' = n
              /\ pendingRes' = pendingRes \cup Present(resource)
              /\ resource' = None
              /\ Goto("commit")
              /\ UNCHANGED pending
           \/ /\ Retire(n)
              /\ Goto("failed")
              /\ UNCHANGED <<resource, pendingRes>>
    /\ UNCHANGED <<client, target, cache, flags, callVars>>

(* The app resources the candidate replaces are closed, then it is selected. *)
Commit ==
    /\ step = "commit"
    /\ ResourcesClose({})
    /\ client' = run /\ target' = goal
    /\ IF importing THEN ImportSnapshot(goal) ELSE SelectSnapshot(goal)
    /\ Return("ok")
    /\ UNCHANGED <<resource, flags, callVars>>

(* They do not close, or the caller cancelled.                              *)
CommitFails ==
    /\ step = "commit"
    /\ \E failed \in SUBSET pendingRes :
        /\ open' = open \ (pendingRes \ failed)
        /\ pendingRes' = failed
    /\ Retire(run)
    /\ Goto("failed")
    /\ UNCHANGED <<selection, cache, flags, callVars>>

(* What the import, refused after the selection and after the invalidation  *)
(* was reset, leaves to `#failedOpen`.                                      *)
ImportFails ==
    /\ IF invalidated THEN ClearEngineRecords ELSE UNCHANGED cache
    /\ open' = open \ pendingRes
    /\ pendingRes' = {}
    /\ Retire(run)
    /\ Goto("failed")
    /\ UNCHANGED <<resource, flags, callVars>>

(* `#active` is unset again.                                                *)
ImportRefused ==
    /\ step = "commit" /\ importing
    /\ ImportFails
    /\ client' = None /\ target' = None

(* `#failedOpen`: the candidate closes, or stays as the pending cleanup.    *)
RetireCandidate ==
    /\ step = "failed"
    /\ PendingCloses
    /\ Goto("restore")
    /\ UNCHANGED <<selection, cache, flags, callVars, run>>

RetireCandidateFails ==
    /\ step = "failed"
    /\ Return("failed")
    /\ UNCHANGED <<selection, cleanup, cache, flags, callVars>>

(* `#restore`: the previous target gets a new client, best effort.          *)
Restore ==
    /\ step = "restore"
    /\ \/ Return("failed") /\ UNCHANGED <<client, target, pending, open>>
       \/ /\ previous # None
          /\ \E n \in Clients :
              /\ Create(n)
              /\ \/ /\ client' = n /\ target' = previous
                    /\ Return("failed")
                    /\ UNCHANGED pending
                 \/ /\ Retire(n)
                    /\ Goto("restoreFailed")
                    /\ UNCHANGED <<client, target>>
    /\ UNCHANGED <<resource, pendingRes, cache, flags, callVars>>

RetireRestored ==
    /\ step = "restoreFailed"
    /\ PendingCloses \/ UNCHANGED cleanup
    /\ Return("failed")
    /\ UNCHANGED <<selection, cache, flags, callVars>>

-----------------------------------------------------------------------------
(* Closing, and the transitions that close *)

(* `#closeActive` before its first await: every owner is registered as      *)
(* pending before anyone can see that the selection is gone.                *)
BeginClose ==
    /\ pending' = IF client = None THEN pending ELSE client
    /\ pendingRes' = pendingRes \cup Present(resource)
    /\ client' = None /\ target' = None /\ resource' = None
    /\ ClearEngineRecords
    /\ UNCHANGED open

(* `close`, `closeWithSnapshot` and `dispose`; only the snapshot save fails *)
(* before anything was closed.                                              *)
Close ==
    /\ step = "close"
    /\ BeginClose
    /\ Goto("closing")
    /\ UNCHANGED <<flags, callVars, run>>

SaveFails ==
    /\ step = "close" /\ Kind = "close"
    /\ Return("failed")
    /\ UNCHANGED <<selection, cleanup, cache, flags, callVars>>

(* Variant: an owner that fails to close is forgotten.                      *)
ForgetOwners(failed, keeps) ==
    /\ keeps => pending # None
    /\ pending' = None
    /\ open' = open \ (pendingRes \ failed)

(* Every owner is asked to close although another one failed: `failed` app  *)
(* resources and, if it `keeps` open, the pending client stay pending.      *)
CloseOwners(failed, keeps) ==
    /\ keeps => pending # None
    /\ pending' = IF keeps THEN pending ELSE None
    /\ open' = open \ ((pendingRes \ failed) \cup IF keeps THEN {} ELSE {pending})

(* The session's files and candidate resources close too, or do not; a      *)
(* cancelled mutation fails although all closed; `dispose` seals the        *)
(* records only when everything closed.                                     *)
CloseSettles ==
    /\ step = "closing" /\ Kind \in {"close", "dispose", "mutate"}
    /\ \E failed \in SUBSET pendingRes, keeps \in BOOLEAN, result \in {"ok", "failed"} :
        /\ CloseOwners(failed, keeps)
        /\ pendingRes' = failed
        /\ result = "ok" => failed = {} /\ ~keeps
        /\ Return(result)
        /\ disposed' = (disposed \/ (Kind = "dispose" /\ result = "ok"))
    /\ UNCHANGED <<selection, cache, mutationFailure, shutdown, callVars>>

(* open_bundle_resources: the reader is created before the binary closes.   *)
StartResources ==
    /\ step = "openResources"
    /\ \/ Return("failed") /\ UNCHANGED <<selection, cleanup, cache>>
       \/ \E n \in Clients :
            /\ n \notin open
            /\ \/ /\ run' = n
                  /\ Goto("admitResources")
                  /\ UNCHANGED pendingRes
               \/ /\ pendingRes' = pendingRes \cup {n}
                  /\ Goto("dropResources")
                  /\ UNCHANGED run
            /\ open' = open \cup {n}
            /\ UNCHANGED <<selection, pending, cache>>
    /\ UNCHANGED <<flags, callVars>>

AdmitResources ==
    /\ step = "admitResources"
    /\ BeginClose
    /\ Goto("closing")
    /\ UNCHANGED <<flags, callVars, run>>

SelectResources ==
    /\ step = "closing" /\ Kind = "openResources"
    /\ CloseOwners({}, FALSE)
    /\ pendingRes' = {}
    /\ resource' = run
    /\ Return("ok")
    /\ UNCHANGED <<client, target, cache, flags, callVars>>

(* Something did not close or the caller cancelled: drop the candidate.     *)
SelectResourcesFails ==
    /\ step = "closing" /\ Kind = "openResources"
    /\ \E failed \in SUBSET pendingRes, keeps \in BOOLEAN :
        /\ CloseOwners(failed, keeps)
        /\ pendingRes' = failed \cup {run}
    /\ run' = None
    /\ Goto("dropResources")
    /\ UNCHANGED <<selection, cache, flags, callVars>>

DropResources ==
    /\ step = "dropResources"
    /\ \E failed \in SUBSET pendingRes : ResourcesClose(failed)
    /\ Return("failed")
    /\ UNCHANGED <<selection, cache, flags, callVars>>

-----------------------------------------------------------------------------
(* External mutation and reset *)

(* Replay stops before the operation runs.                                  *)
Mutate ==
    /\ step = "mutate"
    /\ InvalidateSnapshot
    /\ Goto("mutating")
    /\ UNCHANGED <<selection, cleanup, flags, callVars, run>>

(* Cancelled, or the active provider is Ghidra, whose edits would be lost.  *)
MutateRefused ==
    /\ step = "mutate"
    /\ Return("failed")
    /\ UNCHANGED <<selection, cleanup, cache, flags, callVars>>

(* The operation settles, possibly owing its own cleanup; the analysis it   *)
(* may have made stale is retired.                                          *)
MutationSettles ==
    /\ step = "mutating"
    /\ mutationFailure' \in BOOLEAN
    /\ \/ /\ client # None
          /\ BeginClose
          /\ Goto("closing")
          /\ UNCHANGED run
       \/ /\ client = None
          /\ \E result \in {"ok", "failed"} : Return(result)
          /\ UNCHANGED <<selection, cleanup, cache>>
    /\ UNCHANGED <<shutdown, disposed, callVars>>

(* `clearInvestigationRecords` keeps the invalidation.                      *)
Reset ==
    /\ step = "reset"
    /\ \/ ClearSnapshot /\ Return("ok")
       \/ UNCHANGED cache /\ Return("failed")
    /\ UNCHANGED <<selection, cleanup, flags, callVars>>

-----------------------------------------------------------------------------

CallSteps(c) ==
    \/ InvokeCall(c)
    \/ AdmitCall(c)
    \/ CancelCall(c)
    \/ CallReady(c)
    \/ DispatchResource(c)
    \/ DispatchRead(c)
    \/ DispatchMutation(c)
    \/ InvalidateExternally(c)
    \/ AnswerRead(c)
    \/ AnswerMutation(c)
    \/ SettleCall(c)

OpenSteps ==
    \/ FastPath
    \/ TakeSelection
    \/ RetirePrevious
    \/ RetirePreviousFails
    \/ AbandonStart
    \/ StartCandidate
    \/ Commit
    \/ CommitFails
    \/ ImportRefused
    \/ RetireCandidate
    \/ RetireCandidateFails
    \/ Restore
    \/ RetireRestored

CloseSteps ==
    \/ Close
    \/ SaveFails
    \/ CloseSettles
    \/ StartResources
    \/ AdmitResources
    \/ SelectResources
    \/ SelectResourcesFails
    \/ DropResources

(* What the head transition does next, once it was requested.               *)
HeadSteps ==
    \/ RefuseEarly
    \/ Start
    \/ Drained
    \/ RetryPending
    \/ GiveUpPending
    \/ RetryResources
    \/ OpenSteps
    \/ CloseSteps
    \/ Mutate
    \/ MutateRefused
    \/ MutationSettles
    \/ Reset

Next ==
    \/ \E c \in Calls : CallSteps(c)
    \/ \E kind \in Kinds : Request(kind)
    \/ BeginShutdown
    \/ MutationCleanupResolves
    \/ HeadSteps

Spec == Init /\ [][Next]_vars

-----------------------------------------------------------------------------
(* Properties *)

Steps == {"none", "pending", "resources", "open", "retire", "start", "commit", "failed",
          "restore", "restoreFailed", "close", "closing", "openResources",
          "admitResources", "dropResources", "mutate", "mutating", "reset"}

(* Every variable of the session stays within its range.                    *)
TypeOK ==
    /\ LockTypeOK
    /\ client \in Clients \cup {None} /\ resource \in Clients \cup {None}
    /\ pending \in Clients \cup {None} /\ run \in Clients \cup {None}
    /\ target \in Targets \cup {None} /\ staged \in Targets \cup {None}
    /\ goal \in Targets \cup {None} /\ previous \in Targets \cup {None}
    /\ pendingRes \subseteq Clients /\ open \subseteq Clients
    /\ entries \subseteq {"fresh", "stale"}
    /\ invalidated \in BOOLEAN /\ mutationFailure \in BOOLEAN
    /\ shutdown \in BOOLEAN /\ disposed \in BOOLEAN /\ importing \in BOOLEAN
    /\ serving \in [Calls -> Clients \cup {None}]
    /\ observing \in [Calls -> {"nothing", "fresh", "stale", "mutation"}]
    /\ ops \in Seq(Kinds) /\ Len(ops) = generation - settled
    /\ outcome \in {"none", "ok", "failed"}
    /\ step \in Steps

(* At every await, each client that was created and has not closed belongs  *)
(* to exactly one owner: the selection, a pending cleanup or the running    *)
(* transition.  Otherwise a provider child outlives the session: a second   *)
(* `#retireClient` would overwrite the pending one, or a failed switch drop *)
(* the candidate.                                                           *)
NoClientLost ==
    /\ \A n \in Clients : n \in open <=> n \in {client, resource, pending, run} \cup pendingRes
    /\ client # None => client \notin {resource, pending, run} \cup pendingRes
    /\ resource # None => resource \notin {pending, run} \cup pendingRes
    /\ pending # None => pending \notin {run} \cup pendingRes
    /\ run \notin pendingRes

DisposeQueued == \E i \in 1 .. Len(ops) : ops[i] = "dispose"

(* Where the head transition is determines what it holds: when it owns a    *)
(* client of its own, when nothing is selected, when no cleanup is pending. *)
StepInvariant ==
    /\ (step # "none") = (phase = "running")
    /\ (run # None) = (step \in {"commit", "admitResources"}
                          \/ (step = "closing" /\ Kind = "openResources"))
    /\ step \in {"retire", "start", "commit", "failed", "restore", "restoreFailed",
                 "closing"} => client = None
    /\ step \in {"commit", "closing"} => resource = None
    /\ step \in {"resources", "open", "start", "commit", "restore", "openResources",
                 "admitResources", "mutate", "mutating"} => pending = None
    /\ client # None => pending = None
    /\ previous # None => resource = None
    /\ (phase # "queued" /\ Kind = "open") => goal # None
    /\ disposed => shutdown /\ (phase # "queued" => Kind \notin {"open", "openResources"})
    /\ step \in {"open", "retire", "start", "commit", "failed", "restore", "restoreFailed"}
         => Kind = "open"
    /\ step \in {"openResources", "admitResources", "dropResources"} => Kind = "openResources"
    /\ step \in {"mutate", "mutating"} => Kind = "mutate"
    /\ step = "close" => Kind \in {"close", "dispose"}
    /\ step = "pending" => Kind \notin {"close", "dispose"}
    /\ step = "resources" => Kind \in {"open", "openResources", "reset"}
    /\ DisposeQueued => shutdown

(* A binary and an app resource root are never selected together, whichever *)
(* of the two replaced the other and whatever failed on the way.            *)
OneSelection ==
    /\ client = None \/ resource = None
    /\ (client = None) = (target = None)

(* No client is retired, restored or replaced while a call is being served: *)
(* an answer always comes from the client that is still selected, and goes  *)
(* to a call that is still admitted.                                        *)
CallsKeepTheirClient ==
    \A c \in Calls : serving[c] # None =>
        serving[c] \in {client, resource} /\ callState[c] = "admitted"

(* The cache never answers a call with an observation that a metadata       *)
(* change may have outdated, also not one that was under way when the       *)
(* change was sent, or recorded before a reopen, restore or reset.          *)
ReplayIsFresh == Replayable => "stale" \notin entries

(* Cached observations always belong to the selected target: no failed      *)
(* switch, restore or import leaves those of another one behind it.         *)
CacheMatchesSelection == target # None => staged \in {None, target}

(* While an external mutation owes its cleanup, nothing is selected: a      *)
(* writer may still be changing the artifact.                               *)
NothingSelectedUnderMutation == mutationFailure => client = None /\ resource = None

(* Once `dispose` sealed the investigation no provider client exists, also  *)
(* not one of an open that was queued when the shutdown began.              *)
DisposedIsFinal == disposed => open = {}

(* The inductive invariant of ownership, selection and disposal.            *)
SessionInvariant ==
    /\ TypeOK
    /\ LockInvariant
    /\ NoClientLost
    /\ StepInvariant
    /\ OneSelection
    /\ CallsKeepTheirClient
    /\ DisposedIsFinal

(* A close that reports success has closed every client the session ever    *)
(* created, those that earlier transitions failed to close included.        *)
CloseReleasesEverything ==
    [][(settled' # settled /\ Kind \in {"close", "dispose"} /\ outcome' = "ok") => open' = {}]_vars

(* The transitions and calls of the session keep to the admission protocol, *)
(* and so to SessionExclusion.                                              *)
ImplementsLock == LockSpec

(* Every requested transition settles, however often it had to fall back:   *)
(* they settle in order, and requests are bounded, so all have settled at   *)
(* last.                                                                    *)
EveryRequestSettles == generation > settled ~> generation = settled

(* "A failed open retires the provider cache, not the investigation"        *)
(* (BinarySession.ts:649): with nothing selected and no transition running, *)
(* no target is staged.                                                     *)
FailedOpenRetiresCache ==
    phase = "queued" /\ client = None => staged = None
=============================================================================
