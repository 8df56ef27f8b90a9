----------------------------- MODULE SessionLock -----------------------------
(***************************************************************************)
(* The admission protocol of BinarySession: `#serialize`, `#drainCalls`,    *)
(* `execute`, `executeIfProviderReady`, `withAdmittedAnalysis` and          *)
(* `#waitForTransition`.  Target transitions form a promise chain and are   *)
(* numbered in the order they are requested; the number of a transition is  *)
(* the value of `#transitionGeneration` it saw (its `admittedThrough`).  A  *)
(* call waits for the transitions requested before it, and a transition     *)
(* drains the calls invoked before it.                                      *)
(*                                                                          *)
(* One step of this module is one run of the event loop between two awaits. *)
(* `#transitionPending` is not kept: it is generation - settled.            *)
(***************************************************************************)
EXTENDS Naturals

CONSTANTS
    Calls,              \* identities of the provider calls, reused after they settle
    MaxTransitions      \* bound: how many transitions may be requested

ASSUME MaxTransitionsAssumption == MaxTransitions \in Nat

VARIABLES
    generation,         \* #transitionGeneration: transitions requested so far
    settled,            \* transitions settled so far; also the number of the head one
    phase,              \* the head transition: queued, draining, or past its drain
    drain,              \* the snapshot of #calls the head transition awaits
    callState,          \* what each call is doing
    callGen,            \* the generation a call is registered under in #calls
    barrier             \* how many transitions must settle before the call proceeds

lockVars == <<generation, settled, phase, drain, callState, callGen, barrier>>

Registered(c) == callState[c] # "idle"
Inside(c) == callState[c] \in {"admitted", "nested"}

LockInit ==
    /\ generation = 0
    /\ settled = 0
    /\ phase = "queued"
    /\ drain = {}
    /\ callState = [c \in Calls |-> "idle"]
    /\ callGen = [c \in Calls |-> 0]
    /\ barrier = [c \in Calls |-> 0]

-----------------------------------------------------------------------------
(* Calls *)

(* `execute` and `withAdmittedAnalysis`: registered under the current       *)
(* generation before the first await, then waiting for `#transition`.       *)
Invoke(c) ==
    /\ callState[c] = "idle"
    /\ callState' = [callState EXCEPT ![c] = "waiting"]
    /\ callGen' = [callGen EXCEPT ![c] = generation]
    /\ barrier' = [barrier EXCEPT ![c] = generation]
    /\ UNCHANGED <<generation, settled, phase, drain>>

(* Variant: the prompt call ignores pending transitions.                    *)
InvokeAnytime(c) ==
    /\ callState[c] = "idle"
    /\ callState' = [callState EXCEPT ![c] = "admitted"]
    /\ callGen' = [callGen EXCEPT ![c] = generation]
    /\ barrier' = [barrier EXCEPT ![c] = generation]
    /\ UNCHANGED <<generation, settled, phase, drain>>

(* `executeIfProviderReady`: refused while a transition is pending,         *)
(* otherwise dispatched without waiting.                                    *)
InvokeReady(c) ==
    /\ callState[c] = "idle"
    /\ settled = generation
    /\ callState' = [callState EXCEPT ![c] = "admitted"]
    /\ callGen' = [callGen EXCEPT ![c] = generation]
    /\ barrier' = [barrier EXCEPT ![c] = generation]
    /\ UNCHANGED <<generation, settled, phase, drain>>

(* Variant: the call does not wait.                                         *)
AdmitAtOnce(c) ==
    /\ callState[c] = "waiting"
    /\ callState' = [callState EXCEPT ![c] = "admitted"]
    /\ UNCHANGED <<generation, settled, phase, drain, callGen, barrier>>

(* `#waitForTransition` resolves once the transition it captured settled.   *)
Admit(c) ==
    /\ callState[c] = "waiting"
    /\ barrier[c] <= settled
    /\ callState' = [callState EXCEPT ![c] = "admitted"]
    /\ UNCHANGED <<generation, settled, phase, drain, callGen, barrier>>

(* A drain holds the promises of its snapshot: one that settles leaves it.  *)
Deregister(c) ==
    /\ callState' = [callState EXCEPT ![c] = "idle"]
    /\ drain' = drain \ {c}
    /\ UNCHANGED <<generation, settled, phase, callGen, barrier>>

(* An aborted waiter returns at once, although its transition is running.   *)
CancelWait(c) ==
    /\ callState[c] = "waiting"
    /\ Deregister(c)

(* The number of transitions the `execute` handed to an admitted composed   *)
(* request waits for: it is given `Promise.resolve()`, never `#transition`. *)
NestedBarrier == 0

(* A composed request dispatches a primitive under its own admission.       *)
NestedInvoke(c) ==
    /\ callState[c] = "admitted"
    /\ callState' = [callState EXCEPT ![c] = "nested"]
    /\ barrier' = [barrier EXCEPT ![c] = NestedBarrier]
    /\ UNCHANGED <<generation, settled, phase, drain, callGen>>

NestedReturn(c) ==
    /\ callState[c] = "nested"
    /\ barrier[c] <= settled
    /\ callState' = [callState EXCEPT ![c] = "admitted"]
    /\ UNCHANGED <<generation, settled, phase, drain, callGen, barrier>>

(* The provider answered and the bookkeeping of the call is done.           *)
Settle(c) ==
    /\ callState[c] = "admitted"
    /\ Deregister(c)

-----------------------------------------------------------------------------
(* Transitions *)

(* `#serialize`: take the next number and join the chain.                   *)
Serialize ==
    /\ generation < MaxTransitions
    /\ generation' = generation + 1
    /\ UNCHANGED <<settled, phase, drain, callState, callGen, barrier>>

(* Variants: the calls of earlier generations only; every call.             *)
AdmittedBefore(number) == {c \in Calls : Registered(c) /\ callGen[c] < number}
AllRegistered(number) == {c \in Calls : Registered(c)}

(* The calls `#drainCalls` awaits for the transition with the given number. *)
AdmittedThrough(number) == {c \in Calls : Registered(c) /\ callGen[c] <= number}

(* The predecessor settled and the operation reached its `#drainCalls`.     *)
StartDrain ==
    /\ phase = "queued"
    /\ settled < generation
    /\ phase' = "draining"
    /\ drain' = AdmittedThrough(settled)
    /\ UNCHANGED <<generation, settled, callState, callGen, barrier>>

DrainDone ==
    /\ phase = "draining"
    /\ drain = {}
    /\ phase' = "running"
    /\ UNCHANGED <<generation, settled, drain, callState, callGen, barrier>>

(* The head transition settles; calls and transitions behind it may go on.  *)
HeadSettles ==
    /\ settled' = settled + 1
    /\ phase' = "queued"
    /\ UNCHANGED <<generation, drain, callState, callGen, barrier>>

(* An operation refused before its drain (shutdown, cancellation, a target  *)
(* that does not parse) settles without draining.                           *)
SettleEarly ==
    /\ phase = "queued"
    /\ settled < generation
    /\ HeadSettles

SettleTransition ==
    /\ phase = "running"
    /\ HeadSettles

-----------------------------------------------------------------------------

CallNext(c) ==
    \/ Invoke(c)
    \/ InvokeReady(c)
    \/ Admit(c)
    \/ CancelWait(c)
    \/ NestedInvoke(c)
    \/ NestedReturn(c)
    \/ Settle(c)

LockNext ==
    \/ \E c \in Calls : CallNext(c)
    \/ Serialize
    \/ StartDrain
    \/ DrainDone
    \/ SettleEarly
    \/ SettleTransition

LockSpec == LockInit /\ [][LockNext]_lockVars

-----------------------------------------------------------------------------
(* Properties *)

(* Every variable of the admission protocol stays within its range.         *)
LockTypeOK ==
    /\ generation \in 0 .. MaxTransitions
    /\ settled \in 0 .. generation
    /\ phase \in {"queued", "draining", "running"}
    /\ drain \in SUBSET Calls
    /\ callState \in [Calls -> {"idle", "waiting", "admitted", "nested"}]
    /\ callGen \in [Calls -> 0 .. generation]
    /\ barrier \in [Calls -> 0 .. generation]

(* A transition past its drain is alone: every call that was invoked before *)
(* the transition was requested has settled, and none invoked after it has  *)
(* been admitted.  This is what lets `#openWithinTransition` and            *)
(* `#closeActive` take `#active` away without a lock.                       *)
TransitionIsAlone ==
    phase = "running" =>
        \A c \in Calls : Registered(c) => callState[c] = "waiting" /\ callGen[c] > settled

(* A draining transition awaits exactly the calls invoked before it was     *)
(* requested.  One call fewer and the selection is retired under it; one    *)
(* more and the transition waits for a call that waits for the transition.  *)
DrainIsExact ==
    drain = IF phase = "draining" THEN AdmittedThrough(settled) ELSE {}

(* No call runs while a transition requested before it is still unsettled,  *)
(* however the two were interleaved with other calls and transitions.       *)
NoOvertaking == \A c \in Calls : Inside(c) => callGen[c] <= settled

(* The inductive invariant: the three statements above and what relates     *)
(* the head transition and the waiting calls to the counters.               *)
LockInvariant ==
    /\ LockTypeOK
    /\ TransitionIsAlone
    /\ DrainIsExact
    /\ NoOvertaking
    /\ phase # "queued" => settled < generation
    /\ \A c \in Calls : callState[c] = "waiting" => barrier[c] = callGen[c]

Reading == {c \in Calls : Inside(c)}
Exclusion == INSTANCE SessionExclusion
    WITH reading <- Reading, writer <- (phase = "running")

(* The protocol implements the reader/writer contract of SessionExclusion.  *)
ImplementsExclusion == Exclusion!Spec

=============================================================================
