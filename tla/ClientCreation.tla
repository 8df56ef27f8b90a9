---------------------------- MODULE ClientCreation ----------------------------
(***************************************************************************)
(* Deferred creation of one provider client (DeferredAnalysisClient over   *)
(* AnalysisClientCreation over SharedStartupAttempt): callers share one    *)
(* creation and leave it independently, the last one to leave stops it and *)
(* joins its cleanup, and `close` joins whatever is under way.             *)
(*                                                                         *)
(* A caller passes through `execute`: it waits for the attempt, is told    *)
(* the verdict, and is dispatched to the client.                           *)
(***************************************************************************)
EXTENDS Naturals, FiniteSets

CONSTANTS
    Callers,
    Clients,    \* identities of native clients, reused once closed
    None

ASSUME CreationAssumption ==
    /\ None \notin Clients
    /\ IsFiniteSet(Callers)

VARIABLES
    attempt,    \* where the producer of #attempt is, or "none"
    stopped,    \* the signal of #attempt is aborted
    result,     \* the primary failure of #attempt so far
    client,     \* #client, or None
    lease,      \* #clientLease: "none", "held" or "released"
    open,       \* native clients created and not closed
    retained,   \* prerequisite resources whose cleanup is still owed
    failure,    \* #failure: "none", "cancelled" or "failed"
    owes,       \* what makes #failure incomplete: its unreleased resources
    closed, closing, closeFailed,   \* #closed, where #closing is, its failure so far
    closeResult,                    \* how the last close settled
    state, gone, verdict, given     \* per caller: progress, signal, what it was told

owner == <<client, lease, open, retained>>
producer == <<attempt, stopped, result, failure, owes>>
closer == <<closed, closing, closeFailed, closeResult>>
callers == <<state, gone, verdict, given>>
vars == <<owner, producer, closer, callers>>

Init ==
    /\ attempt = "none" /\ stopped = FALSE /\ result = "none"
    /\ client = None /\ lease = "none" /\ open = {} /\ retained = FALSE
    /\ failure = "none" /\ owes = {}
    /\ closed = FALSE /\ closing = "none" /\ closeFailed = FALSE /\ closeResult = "none"
    /\ state = [c \in Callers |-> "idle"]
    /\ gone = [c \in Callers |-> FALSE]
    /\ verdict = [c \in Callers |-> "none"]
    /\ given = [c \in Callers |-> None]

-----------------------------------------------------------------------------
(* What callers see *)

(* `readyClient`.                                                           *)
ReadyClient ==
    IF closed \/ attempt # "none" \/ failure # "none" THEN None ELSE client

(* The callers counted by `#waiters`.                                       *)
Waiting == {c \in Callers : state[c] \in {"waiting", "joining"}}

Tell(c, what, which) ==
    /\ state' = [state EXCEPT ![c] = "told"]
    /\ verdict' = [verdict EXCEPT ![c] = what]
    /\ given' = [given EXCEPT ![c] = which]
    /\ UNCHANGED gone

(* `#failure?.cleanupIncomplete`: a running attempt has no failure yet.      *)
CleanupIncomplete == failure # "none" /\ owes # {}

(* `acquire` after `close`, or while the last failure still owes a cleanup. *)
AcquireRefused(c) ==
    /\ state[c] = "idle"
    /\ closed \/ CleanupIncomplete
    /\ Tell(c, "failed", None)
    /\ UNCHANGED <<owner, producer, closer>>

AcquireReady(c) ==
    /\ state[c] = "idle"
    /\ ~closed /\ ~CleanupIncomplete
    /\ ReadyClient # None /\ lease # "released"
    /\ Tell(c, "client", ReadyClient)
    /\ UNCHANGED <<owner, producer, closer>>

Wait(c) ==
    /\ state' = [state EXCEPT ![c] = "waiting"]
    /\ UNCHANGED <<gone, verdict, given>>

(* Variant: the client of a failed creation is forgotten as well.           *)
ForgetAlways ==
    /\ client' = None /\ lease' = "none"
    /\ UNCHANGED <<open, retained>>

(* A client whose release was confirmed is forgotten.                       *)
ForgetReleased ==
    /\ client' = IF lease = "released" THEN None ELSE client
    /\ lease' = IF lease = "released" THEN "none" ELSE lease
    /\ UNCHANGED <<open, retained>>

(* Otherwise it joins the attempt, or begins one.                           *)
AcquireWaits(c) ==
    /\ state[c] = "idle"
    /\ ~closed /\ ~CleanupIncomplete
    /\ ReadyClient = None \/ lease = "released"
    /\ ForgetReleased
    /\ IF attempt = "none"
         THEN /\ attempt' = "starting" /\ stopped' = FALSE /\ result' = "none"
              /\ failure' = "none" /\ owes' = {}
         ELSE UNCHANGED producer
    /\ Wait(c)
    /\ UNCHANGED closer

(* Variant: the last caller to leave does not wait for the cleanup.         *)
DepartAtOnce(c) ==
    /\ state[c] = "waiting"
    /\ gone' = [gone EXCEPT ![c] = TRUE]
    /\ state' = [state EXCEPT ![c] = "told"]
    /\ verdict' = [verdict EXCEPT ![c] = "cancelled"]
    /\ stopped' = (stopped \/ Cardinality(Waiting) = 1)
    /\ UNCHANGED <<owner, attempt, result, failure, owes, closer, given>>

(* `wait` whose signal aborts first: a peer keeps the producer going; the   *)
(* last one stops it and stays for its complete cleanup.                    *)
Depart(c) ==
    /\ state[c] = "waiting"
    /\ gone' = [gone EXCEPT ![c] = TRUE]
    /\ IF Cardinality(Waiting) > 1
         THEN /\ state' = [state EXCEPT ![c] = "told"]
              /\ verdict' = [verdict EXCEPT ![c] = "cancelled"]
              /\ UNCHANGED stopped
         ELSE /\ stopped' = TRUE
              /\ state' = [state EXCEPT ![c] = "joining"]
              /\ UNCHANGED verdict
    /\ UNCHANGED <<owner, attempt, result, failure, owes, closer, given>>

(* The signal aborts after the verdict but before it is used.               *)
CancelTold(c) ==
    /\ state[c] = "told" /\ ~gone[c]
    /\ gone' = [gone EXCEPT ![c] = TRUE]
    /\ UNCHANGED <<owner, producer, closer, state, verdict, given>>

(* `execute` dispatches only to the client that is still ready.             *)
Dispatch(c) ==
    /\ state[c] = "told" /\ verdict[c] = "client" /\ ~gone[c]
    /\ ReadyClient = given[c]
    /\ state' = [state EXCEPT ![c] = "executing"]
    /\ UNCHANGED <<owner, producer, closer, gone, verdict, given>>

Leave(c) ==
    /\ state' = [state EXCEPT ![c] = "idle"]
    /\ gone' = [gone EXCEPT ![c] = FALSE]
    /\ verdict' = [verdict EXCEPT ![c] = "none"]
    /\ given' = [given EXCEPT ![c] = None]
    /\ UNCHANGED <<owner, producer, closer>>

(* It returns its failure, or finds itself cancelled or the client closed.  *)
Refused(c) ==
    /\ state[c] = "told"
    /\ verdict[c] # "client" \/ gone[c] \/ ReadyClient # given[c]
    /\ Leave(c)

Executed(c) ==
    /\ state[c] = "executing"
    /\ Leave(c)

-----------------------------------------------------------------------------
(* The producer, `#createOwned` *)

(* Variant: the caller that stopped the attempt is not told.                *)
SettleWaiting(primary) ==
    /\ attempt' = "none"
    /\ failure' = primary
    /\ UNCHANGED <<stopped, result, gone, given>>
    /\ state' = [c \in Callers |-> IF state[c] = "waiting" THEN "told" ELSE state[c]]
    /\ verdict' = [c \in Callers |-> IF state[c] = "waiting" THEN "failed" ELSE verdict[c]]

(* The attempt settles: everybody who waits is told.                        *)
Settle(primary) ==
    /\ attempt' = "none"
    /\ failure' = primary
    /\ UNCHANGED <<stopped, result>>
    /\ state' = [c \in Callers |-> IF c \in Waiting THEN "told" ELSE state[c]]
    /\ verdict' = [c \in Callers |->
         IF c \in Waiting THEN IF primary = "none" THEN "client" ELSE primary
         ELSE verdict[c]]
    /\ given' = [c \in Callers |->
         IF c \in Waiting /\ primary = "none" THEN client ELSE given[c]]
    /\ UNCHANGED gone

(* Stopped before its first step.                                           *)
CreateNothing ==
    /\ attempt = "starting" /\ stopped
    /\ Settle("cancelled")
    /\ UNCHANGED <<owner, owes, closer>>

BeginCreate ==
    /\ attempt = "starting" /\ ~stopped
    /\ attempt' = "creating"
    /\ UNCHANGED <<owner, stopped, result, failure, owes, closer, callers>>

(* `create` answers, also when it was stopped meanwhile, and may leave a    *)
(* prerequisite resource behind; one that honours the signal is cancelled.  *)
Create ==
    /\ attempt = "creating"
    /\ retained' \in {retained, TRUE}
    /\ attempt' = "cleaning"
    /\ \/ \E n \in Clients \ open :
            /\ client' = n /\ open' = open \cup {n}
            /\ UNCHANGED result
       \/ /\ result' \in {"failed"} \cup IF stopped THEN {"cancelled"} ELSE {}
          /\ UNCHANGED <<client, open>>
    /\ UNCHANGED <<lease, stopped, failure, owes, closer, callers>>

(* A created client is not kept when the attempt was stopped, or when its   *)
(* prerequisites could not be released.                                     *)
Primary(retainedThen) ==
    IF result # "none" THEN result
    ELSE IF stopped THEN "cancelled"
    ELSE IF retainedThen THEN "failed"
    ELSE "none"

(* `retryCleanup` of the prerequisites; without a failure the client is     *)
(* ready.                                                                   *)
CleanPrerequisites ==
    /\ attempt = "cleaning"
    /\ retained' \in {FALSE, retained}
    /\ owes' = IF retained' THEN {"prerequisites"} ELSE {}
    /\ IF Primary(retained') = "none"
         THEN Settle("none")
         ELSE /\ attempt' = "releasing"
              /\ result' = Primary(retained')
              /\ UNCHANGED <<stopped, failure, callers>>
    /\ UNCHANGED <<client, lease, open, closer>>

(* `#releaseClient`: the lease keeps the exact client until its close       *)
(* succeeds.                                                                *)
ReleaseClient ==
    IF client = None \/ lease = "released"
      THEN UNCHANGED <<lease, open>> /\ owes' = owes \ {"client"}
      ELSE \/ /\ lease' = "released"
              /\ open' = open \ {client}
              /\ owes' = owes \ {"client"}
           \/ /\ lease' = "held"
              /\ owes' = owes \cup {"client"}
              /\ UNCHANGED open

ReleaseCreated ==
    /\ attempt = "releasing"
    /\ ReleaseClient
    /\ Settle(result)
    /\ UNCHANGED <<client, retained, closer>>

-----------------------------------------------------------------------------
(* `close` *)

(* A second close joins the one under way.                                  *)
Close ==
    /\ closed' = TRUE
    /\ stopped' = (stopped \/ attempt # "none")
    /\ closing' = IF closing = "none" THEN "waiting" ELSE closing
    /\ closeFailed' = (closeFailed /\ closing # "none")
    /\ UNCHANGED <<owner, attempt, result, failure, owes, closeResult, callers>>

(* Variant: the close does not wait for the attempt.                        *)
CloseAtOnce ==
    /\ closing = "waiting"
    /\ closing' = "cleaning"
    /\ UNCHANGED <<owner, producer, closed, closeFailed, closeResult, callers>>

CloseJoins ==
    /\ closing = "waiting" /\ attempt = "none"
    /\ closing' = "cleaning"
    /\ UNCHANGED <<owner, producer, closed, closeFailed, closeResult, callers>>

CloseCleans ==
    /\ closing = "cleaning"
    /\ retained' \in {FALSE, retained}
    /\ owes' = IF retained' THEN owes ELSE owes \ {"prerequisites"}
    /\ closeFailed' = retained'
    /\ closing' = "releasing"
    /\ UNCHANGED <<client, lease, open, attempt, stopped, result, failure, closed,
                   closeResult, callers>>

(* It succeeds only if nothing is owed, by this close or by the creation.   *)
CloseReleases ==
    /\ closing = "releasing"
    /\ ReleaseClient
    /\ closing' = "none"
    /\ closeResult' = IF ~closeFailed /\ lease' # "held" /\ owes' = {} THEN "ok" ELSE "failed"
    /\ UNCHANGED <<client, retained, attempt, stopped, result, failure, closed, closeFailed,
                   callers>>

-----------------------------------------------------------------------------

CallerSteps(c) ==
    \/ AcquireRefused(c)
    \/ AcquireReady(c)
    \/ AcquireWaits(c)
    \/ Depart(c)
    \/ CancelTold(c)
    \/ Dispatch(c)
    \/ Refused(c)
    \/ Executed(c)

ProducerSteps ==
    \/ CreateNothing
    \/ BeginCreate
    \/ Create
    \/ CleanPrerequisites
    \/ ReleaseCreated

CloserSteps ==
    \/ CloseJoins
    \/ CloseCleans
    \/ CloseReleases

Next ==
    \/ \E c \in Callers : CallerSteps(c)
    \/ ProducerSteps
    \/ Close
    \/ CloserSteps

Spec == Init /\ [][Next]_vars

(* `create` and the close of a client settle (each is bounded by deadlines  *)
(* of its provider) and promise reactions run.                              *)
FairSpec ==
    /\ Spec
    /\ WF_vars(ProducerSteps)
    /\ WF_vars(CloserSteps)

-----------------------------------------------------------------------------
(* Properties *)

(* The creation, its owner and its callers stay within their ranges.        *)
TypeOK ==
    /\ attempt \in {"none", "starting", "creating", "cleaning", "releasing"}
    /\ stopped \in BOOLEAN /\ result \in {"none", "cancelled", "failed"}
    /\ client \in Clients \cup {None} /\ lease \in {"none", "held", "released"}
    /\ open \subseteq Clients /\ retained \in BOOLEAN
    /\ failure \in {"none", "cancelled", "failed"}
    /\ owes \subseteq {"client", "prerequisites"}
    /\ closed \in BOOLEAN /\ closeFailed \in BOOLEAN
    /\ closing \in {"none", "waiting", "cleaning", "releasing"}
    /\ closeResult \in {"none", "ok", "failed"}
    /\ state \in [Callers -> {"idle", "waiting", "joining", "told", "executing"}]
    /\ gone \in [Callers -> BOOLEAN]
    /\ verdict \in [Callers -> {"none", "client", "cancelled", "failed"}]
    /\ given \in [Callers -> Clients \cup {None}]

(* The record and the native clients agree, whatever creation was stopped,  *)
(* failed or owes a cleanup: what was created and has not closed is the one *)
(* #client holds, with a lease that is not released, so that no retry drops *)
(* it; and what callers may be dispatched to is open, with no cleanup left. *)
NoClientOrphaned ==
    /\ \A n \in open : n = client /\ lease # "released"
    /\ ReadyClient # None => open = {ReadyClient} /\ lease = "none" /\ ~retained /\ owes = {}

(* "... and waits for its cleanup": a producer that is still running is     *)
(* awaited by one of its callers or by a close.                             *)
NoProducerAbandoned == attempt # "none" => Waiting # {} \/ closed

(* A close that reports success leaves nothing behind: no client, no        *)
(* prerequisite and no producer; and from then on nothing is created.       *)
CloseReleasesAll ==
    [][/\ closing = "releasing" /\ closing' = "none" /\ closeResult' = "ok" => ~retained'
       /\ closeResult' = "ok" => open' = {} /\ attempt' = "none"]_vars

(* Every caller that waits is told, also by a close, and that settles.      *)
EveryCallerIsTold ==
    /\ \A c \in Callers : c \in Waiting ~> c \notin Waiting
    /\ closing # "none" ~> closing = "none"

=============================================================================
