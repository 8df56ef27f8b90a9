------------------------- MODULE ClientCreationProofs -------------------------
(***************************************************************************)
(* Deferred creation of a provider client, for any number of callers and   *)
(* client identities: where the attempt and the close are determines what  *)
(* exists and what is owed, and this is inductive.                         *)
(***************************************************************************)
EXTENDS ClientCreation, FiniteSetTheorems, TLAPS

(* What exists is what #client holds; a lease without a client is no lease. *)
OneOwner ==
    /\ open \subseteq {client}
    /\ lease = "released" => open = {}
    /\ client = None => lease = "none"

(* A close is past its wait only when no producer runs.                     *)
CloseIsLast ==
    /\ closing # "none" => closed
    /\ closing \in {"cleaning", "releasing"} => attempt = "none"

(* Prerequisites that were not released are owed, except while an attempt   *)
(* has yet to try.                                                          *)
RetainedIsOwed == retained /\ attempt # "cleaning" => "prerequisites" \in owes

(* An attempt begins with nothing, and what it made before it failed is     *)
(* unreleased.                                                              *)
AttemptHolds ==
    /\ attempt \in {"starting", "creating"} =>
         client = None /\ owes = {} /\ result = "none"
    /\ attempt = "cleaning" =>
         owes = {} /\ lease = "none" /\ (result = "none" => open = {client})
    /\ attempt = "releasing" => lease = "none" /\ result # "none"

(* Between attempts nothing is owed without a failure, the client of a      *)
(* failed creation is released or owed, and that of a successful one is     *)
(* open.                                                                    *)
SettledHolds ==
    attempt = "none" =>
        /\ failure = "none" /\ ~closed => ~retained /\ owes = {}
        /\ failure # "none" /\ client # None => lease = "released" \/ "client" \in owes
        /\ failure = "none" /\ ~closed /\ client # None =>
             open = {client} /\ lease = "none"

(* A successful close is the end.                                           *)
ClosedIsOver == closeResult = "ok" => closed /\ open = {} /\ attempt = "none"

CreationInvariant ==
    /\ TypeOK
    /\ OneOwner
    /\ CloseIsLast
    /\ RetainedIsOwed
    /\ AttemptHolds
    /\ SettledHolds
    /\ NoProducerAbandoned
    /\ ClosedIsOver

-----------------------------------------------------------------------------

LEMMA InitEstablishesCreationInvariant == Init => CreationInvariant
  BY CreationAssumption
     DEF Init, CreationInvariant, TypeOK, OneOwner, CloseIsLast, RetainedIsOwed, AttemptHolds,
         SettledHolds, NoProducerAbandoned, ClosedIsOver

(* A caller that leaves its wait at once leaves somebody else waiting.      *)
LEMMA PeersKeepWaiting ==
    ASSUME TypeOK, NEW c \in Callers, state[c] = "waiting", Cardinality(Waiting) > 1,
           state' = [state EXCEPT ![c] = "told"]
    PROVE  Waiting' # {}
<1>1. IsFiniteSet(Waiting)
  BY CreationAssumption, FS_Subset DEF Waiting
<1>2. PICK d \in Waiting : d # c
  <2>1. Waiting # {c}
    BY FS_Singleton
  <2>2. c \in Waiting
    BY DEF Waiting
  <2>3. QED
    BY <2>1, <2>2
<1>3. state'[d] = state[d]
  BY <1>2 DEF TypeOK, Waiting
<1>4. QED
  BY <1>2, <1>3 DEF Waiting

(* What callers were told, and where they are, stays within range.          *)
CallersTyped ==
    /\ state \in [Callers -> {"idle", "waiting", "joining", "told", "executing"}]
    /\ gone \in [Callers -> BOOLEAN]
    /\ verdict \in [Callers -> {"none", "client", "cancelled", "failed"}]
    /\ given \in [Callers -> Clients \cup {None}]

LEMMA CallersKeepTheirTypes ==
    ASSUME CallersTyped, TypeOK, NEW c \in Callers, CallerSteps(c)
    PROVE  CallersTyped'
<1> USE DEF CallersTyped
<1>1. CASE AcquireRefused(c) \/ AcquireReady(c)
  BY <1>1 DEF AcquireRefused, AcquireReady, Tell, ReadyClient, TypeOK
<1>2. CASE AcquireWaits(c)
  BY <1>2 DEF AcquireWaits, Wait
<1>3. CASE Depart(c)
  <2>1. CASE Cardinality(Waiting) > 1
    BY <1>3, <2>1 DEF Depart
  <2>2. CASE ~(Cardinality(Waiting) > 1)
    BY <1>3, <2>2 DEF Depart
  <2>3. QED
    BY <2>1, <2>2
<1>4. CASE CancelTold(c)
  BY <1>4 DEF CancelTold
<1>5. CASE Dispatch(c)
  BY <1>5 DEF Dispatch
<1>6. CASE Refused(c) \/ Executed(c)
  BY <1>6 DEF Refused, Executed, Leave
<1>7. QED
  BY <1>1, <1>2, <1>3, <1>4, <1>5, <1>6 DEF CallerSteps

(* What a caller does leaves the record of the client alone, except that    *)
(* the first to wait begins an attempt.                                     *)
LEMMA CallersKeepCreation ==
    ASSUME CreationInvariant, NEW c \in Callers, CallerSteps(c)
    PROVE  CreationInvariant'
<1> USE CreationAssumption
    DEF CreationInvariant, OneOwner, CloseIsLast, RetainedIsOwed, AttemptHolds, SettledHolds,
        NoProducerAbandoned, ClosedIsOver, owner, producer, closer, callers
<1>0. CallersTyped'
  BY CallersKeepTheirTypes DEF TypeOK, CallersTyped
<1>1. CASE AcquireRefused(c) \/ AcquireReady(c) \/ CancelTold(c) \/ Dispatch(c)
           \/ Refused(c) \/ Executed(c)
  <2>1. UNCHANGED <<owner, producer, closer>>
    BY <1>1 DEF AcquireRefused, AcquireReady, CancelTold, Dispatch, Refused, Executed, Tell,
                Leave
  <2>2. TypeOK'
    BY <1>0, <2>1 DEF TypeOK, CallersTyped
  <2>3. Waiting \subseteq Waiting'
    BY <1>1 DEF TypeOK, Waiting, AcquireRefused, AcquireReady, CancelTold, Dispatch, Refused,
                Executed, Tell, Leave
  <2>4. QED
    BY <2>1, <2>2, <2>3
<1>2. CASE AcquireWaits(c)
  <2>1. TypeOK'
    BY <1>2 DEF TypeOK, AcquireWaits, Wait, ForgetReleased
  <2>2. c \in Waiting'
    BY <1>2 DEF TypeOK, Waiting, AcquireWaits, Wait
  <2>3. client' = client \/ (client' = None /\ lease' = "none" /\ open = {})
    BY <1>2 DEF AcquireWaits, ForgetReleased
  <2>4. OneOwner' /\ CloseIsLast' /\ RetainedIsOwed' /\ ClosedIsOver'
    BY <1>2 DEF AcquireWaits, ForgetReleased, CleanupIncomplete
  <2>5. AttemptHolds' /\ SettledHolds'
    BY <1>2 DEF AcquireWaits, ForgetReleased, ReadyClient, CleanupIncomplete
  <2>6. QED
    BY <2>1, <2>2, <2>4, <2>5
<1>3. CASE Depart(c)
  <2>1. TypeOK'
    <3>1. stopped' \in BOOLEAN
      BY <1>3 DEF TypeOK, Depart
    <3>2. UNCHANGED <<owner, attempt, result, failure, owes, closer>>
      BY <1>3 DEF Depart
    <3>3. QED
      BY <1>0, <3>1, <3>2 DEF TypeOK, CallersTyped
  <2>2. UNCHANGED <<owner, attempt, result, failure, owes, closer>>
    BY <1>3 DEF Depart
  <2>3. Waiting' # {}
    <3>1. CASE Cardinality(Waiting) > 1
      BY <1>3, <3>1, PeersKeepWaiting DEF Depart
    <3>2. CASE ~(Cardinality(Waiting) > 1)
      BY <1>3, <3>2 DEF Depart, TypeOK, Waiting
    <3>3. QED
      BY <3>1, <3>2
  <2>4. QED
    BY <2>1, <2>2, <2>3
<1>4. QED
  BY <1>1, <1>2, <1>3 DEF CallerSteps

(* So does the producer: what it creates it keeps, releases or owes.        *)
LEMMA ProducerKeepsCreation ==
    ASSUME CreationInvariant, ProducerSteps
    PROVE  CreationInvariant'
<1> USE CreationAssumption
    DEF CreationInvariant, OneOwner, CloseIsLast, RetainedIsOwed, AttemptHolds, SettledHolds,
        ClosedIsOver, owner, closer, callers
<1>1. CASE CreateNothing
  <2>1. TypeOK'
    BY <1>1 DEF TypeOK, CreateNothing, Settle
  <2>2. QED
    BY <1>1, <2>1 DEF CreateNothing, Settle, NoProducerAbandoned
<1>2. CASE BeginCreate
  <2>1. TypeOK'
    BY <1>2 DEF TypeOK, BeginCreate
  <2>2. QED
    BY <1>2, <2>1 DEF BeginCreate, NoProducerAbandoned, Waiting
<1>3. CASE Create
  <2>1. TypeOK'
    BY <1>3 DEF TypeOK, Create
  <2>2. NoProducerAbandoned' /\ CloseIsLast' /\ RetainedIsOwed' /\ ClosedIsOver'
    BY <1>3 DEF Create, NoProducerAbandoned, Waiting
  <2>3. OneOwner' /\ AttemptHolds' /\ SettledHolds'
    BY <1>3 DEF Create, TypeOK
  <2>4. QED
    BY <2>1, <2>2, <2>3
<1>4. CASE CleanPrerequisites
  <2>1. CASE Primary(retained') = "none"
    <3>1. /\ result = "none" /\ ~retained' /\ owes' = {} /\ attempt' = "none"
          /\ failure' = "none"
      BY <1>4, <2>1 DEF CleanPrerequisites, Primary, Settle, TypeOK
    <3>2. TypeOK'
      BY ZenonT(40), <1>4, <2>1, <3>1 DEF TypeOK, CleanPrerequisites, Settle
    <3>3. QED
      BY <1>4, <3>1, <3>2 DEF CleanPrerequisites, NoProducerAbandoned
  <2>2. CASE Primary(retained') # "none"
    <3>1. TypeOK'
      BY ZenonT(40), <1>4, <2>2 DEF TypeOK, CleanPrerequisites, Primary
    <3>2. QED
      BY <1>4, <2>2, <3>1 DEF CleanPrerequisites, NoProducerAbandoned, Waiting
  <2>3. QED
    BY <2>1, <2>2
<1>5. CASE ReleaseCreated
  <2>1. TypeOK'
    BY <1>5 DEF TypeOK, ReleaseCreated, ReleaseClient, Settle
  <2>2. attempt = "releasing" /\ attempt' = "none" /\ failure' # "none"
        /\ UNCHANGED <<client, retained, closer>>
    BY <1>5 DEF ReleaseCreated, Settle
  <2>3. \/ client = None /\ UNCHANGED <<lease, open>> /\ owes' = owes \ {"client"}
        \/ /\ client # None
           /\ lease' = "released" /\ open' = open \ {client} /\ owes' = owes \ {"client"}
        \/ /\ client # None
           /\ lease' = "held" /\ UNCHANGED open /\ owes' = owes \cup {"client"}
    BY <1>5 DEF ReleaseCreated, ReleaseClient
  <2>4. QED
    BY <2>1, <2>2, <2>3 DEF NoProducerAbandoned
<1>6. QED
  BY <1>1, <1>2, <1>3, <1>4, <1>5 DEF ProducerSteps

(* And so does a close, which succeeds only when nothing is left.           *)
LEMMA CloserKeepsCreation ==
    ASSUME CreationInvariant, Close \/ CloserSteps
    PROVE  CreationInvariant'
<1> USE CreationAssumption
    DEF CreationInvariant, OneOwner, CloseIsLast, RetainedIsOwed, AttemptHolds, SettledHolds,
        NoProducerAbandoned, ClosedIsOver, owner, producer, callers
<1>1. CASE Close
  <2>1. TypeOK'
    BY <1>1 DEF TypeOK, Close
  <2>2. QED
    BY <1>1, <2>1 DEF Close
<1>2. CASE CloseJoins
  BY <1>2 DEF CloseJoins, TypeOK
<1>3. CASE CloseCleans
  <2>1. TypeOK'
    BY <1>3 DEF TypeOK, CloseCleans
  <2>2. retained' => retained /\ UNCHANGED owes
    BY <1>3 DEF CloseCleans, TypeOK
  <2>3. /\ closed /\ attempt = "none" /\ owes' \in {owes, owes \ {"prerequisites"}}
        /\ UNCHANGED <<client, lease, open, attempt, failure, closed, closeResult, callers>>
    BY <1>3 DEF CloseCleans
  <2>4. QED
    BY <2>1, <2>2, <2>3
<1>4. CASE CloseReleases
  <2>1. TypeOK'
    BY <1>4 DEF TypeOK, CloseReleases, ReleaseClient
  <2>2. /\ closed /\ attempt = "none" /\ closing' = "none"
        /\ UNCHANGED <<client, retained, attempt, failure, closed, callers>>
        /\ closeResult' = "ok" => lease' # "held"
    BY <1>4 DEF CloseReleases
  <2>3. \/ /\ client = None \/ lease = "released"
           /\ UNCHANGED <<lease, open>> /\ owes' = owes \ {"client"}
        \/ /\ client # None
           /\ lease' = "released" /\ open' = open \ {client} /\ owes' = owes \ {"client"}
        \/ /\ client # None
           /\ lease' = "held" /\ UNCHANGED open /\ owes' = owes \cup {"client"}
    BY <1>4 DEF CloseReleases, ReleaseClient
  <2>4. client = None => open = {}
    BY DEF TypeOK
  <2>5. QED
    BY <2>1, <2>2, <2>3, <2>4
<1>5. QED
  BY <1>1, <1>2, <1>3, <1>4 DEF CloserSteps

LEMMA StepPreservesCreationInvariant ==
    ASSUME CreationInvariant, [Next]_vars
    PROVE  CreationInvariant'
<1>1. CASE UNCHANGED vars
  BY <1>1 DEF vars, owner, producer, closer, callers, CreationInvariant, TypeOK, OneOwner,
              CloseIsLast, RetainedIsOwed, AttemptHolds, SettledHolds, NoProducerAbandoned,
              Waiting, ClosedIsOver
<1>2. QED
  BY <1>1, CallersKeepCreation, ProducerKeepsCreation, CloserKeepsCreation DEF Next

-----------------------------------------------------------------------------
(* The inductive invariant of deferred creation holds in every reachable    *)
(* state.                                                                   *)
THEOREM CreationInvariantHolds == Spec => []CreationInvariant
<1>1. Init => CreationInvariant
  BY InitEstablishesCreationInvariant
<1>2. CreationInvariant /\ [Next]_vars => CreationInvariant'
  BY StepPreservesCreationInvariant
<1>3. QED
  BY <1>1, <1>2, PTL DEF Spec

(* No native client is orphaned, whatever creation was stopped or failed.   *)
THEOREM ClientsAreNeverOrphaned == Spec => []NoClientOrphaned
<1>1. CreationInvariant => NoClientOrphaned
  BY CreationAssumption
     DEF CreationInvariant, TypeOK, OneOwner, SettledHolds, NoClientOrphaned, ReadyClient
<1>2. QED
  BY <1>1, CreationInvariantHolds, PTL

(* A running producer is awaited by a caller or by a close.                 *)
THEOREM ProducersAreAwaited == Spec => []NoProducerAbandoned
<1>1. CreationInvariant => NoProducerAbandoned
  BY DEF CreationInvariant
<1>2. QED
  BY <1>1, CreationInvariantHolds, PTL

(* A close that reports success leaves nothing behind, and is the end.      *)
THEOREM SuccessfulCloseReleasesAll == Spec => CloseReleasesAll
<1>1. ASSUME CreationInvariant, CreationInvariant', Next,
             closing = "releasing", closing' = "none", closeResult' = "ok"
      PROVE  ~retained'
  <2>1. CloseReleases
    BY <1>1 DEF Next, CallerSteps, AcquireRefused, AcquireReady, AcquireWaits, Depart,
                CancelTold, Dispatch, Refused, Executed, Tell, Leave, Wait, ProducerSteps,
                CreateNothing, BeginCreate, Create, CleanPrerequisites, ReleaseCreated, Close,
                CloserSteps, CloseJoins, CloseCleans, closer
  <2>2. owes' = {}
    BY <1>1, <2>1 DEF CloseReleases
  <2>3. QED
    BY <1>1, <2>2 DEF CreationInvariant, RetainedIsOwed, ClosedIsOver
<1>2. CreationInvariant' => (closeResult' = "ok" => open' = {} /\ attempt' = "none")
  BY DEF CreationInvariant, ClosedIsOver
<1>3. CreationInvariant /\ CreationInvariant' /\ [Next]_vars
        => [/\ closing = "releasing" /\ closing' = "none" /\ closeResult' = "ok" => ~retained'
            /\ closeResult' = "ok" => open' = {} /\ attempt' = "none"]_vars
  BY <1>1, <1>2
<1>4. QED
  BY <1>3, CreationInvariantHolds, PTL DEF Spec, CloseReleasesAll
=============================================================================
