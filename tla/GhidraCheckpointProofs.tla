----------------------- MODULE GhidraCheckpointProofs -----------------------
(***************************************************************************)
(* Proofs about OwnedLease and GhidraCheckpoint, for any number of         *)
(* processes and blobs, wherever they die.                                 *)
(*                                                                         *)
(* The listening servers are an exclusive lease.  That an owner keeps its  *)
(* path is not inductive alone.  Whoever is about to remove the socket     *)
(* must hold the reservation and the socket be that of a dead process; to  *)
(* know it at the removal, the reservation must be followed from `reserve` *)
(* through the second and third attempt to what is owed after a failure,   *)
(* and a file with a living name must be a bound one.                      *)
(*                                                                         *)
(* The manifest names an intact blob because nothing that can be written   *)
(* or removed is the current one: what a publication writes is pending,    *)
(* what is pending is not current, and only the holder of the lease has    *)
(* anything pending.                                                       *)
(***************************************************************************)
EXTENDS GhidraCheckpoint, TLAPS

-----------------------------------------------------------------------------
(* The lease                                                                *)

(* The file of a process that is alive is the file of a server that listens. *)
FileIsBound == file \in Process => file \in bound

(* Nothing is owed by a process that is acquiring or holds the lease, and   *)
(* the reservation not before the end of the recovery.                      *)
OwesWhenDone ==
    \A p \in Process :
        /\ at[p] \notin {"idle", "unreserve"} => owes[p] = {}
        /\ at[p] = "unreserve" => "reservation" \notin owes[p]

IInv == LeaseInvariant /\ FileIsBound /\ OwesWhenDone

(* Only one process listens.                                                *)
LEMMA OneOwner ==
  ASSUME OwnerKeepsPath, NEW p \in bound, NEW q \in bound
  PROVE  p = q
BY DEF OwnerKeepsPath

(* A server that is closed leaves nobody listening.                         *)
LEMMA CloseServerFreesThePath ==
  ASSUME IInv, NEW p \in bound, p \in Process, CloseServer(p)
  PROVE  /\ bound' = {} /\ file' = Nothing
         /\ file = p
BY OneOwner, LeaseAssumption DEF IInv, LeaseInvariant, OwnerKeepsPath, CloseServer

LEMMA InitEstablishesTheInvariant == LeaseInit => IInv
BY LeaseAssumption
DEF LeaseInit, IInv, LeaseInvariant, LeaseTypeOK, OwnerKeepsPath, OnlyStaleIsRemoved,
    RecoveryIsReserved, FileIsBound, OwesWhenDone, Owed

LEMMA NextKeepsTheInvariant == IInv /\ [LeaseNext]_leaseVars => IInv'
<1> SUFFICES ASSUME IInv, [LeaseNext]_leaseVars PROVE IInv'
  OBVIOUS
<1> USE LeaseAssumption
    DEF IInv, LeaseInvariant, LeaseTypeOK, OwnerKeepsPath, OnlyStaleIsRemoved,
        RecoveryIsReserved, FileIsBound, OwesWhenDone, Owed, Go, AfterFailure, AfterSuccess
<1>1. ASSUME NEW p \in Process, Acquire(p) PROVE IInv'
  BY <1>1 DEF Acquire
<1>2. ASSUME NEW p \in Process, Bind(p) PROVE IInv'
  BY <1>2 DEF Bind
<1>3. ASSUME NEW p \in Process, BindInsecurely(p) PROVE IInv'
  BY <1>3 DEF BindInsecurely
<1>4. ASSUME NEW p \in Process, BindFails(p) PROVE IInv'
  BY <1>4 DEF BindFails
<1>5. ASSUME NEW p \in Process, AskLive(p) PROVE IInv'
  BY <1>5 DEF AskLive
<1>6. ASSUME NEW p \in Process, AskGone(p) PROVE IInv'
  BY <1>6 DEF AskGone
<1>7. ASSUME NEW p \in Process, Reserve(p) PROVE IInv'
  BY <1>7 DEF Reserve
<1>8. ASSUME NEW p \in Process, ReserveFails(p) PROVE IInv'
  BY <1>8 DEF ReserveFails
<1>9. ASSUME NEW p \in Process, RemoveStale(p) PROVE IInv'
  BY <1>9 DEF RemoveStale
<1>10. ASSUME NEW p \in Process, Unreserve(p) PROVE IInv'
  BY <1>10 DEF Unreserve
<1>11. ASSUME NEW p \in Process, UnreserveFails(p) PROVE IInv'
  BY <1>11 DEF UnreserveFails, CloseServer
<1>12. ASSUME NEW p \in Process, RetryOwed(p) PROVE IInv'
  BY <1>12 DEF RetryOwed, CloseServer
<1>13. ASSUME NEW p \in Process, Release(p) PROVE IInv'
  BY <1>13 DEF Release, CloseServer
<1>14. ASSUME NEW p \in Process, Die(p) PROVE IInv'
  BY <1>14 DEF Die
<1>15. CASE UserRemovesReservation
  BY <1>15 DEF UserRemovesReservation
<1>16. CASE UNCHANGED leaseVars
  BY <1>16 DEF leaseVars
<1> QED
  BY <1>1, <1>2, <1>3, <1>4, <1>5, <1>6, <1>7, <1>8, <1>9, <1>10, <1>11, <1>12, <1>13,
     <1>14, <1>15, <1>16 DEF LeaseNext, Recover

(* In every reachable state the invariant of the lease holds.               *)
THEOREM LeaseInvariantHolds == LeaseSpec => []IInv
<1>1. LeaseInit => IInv
  BY InitEstablishesTheInvariant
<1>2. IInv /\ [LeaseNext]_leaseVars => IInv'
  BY NextKeepsTheInvariant
<1> QED
  BY <1>1, <1>2, PTL DEF LeaseSpec

-----------------------------------------------------------------------------
(* A step that binds finds nobody listening, and one that gives up or dies  *)
(* ends the only server: the lease is taken and left, or nothing happens.   *)
LEMMA StepIsOfTheLease ==
  ASSUME IInv, [LeaseNext]_leaseVars
  PROVE  [Exclusion!Next]_bound
<1>1. ASSUME NEW p \in Process, file = Nothing, bound' = bound \cup {p}
      PROVE  Exclusion!Take(p)
  <2>1. bound = {}
    BY <1>1, LeaseAssumption DEF IInv, LeaseInvariant, LeaseTypeOK, OwnerKeepsPath
  <2> QED
    BY <1>1, <2>1 DEF Exclusion!Take
<1>2. ASSUME NEW p \in Process, bound' = bound \ {p}
      PROVE  Exclusion!Leave(p) \/ UNCHANGED bound
  BY <1>2 DEF Exclusion!Leave
<1>3. ASSUME NEW p \in Process, Bind(p) \/ BindInsecurely(p)
      PROVE  Exclusion!Take(p) \/ UNCHANGED bound
  BY <1>1, <1>3 DEF Bind, BindInsecurely
<1>4. ASSUME NEW p \in Process,
             UnreserveFails(p) \/ RetryOwed(p) \/ Release(p) \/ Die(p)
      PROVE  Exclusion!Leave(p) \/ UNCHANGED bound
  BY <1>2, <1>4 DEF UnreserveFails, RetryOwed, Release, Die, CloseServer
<1>5. ASSUME NEW p \in Process,
             \/ Acquire(p) \/ BindFails(p) \/ AskLive(p) \/ AskGone(p) \/ Reserve(p)
             \/ ReserveFails(p) \/ RemoveStale(p) \/ Unreserve(p)
      PROVE  UNCHANGED bound
  BY <1>5 DEF Acquire, BindFails, AskLive, AskGone, Reserve, ReserveFails, RemoveStale,
              Unreserve
<1>6. CASE UserRemovesReservation \/ UNCHANGED leaseVars
  BY <1>6 DEF UserRemovesReservation, leaseVars
<1> QED
  BY <1>3, <1>4, <1>5, <1>6 DEF LeaseNext, Recover, Exclusion!Next

(* The recovery of a dead owner's socket never takes the path from a live   *)
(* one: OwnedLease implements the exclusive lease, whoever dies when.       *)
THEOREM LeaseIsExclusive == LeaseSpec => ImplementsLease
<1>1. LeaseInit => Exclusion!Init
  BY DEF LeaseInit, Exclusion!Init
<1>2. IInv /\ [LeaseNext]_leaseVars => [Exclusion!Next]_bound
  BY StepIsOfTheLease
<1> QED
  BY <1>1, <1>2, LeaseInvariantHolds, PTL
  DEF LeaseSpec, ImplementsLease, Exclusion!Spec

-----------------------------------------------------------------------------
(* The checkpoint                                                           *)

(* The steps at which a session has the lease.                              *)
Holding == {"ready", "copying", "written", "cleaning", "closing", "releasing"}

(* The lease is held where the session relies on it, and cleanup is a       *)
(* matter of its holder.                                                    *)
HoldersHold ==
    \A p \in Process :
        /\ step[p] \in Holding => at[p] = "held"
        /\ pending[p] # {} => step[p] \in Holding

(* What a session works on is what the manifest names.                      *)
SourceIsCurrent ==
    \A p \in Process :
        step[p] \in {"ready", "copying", "written", "cleaning"} => source[p] = manifest.blob

(* A publication owns the blob it writes before the manifest names it.      *)
FreshIsPending ==
    \A p \in Process :
        /\ step[p] \in {"copying", "written"} => fresh[p] \in pending[p]
        /\ step[p] = "written" => disk[fresh[p]] = "intact"

(* What is to be removed is not what the manifest names.                    *)
CurrentIsNotPending == \A p \in Process : manifest.blob \notin pending[p]

CInv ==
    /\ TypeOK /\ IInv
    /\ HoldersHold /\ SourceIsCurrent /\ FreshIsPending
    /\ CurrentIsNotPending /\ CurrentIsIntact

(* Two sessions never hold the lease at once.                               *)
LEMMA OneHolder ==
  ASSUME CInv, NEW p \in Process, NEW q \in Process,
         step[p] \in Holding, step[q] \in Holding
  PROVE  p = q
<1>1. at[p] = "held" /\ at[q] = "held"
  BY DEF CInv, HoldersHold
<1>2. p \in bound /\ q \in bound
  BY <1>1 DEF CInv, IInv, LeaseInvariant, RecoveryIsReserved
<1> QED
  BY <1>2, OneOwner DEF CInv, IInv, LeaseInvariant

-----------------------------------------------------------------------------
(* Every step of the checkpoint is a step of the lease or leaves it alone.  *)
LEMMA StepsOfTheLease ==
  ASSUME [Next]_vars
  PROVE  [LeaseNext]_leaseVars
<1>1. ASSUME NEW p \in Process, Step(p) PROVE [LeaseNext]_leaseVars
  <2>1. CASE Open(p)
    BY <2>1 DEF Open, LeaseNext, Recover
  <2>2. CASE Acquiring(p)
    BY <2>2 DEF Acquiring, LeaseNext
  <2>3. CASE CloseReleases(p)
    BY <2>3 DEF CloseReleases, LeaseNext
  <2>4. CASE Retry(p)
    BY <2>4 DEF Retry, LeaseNext, Recover
  <2>5. CASE Crash(p)
    BY <2>5 DEF Crash, LeaseNext
  <2>6. CASE Select(p) \/ Admit(p) \/ AdmissionFails(p) \/ RemovePending(p)
             \/ RemovalFails(p) \/ Cleaned(p) \/ StartPublish(p) \/ RetryPending(p)
             \/ Copy(p) \/ Replace(p) \/ PublishFails(p) \/ Close(p) \/ Drop(p)
    BY <2>6 DEF Select, Admit, AdmissionFails, RemovePending, RemovalFails, Cleaned,
                StartPublish, RetryPending, Copy, Replace, PublishFails, Close, Drop
  <2> QED
    BY <1>1, <2>1, <2>2, <2>3, <2>4, <2>5, <2>6 DEF Step
<1>2. CASE UserRemovesReservation /\ UNCHANGED checkpointVars
  BY <1>2 DEF LeaseNext
<1>3. CASE UNCHANGED vars
  BY <1>3 DEF vars
<1> QED
  BY <1>1, <1>2, <1>3 DEF Next

LEMMA InitEstablishesCInv == Init => CInv
<1> SUFFICES ASSUME Init PROVE CInv
  OBVIOUS
<1>1. IInv
  BY InitEstablishesTheInvariant DEF Init
<1>2. TypeOK
  BY <1>1, CheckpointAssumption DEF Init, TypeOK, IInv, LeaseInvariant, NoManifest
<1> QED
  BY <1>1, <1>2
  DEF Init, CInv, HoldersHold, SourceIsCurrent, FreshIsPending, CurrentIsNotPending,
      CurrentIsIntact, NoManifest, Holding

(* The types, action by action; the lease has its own.                      *)
LEMMA StepKeepsTypes ==
  ASSUME CInv, NEW p \in Process, Step(p), IInv'
  PROVE  TypeOK'
<1>1. LeaseTypeOK'
  BY DEF IInv, LeaseInvariant
<1>2. TypeOK
  BY DEF CInv
<1> USE <1>1, <1>2, CheckpointAssumption DEF TypeOK, NoManifest, Then
<1>3. CASE Select(p)
  BY <1>3 DEF Select, Generation
<1>4. CASE Open(p) \/ Acquiring(p) \/ AdmissionFails(p) \/ RemovalFails(p) \/ Cleaned(p)
           \/ RetryPending(p) \/ Close(p) \/ Drop(p)
  BY <1>4 DEF Open, Acquiring, AdmissionFails, RemovalFails, Cleaned, RetryPending, Close,
              Drop
<1>5. CASE Admit(p)
  BY <1>5 DEF Admit
<1>6. CASE RemovePending(p)
  BY <1>6 DEF RemovePending
<1>7. CASE StartPublish(p)
  BY <1>7 DEF StartPublish
<1>8. CASE Copy(p)
  BY <1>8 DEF Copy
<1>9. CASE Replace(p)
  <2>1. fresh[p] \in Blob
    BY <1>9 DEF Replace, CanReplace, CInv, FreshIsPending
  <2>2. PendingAfterReplace(p) \in SUBSET Blob
    BY DEF PendingAfterReplace
  <2> QED
    BY <1>9, <2>1, <2>2 DEF Replace, Generation
<1>10. CASE PublishFails(p)
  BY <1>10 DEF PublishFails
<1>11. CASE CloseReleases(p)
  BY <1>11 DEF CloseReleases
<1>12. CASE Retry(p)
  BY <1>12 DEF Retry, checkpointVars
<1>13. CASE Crash(p)
  BY <1>13 DEF Crash
<1> QED
  BY <1>3, <1>4, <1>5, <1>6, <1>7, <1>8, <1>9, <1>10, <1>11, <1>12, <1>13 DEF Step

(* Who holds the lease keeps it until it is released with nothing pending.  *)
LEMMA StepKeepsHoldersHold ==
  ASSUME CInv, NEW p \in Process, Step(p)
  PROVE  HoldersHold'
<1>1. TypeOK /\ HoldersHold /\ LeaseTypeOK
  BY DEF CInv, TypeOK
<1> USE <1>1 DEF TypeOK, LeaseTypeOK, HoldersHold, Holding, Then
<1>2. CASE Select(p) \/ Drop(p) \/ Admit(p) \/ AdmissionFails(p) \/ RemovePending(p)
           \/ RemovalFails(p) \/ Cleaned(p) \/ StartPublish(p) \/ RetryPending(p)
           \/ Copy(p) \/ Replace(p) \/ PublishFails(p) \/ Close(p)
  BY <1>2 DEF Select, Drop, Admit, AdmissionFails, RemovePending, RemovalFails, Cleaned,
              StartPublish, RetryPending, Copy, Replace, CanReplace, PublishFails, Close,
              leaseVars
<1>3. CASE Open(p)
  BY <1>3 DEF Open, Acquire, Go
<1>4. CASE Acquiring(p)
  <2>1. \A q \in Process \ {p} : at'[q] = at[q]
    BY <1>4 DEF Acquiring, Recover, Go, Acquire, Bind, BindInsecurely, BindFails, AskLive,
                AskGone, Reserve, ReserveFails, RemoveStale, Unreserve, UnreserveFails,
                RetryOwed
  <2> QED
    BY <1>4, <2>1 DEF Acquiring
<1>5. CASE CloseReleases(p)
  BY <1>5 DEF CloseReleases, Release, Go, NothingPending, leaseVars
<1>6. CASE Retry(p)
  BY <1>6 DEF Retry, RetryOwed, checkpointVars
<1>7. CASE Crash(p)
  BY <1>7 DEF Crash, Die, Go
<1> QED
  BY <1>2, <1>3, <1>4, <1>5, <1>6, <1>7 DEF Step

(* The manifest only changes when the holder replaces it.                   *)
LEMMA StepKeepsSourceIsCurrent ==
  ASSUME CInv, NEW p \in Process, Step(p)
  PROVE  SourceIsCurrent'
<1>1. TypeOK /\ SourceIsCurrent
  BY DEF CInv
<1> USE <1>1 DEF TypeOK, SourceIsCurrent, Then
<1>2. CASE Replace(p)
  <2>1. ASSUME NEW q \in Process, q # p
        PROVE  step[q] \notin Holding
    BY <1>2, <2>1, OneHolder DEF Replace, CanReplace, Holding
  <2> QED
    BY <1>2, <2>1 DEF Replace, Holding
<1>3. CASE Admit(p)
  BY <1>3 DEF Admit
<1>4. CASE Select(p) \/ Open(p) \/ Acquiring(p) \/ AdmissionFails(p) \/ RemovePending(p)
           \/ RemovalFails(p) \/ Cleaned(p) \/ StartPublish(p) \/ RetryPending(p)
           \/ Copy(p) \/ PublishFails(p) \/ Close(p) \/ CloseReleases(p) \/ Drop(p)
           \/ Retry(p) \/ Crash(p)
  BY <1>4 DEF Select, Open, Acquiring, AdmissionFails, RemovePending, RemovalFails, Cleaned,
              StartPublish, RetryPending, Copy, PublishFails, Close, CloseReleases, Drop,
              Retry, Crash, checkpointVars
<1> QED
  BY <1>2, <1>3, <1>4 DEF Step

(* Only its holder touches what a publication writes.                       *)
LEMMA StepKeepsFreshIsPending ==
  ASSUME CInv, NEW p \in Process, Step(p)
  PROVE  FreshIsPending'
<1>1. TypeOK /\ FreshIsPending /\ HoldersHold
  BY DEF CInv
<1>2. ASSUME NEW q \in Process, q # p, step[p] \in Holding
      PROVE  step[q] \notin {"copying", "written"}
  BY <1>2, OneHolder DEF Holding
<1> USE <1>1 DEF TypeOK, FreshIsPending, Then
<1>3. CASE RemovePending(p)
  BY <1>2, <1>3 DEF RemovePending, Holding
<1>4. CASE StartPublish(p)
  BY <1>2, <1>4 DEF StartPublish, Holding
<1>5. CASE Copy(p)
  BY <1>2, <1>5 DEF Copy, Holding
<1>6. CASE Replace(p)
  BY <1>6 DEF Replace
<1>7. CASE PublishFails(p) \/ Crash(p)
  BY <1>7 DEF PublishFails, Crash
<1>8. CASE Select(p) \/ Open(p) \/ Acquiring(p) \/ Admit(p) \/ AdmissionFails(p)
           \/ RemovalFails(p) \/ Cleaned(p) \/ RetryPending(p) \/ Close(p)
           \/ CloseReleases(p) \/ Drop(p) \/ Retry(p)
  BY <1>8 DEF Select, Open, Acquiring, Admit, AdmissionFails, RemovalFails, Cleaned,
              RetryPending, Close, CloseReleases, Drop, Retry, checkpointVars
<1> QED
  BY <1>3, <1>4, <1>5, <1>6, <1>7, <1>8 DEF Step

(* The manifest never names what is pending, and what it names is intact.   *)
LEMMA StepKeepsCurrent ==
  ASSUME CInv, NEW p \in Process, Step(p)
  PROVE  CurrentIsNotPending' /\ CurrentIsIntact'
<1>1. /\ TypeOK /\ CurrentIsNotPending /\ CurrentIsIntact /\ HoldersHold
      /\ SourceIsCurrent /\ FreshIsPending
  BY DEF CInv
<1> USE <1>1, CheckpointAssumption
    DEF TypeOK, CurrentIsNotPending, CurrentIsIntact, Then
<1>2. CASE RemovePending(p)
  BY <1>2 DEF RemovePending
<1>3. CASE StartPublish(p)
  BY <1>3 DEF StartPublish
<1>4. CASE Copy(p)
  <2>1. fresh[p] \in pending[p]
    BY <1>4 DEF Copy, FreshIsPending
  <2>2. fresh[p] # manifest.blob
    BY <2>1
  <2>3. manifest.blob # Nothing => manifest.blob \in Blob
    BY DEF NoManifest
  <2>4. manifest' = manifest /\ pending' = pending
    BY <1>4 DEF Copy
  <2>5. ASSUME manifest.blob # Nothing PROVE disk'[manifest.blob] = disk[manifest.blob]
    BY <1>4, <2>2, <2>3, <2>5 DEF Copy
  <2> QED
    BY <2>4, <2>5
<1>5. CASE Replace(p)
  <2>1. step[p] = "written" /\ source[p] = manifest.blob
    BY <1>5 DEF Replace, CanReplace, SourceIsCurrent
  <2>2. fresh[p] \in pending[p] /\ disk[fresh[p]] = "intact"
    BY <2>1 DEF FreshIsPending
  <2>3. fresh[p] # source[p]
    BY <2>1, <2>2
  <2>4. ASSUME NEW q \in Process, q # p
        PROVE  pending[q] = {}
    BY <2>1, <2>4, OneHolder DEF HoldersHold, Holding
  <2>5. fresh[p] \notin PendingAfterReplace(p)
    BY <2>3 DEF PendingAfterReplace
  <2>6. manifest'.blob = fresh[p] /\ disk' = disk
    BY <1>5 DEF Replace
  <2>7. pending' = [pending EXCEPT ![p] = PendingAfterReplace(p)]
    BY <1>5 DEF Replace
  <2>8. CurrentIsNotPending'
    BY <2>4, <2>5, <2>6, <2>7
  <2> QED
    BY <2>2, <2>6, <2>8
<1>6. CASE Crash(p)
  BY <1>6 DEF Crash
<1>7. CASE Select(p) \/ Open(p) \/ Acquiring(p) \/ Admit(p) \/ AdmissionFails(p)
           \/ RemovalFails(p) \/ Cleaned(p) \/ RetryPending(p) \/ PublishFails(p)
           \/ Close(p) \/ CloseReleases(p) \/ Drop(p) \/ Retry(p)
  BY <1>7 DEF Select, Open, Acquiring, Admit, AdmissionFails, RemovalFails, Cleaned,
              RetryPending, PublishFails, Close, CloseReleases, Drop, Retry, checkpointVars
<1> QED
  BY <1>2, <1>3, <1>4, <1>5, <1>6, <1>7 DEF Step

LEMMA NextKeepsCInv == CInv /\ [Next]_vars => CInv'
<1> SUFFICES ASSUME CInv, [Next]_vars PROVE CInv'
  OBVIOUS
<1>1. IInv'
  BY StepsOfTheLease, NextKeepsTheInvariant DEF CInv
<1>2. ASSUME NEW p \in Process, Step(p) PROVE CInv'
  BY <1>1, <1>2, StepKeepsTypes, StepKeepsHoldersHold, StepKeepsSourceIsCurrent,
     StepKeepsFreshIsPending, StepKeepsCurrent DEF CInv
<1>3. CASE UserRemovesReservation /\ UNCHANGED checkpointVars
  <2>1. TypeOK'
    BY <1>1, <1>3 DEF CInv, TypeOK, IInv, LeaseInvariant, checkpointVars
  <2> QED
    BY <1>1, <1>3, <2>1
    DEF CInv, HoldersHold, SourceIsCurrent, FreshIsPending, CurrentIsNotPending,
        CurrentIsIntact, UserRemovesReservation, checkpointVars
<1>4. CASE UNCHANGED vars
  <2>1. TypeOK'
    BY <1>1, <1>4 DEF CInv, TypeOK, IInv, LeaseInvariant, vars, checkpointVars
  <2> QED
    BY <1>1, <1>4, <2>1
    DEF CInv, HoldersHold, SourceIsCurrent, FreshIsPending, CurrentIsNotPending,
        CurrentIsIntact, vars, leaseVars, checkpointVars
<1> QED
  BY <1>2, <1>3, <1>4 DEF Next

-----------------------------------------------------------------------------
(* In every reachable state the invariant of the checkpoint holds.          *)
THEOREM CheckpointInvariantHolds == Spec => []CInv
<1>1. Init => CInv
  BY InitEstablishesCInv
<1>2. CInv /\ [Next]_vars => CInv'
  BY NextKeepsCInv
<1> QED
  BY <1>1, <1>2, PTL DEF Spec

(* Whatever dies when, the manifest names a packed program that is there    *)
(* and complete (publish and retryCleanup).                                 *)
THEOREM CurrentStaysIntact == Spec => []CurrentIsIntact
<1>1. CInv => CurrentIsIntact
  BY DEF CInv
<1> QED
  BY <1>1, CheckpointInvariantHolds, PTL

(* No publication replaces a program its session has not opened or          *)
(* published last, however stale what it had selected was.                  *)
THEOREM PublicationsAreNeverLost == Spec => NoLostPublication
<1>1. CInv /\ [Next]_vars =>
        [manifest' # manifest =>
           \E p \in Process : at[p] = "held" /\ source[p] = manifest.blob]_vars
  <2> SUFFICES ASSUME CInv, [Next]_vars, manifest' # manifest
               PROVE  \E p \in Process : at[p] = "held" /\ source[p] = manifest.blob
    OBVIOUS
  <2>1. PICK p \in Process : Replace(p)
    BY DEF Next, Step, vars, checkpointVars, Select, Open, Acquiring, Admit, AdmissionFails,
           RemovePending, RemovalFails, Cleaned, StartPublish, RetryPending, Copy,
           PublishFails, Close, CloseReleases, Drop, Retry, Crash
  <2>2. step[p] = "written"
    BY <2>1 DEF Replace, CanReplace
  <2> QED
    BY <2>2 DEF CInv, HoldersHold, SourceIsCurrent, Holding
<1> QED
  BY <1>1, CheckpointInvariantHolds, PTL DEF Spec, NoLostPublication

(* The checkpoint uses the lease as OwnedLease allows, so it is exclusive.  *)
THEOREM CheckpointUsesTheLease == Spec => ImplementsOwnedLease /\ ImplementsLease
<1>1. Init => LeaseInit
  BY DEF Init
<1>2. [Next]_vars => [LeaseNext]_leaseVars
  BY StepsOfTheLease
<1>3. Spec => LeaseSpec
  BY <1>1, <1>2, PTL DEF Spec, LeaseSpec
<1> QED
  BY <1>3, LeaseIsExclusive, PTL DEF ImplementsOwnedLease
=============================================================================
