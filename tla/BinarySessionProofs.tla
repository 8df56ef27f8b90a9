------------------------- MODULE BinarySessionProofs -------------------------
(***************************************************************************)
(* Ownership of provider clients by a BinarySession, for every set of      *)
(* calls, clients and targets and every number of transitions: the         *)
(* session keeps to the admission protocol, SessionInvariant is inductive, *)
(* and the shutdown of the runtime, which takes only steps of the session, *)
(* disposes the investigation last.                                        *)
(***************************************************************************)
EXTENDS Shutdown, SessionLockProofs

(* A call step of the session is a call step of the lock, or leaves it be.  *)
LEMMA CallStepsKeepLock ==
    ASSUME NEW c \in Calls, CallSteps(c)
    PROVE  [LockNext]_lockVars
<1>1. CASE InvokeCall(c) \/ AdmitCall(c) \/ CancelCall(c) \/ CallReady(c) \/ SettleCall(c)
  <2>1. CallNext(c)
    BY <1>1 DEF InvokeCall, AdmitCall, CancelCall, CallReady, SettleCall, CallNext
  <2>2. QED
    BY <2>1 DEF LockNext
<1>2. CASE DispatchResource(c) \/ DispatchRead(c) \/ DispatchMutation(c)
           \/ InvalidateExternally(c) \/ AnswerRead(c) \/ AnswerMutation(c)
  <2>1. UNCHANGED lockVars
    BY <1>2 DEF DispatchResource, DispatchRead, DispatchMutation, InvalidateExternally,
                AnswerRead, AnswerMutation, Send
  <2>2. QED
    BY <2>1
<1>3. QED
  BY <1>1, <1>2 DEF CallSteps

(* So is every step of the head transition: it settles the head, or leaves  *)
(* the lock alone.                                                          *)
LEMMA HeadStepsKeepLock ==
    ASSUME HeadSteps
    PROVE  [LockNext]_lockVars
<1> USE DEF Goto, Return, LockNext
<1>1. CASE RefuseEarly \/ Start \/ Drained
  BY <1>1 DEF RefuseEarly, Start, Drained
<1>2. CASE RetryPending \/ GiveUpPending \/ RetryResources
  BY <1>2 DEF RetryPending, GiveUpPending, RetryResources
<1>3. CASE OpenSteps
  BY <1>3 DEF OpenSteps, FastPath, TakeSelection, RetirePrevious, RetirePreviousFails,
              AbandonStart, StartCandidate, Commit, CommitFails, ImportRefused, ImportFails,
              RetireCandidate, RetireCandidateFails, Restore, RetireRestored
<1>4. CASE CloseSteps
  BY <1>4 DEF CloseSteps, Close, SaveFails, CloseSettles, StartResources, AdmitResources,
              SelectResources, SelectResourcesFails, DropResources
<1>5. CASE Mutate \/ MutateRefused \/ MutationSettles \/ Reset
  BY <1>5 DEF Mutate, MutateRefused, MutationSettles, Reset
<1>6. QED
  BY <1>1, <1>2, <1>3, <1>4, <1>5 DEF HeadSteps

(* Every step of the session is a step of the lock or leaves it alone.      *)
LEMMA StepKeepsLock ==
    ASSUME [Next]_vars
    PROVE  [LockNext]_lockVars
<1>1. CASE \E c \in Calls : CallSteps(c)
  BY <1>1, CallStepsKeepLock
<1>2. CASE \E kind \in Kinds : Request(kind)
  BY <1>2 DEF Request, LockNext
<1>3. CASE BeginShutdown \/ MutationCleanupResolves
  BY <1>3 DEF BeginShutdown, MutationCleanupResolves
<1>4. CASE HeadSteps
  BY <1>4, HeadStepsKeepLock
<1>5. CASE UNCHANGED vars
  BY <1>5 DEF vars
<1>6. QED
  BY <1>1, <1>2, <1>3, <1>4, <1>5 DEF Next

(* The calls and transitions of a session follow the admission protocol.    *)
THEOREM SessionImplementsLock == Spec => ImplementsLock
<1>1. Init => LockInit
  BY DEF Init
<1>2. [Next]_vars => [LockNext]_lockVars
  BY StepKeepsLock
<1>3. QED
  BY <1>1, <1>2, PTL DEF Spec, LockSpec, ImplementsLock

-----------------------------------------------------------------------------

(* The queue of transition kinds: appending keeps its head, and the tail of *)
(* a non-empty queue is one shorter.                                        *)
LEMMA AppendKeepsHead ==
    ASSUME NEW s \in Seq(Kinds), NEW k \in Kinds
    PROVE  /\ Append(s, k) \in Seq(Kinds)
           /\ Len(Append(s, k)) = Len(s) + 1
           /\ Len(s) # 0 => Head(Append(s, k)) = Head(s)
  OBVIOUS

LEMMA TailIsShorter ==
    ASSUME NEW s \in Seq(Kinds), Len(s) # 0
    PROVE  /\ Tail(s) \in Seq(Kinds)
           /\ Len(Tail(s)) = Len(s) - 1
           /\ Head(s) \in Kinds
  OBVIOUS

(* Nothing happened yet.                                                    *)
LEMMA InitEstablishesSessionInvariant == Init => SessionInvariant
<1> SUFFICES ASSUME Init PROVE SessionInvariant
  OBVIOUS
<1>1. LockInvariant
  BY InitEstablishesInvariant DEF Init
<1>2. ops \in Seq(Kinds) /\ Len(ops) = generation - settled
  BY DEF Init, LockInit
<1>3. TypeOK
  BY <1>1, <1>2, SessionAssumption DEF Init, TypeOK, LockInvariant, Steps
<1>4. NoClientLost /\ OneSelection /\ CallsKeepTheirClient /\ DisposedIsFinal
  BY SessionAssumption
     DEF Init, NoClientLost, OneSelection, CallsKeepTheirClient, DisposedIsFinal
<1>5. StepInvariant
  <2>1. ~DisposeQueued
    BY DEF Init, DisposeQueued
  <2>2. QED
    BY <2>1 DEF Init, LockInit, StepInvariant
<1>6. QED
  BY <1>1, <1>3, <1>4, <1>5 DEF SessionInvariant

(* While a transition is past its drain no call is being served.            *)
LEMMA NoCallServed ==
    ASSUME SessionInvariant, phase = "running"
    PROVE  \A c \in Calls : serving[c] = None
  BY
      DEF SessionInvariant, LockInvariant, TransitionIsAlone, CallsKeepTheirClient,
          Registered

(* A step of a running transition that does not touch the calls leaves them *)
(* with their clients, because there are none.                              *)
LEMMA RunningKeepsCalls ==
    ASSUME SessionInvariant, phase = "running", UNCHANGED callVars
    PROVE  CallsKeepTheirClient'
  BY NoCallServed DEF CallsKeepTheirClient, callVars

(* A settled transition leaves the queue, and no other one enters it.       *)
LEMMA TailKeepsDispose ==
    ASSUME ops \in Seq(Kinds), Len(ops) # 0, ops' = Tail(ops), DisposeQueued'
    PROVE  DisposeQueued
<1>1. PICK i \in 1 .. Len(Tail(ops)) : Tail(ops)[i] = "dispose"
  BY DEF DisposeQueued
<1>2. i + 1 \in 1 .. Len(ops) /\ ops[i + 1] = "dispose"
  BY <1>1
<1>3. QED
  BY <1>2 DEF DisposeQueued

(* The head of the queue is queued.                                         *)
LEMMA HeadDisposeIsQueued ==
    ASSUME ops \in Seq(Kinds), Len(ops) # 0, Kind = "dispose"
    PROVE  DisposeQueued
<1>1. 1 \in 1 .. Len(ops) /\ ops[1] = "dispose"
  BY DEF Kind
<1>2. QED
  BY <1>1 DEF DisposeQueued

(* Where a transition that returns leaves the queue and its locals.         *)
Returned ==
    /\ phase = "running" /\ phase' = "queued" /\ step' = "none"
    /\ run' = None /\ goal' = None /\ previous' = None /\ importing' = FALSE
    /\ outcome' \in {"none", "ok", "failed"}
    /\ ops' \in Seq(Kinds) /\ Len(ops') = generation' - settled'
    /\ DisposeQueued' => DisposeQueued

LEMMA ReturnFacts ==
    ASSUME SessionInvariant, NEW result \in {"ok", "failed"}, Return(result)
    PROVE  Returned
<1> USE DEF SessionInvariant, TypeOK, LockInvariant, LockTypeOK, Return, Leave,
            SettleTransition, HeadSettles
<1>1. Len(ops) # 0 /\ ops' = Tail(ops)
  OBVIOUS
<1>2. DisposeQueued' => DisposeQueued
  BY <1>1, TailKeepsDispose
<1>3. QED
  BY <1>1, <1>2, TailIsShorter DEF Returned

(* A running transition has one of the kinds.                               *)
LEMMA RunningKind ==
    ASSUME SessionInvariant, phase = "running"
    PROVE  Kind \in Kinds
<1>1. ops \in Seq(Kinds) /\ Len(ops) # 0
  BY DEF SessionInvariant, TypeOK, LockInvariant, LockTypeOK
<1>2. QED
  BY <1>1, TailIsShorter DEF Kind

(* Where a transition that goes on leaves them.                             *)
Continued(next) ==
    /\ phase = "running" /\ phase' = "running" /\ step' = next
    /\ Kind \in Kinds /\ Kind' = Kind /\ DisposeQueued' = DisposeQueued
    /\ goal' = goal /\ importing' = importing
    /\ outcome' \in {"none", "ok", "failed"}
    /\ ops' \in Seq(Kinds) /\ Len(ops') = generation' - settled'

LEMMA GotoFacts ==
    ASSUME SessionInvariant, step # "none", NEW next, Goto(next)
    PROVE  Continued(next) /\ previous' = previous
<1>1. Kind \in Kinds
  BY RunningKind DEF SessionInvariant, StepInvariant
<1>2. QED
  BY <1>1 DEF Continued, SessionInvariant, StepInvariant, TypeOK, Goto, lockVars, queue,
              Kind, DisposeQueued

(* Every step of an open keeps the invariant.                                 *)
LEMMA OpenPreservesInvariant ==
    ASSUME SessionInvariant, LockInvariant', OpenSteps
    PROVE  SessionInvariant'
<1>1. CASE FastPath
  <2> USE <1>1, SessionAssumption
      DEF SessionInvariant, FastPath, ImportSnapshot, Kept, selection, cleanup, cache,
          flags, callVars
  <2>1. Returned
    BY ReturnFacts
  <2>2. TypeOK'
    BY ZenonT(40), <2>1 DEF Returned, TypeOK, LockInvariant, Steps, StepInvariant
  <2>3. NoClientLost'
    BY <2>1 DEF Returned, TypeOK, NoClientLost, StepInvariant
  <2>4. StepInvariant'
    BY <2>1 DEF Returned, TypeOK, StepInvariant, OneSelection
  <2>5. OneSelection' /\ DisposedIsFinal'
    BY <2>1 DEF Returned, TypeOK, OneSelection, DisposedIsFinal, StepInvariant, NoClientLost
  <2>6. CallsKeepTheirClient'
    BY <2>1, RunningKeepsCalls DEF Returned
  <2>7. QED
    BY <2>1, <2>2, <2>3, <2>4, <2>5, <2>6
<1>2. CASE TakeSelection
  <2> USE <1>2, SessionAssumption
      DEF SessionInvariant, TakeSelection, selection, cleanup, cache, flags, callVars
  <2>1. Continued(IF client = None THEN "start" ELSE "retire") /\ previous' = target
    BY RunningKind
        DEF TakeSelection, Continued, SessionInvariant, StepInvariant, TypeOK, lockVars,
            queue, Kind, DisposeQueued
  <2>2. TypeOK'
    BY <2>1 DEF Continued, TypeOK, LockInvariant, Steps, StepInvariant
  <2>3. NoClientLost'
    BY <2>1 DEF Continued, TypeOK, NoClientLost, StepInvariant
  <2>4. StepInvariant'
    BY <2>1 DEF Continued, TypeOK, StepInvariant, OneSelection
  <2>5. OneSelection' /\ DisposedIsFinal'
    BY <2>1
        DEF Continued, TypeOK, OneSelection, DisposedIsFinal, StepInvariant, NoClientLost
  <2>6. CallsKeepTheirClient'
    BY <2>1, RunningKeepsCalls DEF Continued
  <2>7. QED
    BY <2>1, <2>2, <2>3, <2>4, <2>5, <2>6
<1>3. CASE RetirePrevious
  <2> USE <1>3, SessionAssumption
      DEF SessionInvariant, RetirePrevious, PendingCloses, selection, cleanup, cache,
          flags, callVars
  <2>1. Continued("start") /\ previous' = previous
    BY GotoFacts
  <2>2. TypeOK'
    BY <2>1 DEF Continued, TypeOK, LockInvariant, Steps, StepInvariant
  <2>3. NoClientLost'
    BY <2>1 DEF Continued, TypeOK, NoClientLost, StepInvariant
  <2>4. StepInvariant'
    BY <2>1 DEF Continued, TypeOK, StepInvariant, OneSelection
  <2>5. OneSelection' /\ DisposedIsFinal'
    BY <2>1
        DEF Continued, TypeOK, OneSelection, DisposedIsFinal, StepInvariant, NoClientLost
  <2>6. CallsKeepTheirClient'
    BY <2>1, RunningKeepsCalls DEF Continued
  <2>7. QED
    BY <2>1, <2>2, <2>3, <2>4, <2>5, <2>6
<1>4. CASE RetirePreviousFails
  <2> USE <1>4, SessionAssumption
      DEF SessionInvariant, RetirePreviousFails, ClearSnapshot, EmptyCache, selection,
          cleanup, cache, flags, callVars
  <2>1. Returned
    BY ReturnFacts
  <2>2. TypeOK'
    BY <2>1 DEF Returned, TypeOK, LockInvariant, Steps, StepInvariant
  <2>3. NoClientLost'
    BY <2>1 DEF Returned, TypeOK, NoClientLost, StepInvariant
  <2>4. StepInvariant'
    BY <2>1 DEF Returned, TypeOK, StepInvariant, OneSelection
  <2>5. OneSelection' /\ DisposedIsFinal'
    BY <2>1 DEF Returned, TypeOK, OneSelection, DisposedIsFinal, StepInvariant, NoClientLost
  <2>6. CallsKeepTheirClient'
    BY <2>1, RunningKeepsCalls DEF Returned
  <2>7. QED
    BY <2>1, <2>2, <2>3, <2>4, <2>5, <2>6
<1>5. CASE AbandonStart
  <2> USE <1>5, SessionAssumption
      DEF SessionInvariant, AbandonStart, selection, cleanup, cache, flags, callVars
  <2>1. Continued("restore") /\ previous' = previous
    BY GotoFacts
  <2>2. TypeOK'
    BY <2>1 DEF Continued, TypeOK, LockInvariant, Steps, StepInvariant
  <2>3. NoClientLost'
    BY <2>1 DEF Continued, TypeOK, NoClientLost, StepInvariant
  <2>4. StepInvariant'
    BY <2>1 DEF Continued, TypeOK, StepInvariant, OneSelection
  <2>5. OneSelection' /\ DisposedIsFinal'
    BY <2>1
        DEF Continued, TypeOK, OneSelection, DisposedIsFinal, StepInvariant, NoClientLost
  <2>6. CallsKeepTheirClient'
    BY <2>1, RunningKeepsCalls DEF Continued
  <2>7. QED
    BY <2>1, <2>2, <2>3, <2>4, <2>5, <2>6
<1>6. CASE StartCandidate
  <2>1. ASSUME NEW n \in Clients, step = "start", Create(n), Goto("commit"),
               run' = n, pendingRes' = pendingRes \cup Present(resource), resource' = None,
               UNCHANGED <<client, target, pending, cache, flags, callVars>>
        PROVE  SessionInvariant'
    <3> USE <2>1, SessionAssumption
        DEF SessionInvariant, StartCandidate, Create, Retire, Present, selection,
            cleanup, cache, flags, callVars
    <3>1. Continued("commit") /\ previous' = previous
      BY GotoFacts
    <3>2. TypeOK'
      BY <3>1 DEF Continued, TypeOK, LockInvariant, Steps, StepInvariant
    <3>3. NoClientLost'
      BY <3>1 DEF Continued, TypeOK, NoClientLost, StepInvariant
    <3>4. StepInvariant'
      BY <3>1 DEF Continued, TypeOK, StepInvariant, OneSelection
    <3>5. OneSelection' /\ DisposedIsFinal'
      BY <3>1
          DEF Continued, TypeOK, OneSelection, DisposedIsFinal, StepInvariant,
              NoClientLost
    <3>6. CallsKeepTheirClient'
      BY <3>1, RunningKeepsCalls DEF Continued
    <3>7. QED
      BY <3>1, <3>2, <3>3, <3>4, <3>5, <3>6
  <2>2. ASSUME NEW n \in Clients, step = "start", Create(n), Retire(n), Goto("failed"),
               UNCHANGED <<selection, pendingRes, cache, flags, callVars>>
        PROVE  SessionInvariant'
    <3> USE <2>2, SessionAssumption
        DEF SessionInvariant, StartCandidate, Create, Retire, Present, selection,
            cleanup, cache, flags, callVars
    <3>1. Continued("failed") /\ previous' = previous
      BY GotoFacts
    <3>2. TypeOK'
      BY <3>1 DEF Continued, TypeOK, LockInvariant, Steps, StepInvariant
    <3>3. NoClientLost'
      BY <3>1 DEF Continued, TypeOK, NoClientLost, StepInvariant
    <3>4. StepInvariant'
      BY <3>1 DEF Continued, TypeOK, StepInvariant, OneSelection
    <3>5. OneSelection' /\ DisposedIsFinal'
      BY <3>1
          DEF Continued, TypeOK, OneSelection, DisposedIsFinal, StepInvariant,
              NoClientLost
    <3>6. CallsKeepTheirClient'
      BY <3>1, RunningKeepsCalls DEF Continued
    <3>7. QED
      BY <3>1, <3>2, <3>3, <3>4, <3>5, <3>6
  <2>3. QED
    BY <1>6, <2>1, <2>2
        DEF StartCandidate, Create, Retire, Present, selection, cleanup, cache, flags,
            callVars
<1>7. CASE Commit
  <2> USE <1>7, SessionAssumption
      DEF SessionInvariant, Commit, ResourcesClose, ImportSnapshot, SelectSnapshot, Kept,
          selection, cleanup, cache, flags, callVars
  <2>1. Returned
    BY ReturnFacts
  <2>2. TypeOK'
    BY ZenonT(40), <2>1 DEF Returned, TypeOK, LockInvariant, Steps, StepInvariant
  <2>3. NoClientLost'
    BY <2>1 DEF Returned, TypeOK, NoClientLost, StepInvariant
  <2>4. StepInvariant'
    BY <2>1 DEF Returned, TypeOK, StepInvariant, OneSelection
  <2>5. OneSelection' /\ DisposedIsFinal'
    BY <2>1 DEF Returned, TypeOK, OneSelection, DisposedIsFinal, StepInvariant, NoClientLost
  <2>6. CallsKeepTheirClient'
    BY <2>1, RunningKeepsCalls DEF Returned
  <2>7. QED
    BY <2>1, <2>2, <2>3, <2>4, <2>5, <2>6
<1>8. CASE CommitFails
  <2> USE <1>8, SessionAssumption
      DEF SessionInvariant, CommitFails, Retire, selection, cleanup, cache, flags,
          callVars
  <2>1. Continued("failed") /\ previous' = previous
    BY GotoFacts
  <2>2. TypeOK'
    BY <2>1 DEF Continued, TypeOK, LockInvariant, Steps, StepInvariant
  <2>3. NoClientLost'
    BY <2>1 DEF Continued, TypeOK, NoClientLost, StepInvariant
  <2>4. StepInvariant'
    BY <2>1 DEF Continued, TypeOK, StepInvariant, OneSelection
  <2>5. OneSelection' /\ DisposedIsFinal'
    BY <2>1
        DEF Continued, TypeOK, OneSelection, DisposedIsFinal, StepInvariant, NoClientLost
  <2>6. CallsKeepTheirClient'
    BY <2>1, RunningKeepsCalls DEF Continued
  <2>7. QED
    BY <2>1, <2>2, <2>3, <2>4, <2>5, <2>6
<1>9. CASE ImportRefused
  <2> USE <1>9, SessionAssumption
      DEF SessionInvariant, ImportRefused, ImportFails, ClearEngineRecords, EmptyCache,
          Retire, selection, cleanup, cache, flags, callVars
  <2>1. Continued("failed") /\ previous' = previous
    BY GotoFacts
  <2>2. TypeOK'
    BY <2>1 DEF Continued, TypeOK, LockInvariant, Steps, StepInvariant
  <2>3. NoClientLost'
    BY <2>1 DEF Continued, TypeOK, NoClientLost, StepInvariant
  <2>4. StepInvariant'
    BY <2>1 DEF Continued, TypeOK, StepInvariant, OneSelection
  <2>5. OneSelection' /\ DisposedIsFinal'
    BY <2>1
        DEF Continued, TypeOK, OneSelection, DisposedIsFinal, StepInvariant, NoClientLost
  <2>6. CallsKeepTheirClient'
    BY <2>1, RunningKeepsCalls DEF Continued
  <2>7. QED
    BY <2>1, <2>2, <2>3, <2>4, <2>5, <2>6
<1>10. CASE RetireCandidate
  <2> USE <1>10, SessionAssumption
      DEF SessionInvariant, RetireCandidate, PendingCloses, selection, cleanup, cache,
          flags, callVars
  <2>1. Continued("restore") /\ previous' = previous
    BY GotoFacts
  <2>2. TypeOK'
    BY <2>1 DEF Continued, TypeOK, LockInvariant, Steps, StepInvariant
  <2>3. NoClientLost'
    BY <2>1 DEF Continued, TypeOK, NoClientLost, StepInvariant
  <2>4. StepInvariant'
    BY <2>1 DEF Continued, TypeOK, StepInvariant, OneSelection
  <2>5. OneSelection' /\ DisposedIsFinal'
    BY <2>1
        DEF Continued, TypeOK, OneSelection, DisposedIsFinal, StepInvariant, NoClientLost
  <2>6. CallsKeepTheirClient'
    BY <2>1, RunningKeepsCalls DEF Continued
  <2>7. QED
    BY <2>1, <2>2, <2>3, <2>4, <2>5, <2>6
<1>11. CASE RetireCandidateFails
  <2> USE <1>11, SessionAssumption
      DEF SessionInvariant, RetireCandidateFails, selection, cleanup, cache, flags,
          callVars
  <2>1. Returned
    BY ReturnFacts
  <2>2. TypeOK'
    BY <2>1 DEF Returned, TypeOK, LockInvariant, Steps, StepInvariant
  <2>3. NoClientLost'
    BY <2>1 DEF Returned, TypeOK, NoClientLost, StepInvariant
  <2>4. StepInvariant'
    BY <2>1 DEF Returned, TypeOK, StepInvariant, OneSelection
  <2>5. OneSelection' /\ DisposedIsFinal'
    BY <2>1 DEF Returned, TypeOK, OneSelection, DisposedIsFinal, StepInvariant, NoClientLost
  <2>6. CallsKeepTheirClient'
    BY <2>1, RunningKeepsCalls DEF Returned
  <2>7. QED
    BY <2>1, <2>2, <2>3, <2>4, <2>5, <2>6
<1>12. CASE Restore
  <2>1. ASSUME step = "restore", Return("failed"),
               UNCHANGED <<selection, cleanup, cache, flags, callVars>>
        PROVE  SessionInvariant'
    <3> USE <2>1, SessionAssumption
        DEF SessionInvariant, Restore, Create, Retire, selection, cleanup, cache, flags,
            callVars
    <3>1. Returned
      BY ReturnFacts
    <3>2. TypeOK'
      BY <3>1 DEF Returned, TypeOK, LockInvariant, Steps, StepInvariant
    <3>3. NoClientLost'
      BY <3>1 DEF Returned, TypeOK, NoClientLost, StepInvariant
    <3>4. StepInvariant'
      BY <3>1 DEF Returned, TypeOK, StepInvariant, OneSelection
    <3>5. OneSelection' /\ DisposedIsFinal'
      BY <3>1
          DEF Returned, TypeOK, OneSelection, DisposedIsFinal, StepInvariant,
              NoClientLost
    <3>6. CallsKeepTheirClient'
      BY <3>1, RunningKeepsCalls DEF Returned
    <3>7. QED
      BY <3>1, <3>2, <3>3, <3>4, <3>5, <3>6
  <2>2. ASSUME NEW n \in Clients, step = "restore", previous # None, Create(n),
    Return("failed"),
               client' = n, target' = previous,
               UNCHANGED <<resource, pending, pendingRes, cache, flags, callVars>>
        PROVE  SessionInvariant'
    <3> USE <2>2, SessionAssumption
        DEF SessionInvariant, Restore, Create, Retire, selection, cleanup, cache, flags,
            callVars
    <3>1. Returned
      BY ReturnFacts
    <3>2. TypeOK'
      BY <3>1 DEF Returned, TypeOK, LockInvariant, Steps, StepInvariant
    <3>3. NoClientLost'
      BY <3>1 DEF Returned, TypeOK, NoClientLost, StepInvariant
    <3>4. StepInvariant'
      BY <3>1 DEF Returned, TypeOK, StepInvariant, OneSelection
    <3>5. OneSelection' /\ DisposedIsFinal'
      BY <3>1
          DEF Returned, TypeOK, OneSelection, DisposedIsFinal, StepInvariant,
              NoClientLost
    <3>6. CallsKeepTheirClient'
      BY <3>1, RunningKeepsCalls DEF Returned
    <3>7. QED
      BY <3>1, <3>2, <3>3, <3>4, <3>5, <3>6
  <2>3. ASSUME NEW n \in Clients, step = "restore", Create(n), Retire(n),
    Goto("restoreFailed"),
               UNCHANGED <<selection, pendingRes, cache, flags, callVars>>
        PROVE  SessionInvariant'
    <3> USE <2>3, SessionAssumption
        DEF SessionInvariant, Restore, Create, Retire, selection, cleanup, cache, flags,
            callVars
    <3>1. Continued("restoreFailed") /\ previous' = previous
      BY GotoFacts
    <3>2. TypeOK'
      BY <3>1 DEF Continued, TypeOK, LockInvariant, Steps, StepInvariant
    <3>3. NoClientLost'
      BY <3>1 DEF Continued, TypeOK, NoClientLost, StepInvariant
    <3>4. StepInvariant'
      BY <3>1 DEF Continued, TypeOK, StepInvariant, OneSelection
    <3>5. OneSelection' /\ DisposedIsFinal'
      BY <3>1
          DEF Continued, TypeOK, OneSelection, DisposedIsFinal, StepInvariant,
              NoClientLost
    <3>6. CallsKeepTheirClient'
      BY <3>1, RunningKeepsCalls DEF Continued
    <3>7. QED
      BY <3>1, <3>2, <3>3, <3>4, <3>5, <3>6
  <2>4. QED
    BY <1>12, <2>1, <2>2, <2>3
        DEF Restore, Create, Retire, selection, cleanup, cache, flags, callVars
<1>13. CASE RetireRestored
  <2> USE <1>13, SessionAssumption
      DEF SessionInvariant, RetireRestored, PendingCloses, selection, cleanup, cache,
          flags, callVars
  <2>1. Returned
    BY ReturnFacts
  <2>2. TypeOK'
    BY ZenonT(40), <2>1 DEF Returned, TypeOK, LockInvariant, Steps, StepInvariant
  <2>3. NoClientLost'
    BY <2>1 DEF Returned, TypeOK, NoClientLost, StepInvariant
  <2>4. StepInvariant'
    BY <2>1 DEF Returned, TypeOK, StepInvariant, OneSelection
  <2>5. OneSelection' /\ DisposedIsFinal'
    BY <2>1 DEF Returned, TypeOK, OneSelection, DisposedIsFinal, StepInvariant, NoClientLost
  <2>6. CallsKeepTheirClient'
    BY <2>1, RunningKeepsCalls DEF Returned
  <2>7. QED
    BY <2>1, <2>2, <2>3, <2>4, <2>5, <2>6
<1>14. QED
  BY <1>1, <1>2, <1>3, <1>4, <1>5, <1>6, <1>7, <1>8, <1>9, <1>10, <1>11, <1>12, <1>13
      DEF OpenSteps

-----------------------------------------------------------------------------
(* The calls *)

(* A step of a call changes its own bookkeeping and the cache, never who    *)
(* owns which client.                                                       *)
LEMMA CallLeavesOwners ==
    ASSUME NEW c \in Calls, CallSteps(c)
    PROVE  UNCHANGED <<generation, settled, phase, selection, cleanup, flags, queue,
      step, locals>>
<1> USE DEF Deregister
<1>1. CASE InvokeCall(c) \/ AdmitCall(c) \/ CancelCall(c)
  BY <1>1 DEF InvokeCall, AdmitCall, CancelCall, Invoke, Admit, CancelWait
<1>2. CASE CallReady(c) \/ SettleCall(c)
  BY <1>2 DEF CallReady, SettleCall, InvokeReady, Settle
<1>3. CASE DispatchResource(c) \/ DispatchRead(c) \/ DispatchMutation(c) \/
  InvalidateExternally(c)
  BY <1>3
      DEF DispatchResource, DispatchRead, DispatchMutation, InvalidateExternally, Send,
          lockVars
<1>4. CASE AnswerRead(c) \/ AnswerMutation(c)
  BY <1>4 DEF AnswerRead, AnswerMutation, lockVars
<1>5. QED
  BY <1>1, <1>2, <1>3, <1>4 DEF CallSteps

(* The cache, and what the calls in flight will record, keep their types.   *)
LEMMA CallKeepsTypes ==
    ASSUME SessionInvariant, NEW c \in Calls, CallSteps(c)
    PROVE  /\ staged' \in Targets \cup {None}
           /\ entries' \subseteq {"fresh", "stale"}
           /\ invalidated' \in BOOLEAN
           /\ serving' \in [Calls -> Clients \cup {None}]
           /\ observing' \in [Calls -> {"nothing", "fresh", "stale", "mutation"}]
<1> USE DEF SessionInvariant, TypeOK, cache, callVars
<1>1. CASE InvokeCall(c) \/ AdmitCall(c) \/ CancelCall(c) \/ SettleCall(c)
  BY <1>1 DEF InvokeCall, AdmitCall, CancelCall, SettleCall
<1>2. CASE CallReady(c)
  BY <1>2 DEF CallReady
<1>3. CASE DispatchResource(c)
  BY <1>3 DEF DispatchResource, Send
<1>4. CASE DispatchRead(c)
  BY <1>4 DEF DispatchRead, Send
<1>5. CASE DispatchMutation(c)
  BY <1>5 DEF DispatchMutation, Send, InvalidateSnapshot, EmptyCache
<1>6. CASE InvalidateExternally(c)
  BY <1>6 DEF InvalidateExternally, InvalidateSnapshot, EmptyCache, Outdated
<1>7. CASE AnswerRead(c)
  <2>1. observing[c] # "nothing" => observing[c] \in {"fresh", "stale"}
    BY <1>7 DEF AnswerRead
  <2>2. QED
    BY <1>7, <2>1 DEF AnswerRead, RecordSnapshot, Kept
<1>8. CASE AnswerMutation(c)
  BY <1>8 DEF AnswerMutation, Outdated
<1>9. QED
  BY <1>1, <1>2, <1>3, <1>4, <1>5, <1>6, <1>7, <1>8 DEF CallSteps

(* A call is sent to a client that is selected, after it was admitted, and  *)
(* leaves only when it was answered.                                        *)
LEMMA CallKeepsItsClient ==
    ASSUME SessionInvariant, NEW c \in Calls, CallSteps(c)
    PROVE  CallsKeepTheirClient'
<1> USE DEF SessionInvariant, TypeOK, LockTypeOK, CallsKeepTheirClient, callVars, selection
<1>1. CASE InvokeCall(c)
  BY <1>1 DEF InvokeCall, Invoke
<1>2. CASE AdmitCall(c)
  BY <1>2 DEF AdmitCall, Admit
<1>3. CASE CancelCall(c)
  BY <1>3 DEF CancelCall, CancelWait, Deregister
<1>4. CASE CallReady(c)
  BY <1>4 DEF CallReady, InvokeReady
<1>5. CASE DispatchResource(c) \/ DispatchRead(c) \/ DispatchMutation(c)
  BY <1>5 DEF DispatchResource, DispatchRead, DispatchMutation, Send, lockVars
<1>6. CASE InvalidateExternally(c) \/ AnswerRead(c) \/ AnswerMutation(c)
  BY <1>6 DEF InvalidateExternally, AnswerRead, AnswerMutation, lockVars
<1>7. CASE SettleCall(c)
  BY <1>7 DEF SettleCall, Settle, Deregister
<1>8. QED
  BY <1>1, <1>2, <1>3, <1>4, <1>5, <1>6, <1>7 DEF CallSteps

(* Every step of a call keeps the invariant.                                *)
LEMMA CallPreservesInvariant ==
    ASSUME SessionInvariant, LockInvariant', NEW c \in Calls, CallSteps(c)
    PROVE  SessionInvariant'
<1>1. UNCHANGED <<generation, settled, phase, selection, cleanup, flags, queue, step,
  locals>>
  BY CallLeavesOwners
<1>2. TypeOK'
  BY <1>1, CallKeepsTypes
     DEF SessionInvariant, LockInvariant, TypeOK, selection, cleanup, flags, queue, locals
<1>3. NoClientLost' /\ StepInvariant' /\ OneSelection' /\ DisposedIsFinal'
  BY <1>1 DEF SessionInvariant, NoClientLost, StepInvariant, OneSelection, DisposedIsFinal,
              Kind, DisposeQueued, selection, cleanup, flags, queue, locals
<1>4. QED
  BY <1>2, <1>3, CallKeepsItsClient DEF SessionInvariant

-----------------------------------------------------------------------------
(* Requests, and the first steps of a transition *)

(* A transition past its request is at the head of a non-empty queue, and a *)
(* request behind it leaves it there.                                       *)
LEMMA RequestKeepsHead ==
    ASSUME SessionInvariant, NEW kind \in Kinds, Request(kind)
    PROVE  /\ phase # "queued" => Kind' = Kind
           /\ ops' \in Seq(Kinds) /\ Len(ops') = generation' - settled'
           /\ DisposeQueued' => DisposeQueued \/ kind = "dispose"
<1>1. /\ ops' = Append(ops, kind) /\ generation' = generation + 1
      /\ settled' = settled /\ phase' = phase
  BY DEF Request, Serialize
<1>2. /\ ops \in Seq(Kinds) /\ Len(ops) = generation - settled
      /\ generation \in Nat /\ settled \in Nat
      /\ phase # "queued" => settled < generation
  BY DEF SessionInvariant, TypeOK, LockInvariant, LockTypeOK
<1>3. /\ Append(ops, kind) \in Seq(Kinds)
      /\ Len(Append(ops, kind)) = Len(ops) + 1
      /\ Len(ops) # 0 => Head(Append(ops, kind)) = Head(ops)
  BY <1>2, AppendKeepsHead
<1>4. DisposeQueued' => DisposeQueued \/ kind = "dispose"
  <2> SUFFICES ASSUME NEW i \in 1 .. Len(ops'), ops'[i] = "dispose", kind # "dispose"
               PROVE  DisposeQueued
    BY DEF DisposeQueued
  <2>1. i \in 1 .. Len(ops) /\ ops[i] = "dispose"
    BY <1>1, <1>2
  <2>2. QED
    BY <2>1 DEF DisposeQueued
<1>5. QED
  BY <1>1, <1>2, <1>3, <1>4 DEF Kind

(* Requesting a transition or beginning the shutdown keeps the invariant.   *)
LEMMA RequestPreservesInvariant ==
    ASSUME SessionInvariant, LockInvariant', NEW kind \in Kinds, Request(kind)
    PROVE  SessionInvariant'
<1> USE
    DEF SessionInvariant, Request, Serialize, selection, cleanup, cache, callVars, locals
<1>1. TypeOK'
  BY RequestKeepsHead DEF TypeOK, LockInvariant
<1>2. NoClientLost' /\ OneSelection' /\ DisposedIsFinal' /\ CallsKeepTheirClient'
  BY DEF NoClientLost, OneSelection, DisposedIsFinal, CallsKeepTheirClient
<1>3. StepInvariant'
  BY ZenonT(40), RequestKeepsHead DEF StepInvariant, TypeOK
<1>4. QED
  BY <1>1, <1>2, <1>3

LEMMA FlagsPreserveInvariant ==
    ASSUME SessionInvariant, LockInvariant', BeginShutdown \/ MutationCleanupResolves
    PROVE  SessionInvariant'
<1> USE DEF SessionInvariant, BeginShutdown, MutationCleanupResolves, lockVars, selection,
            cleanup, cache, callVars, locals, queue
<1>1. TypeOK'
  BY ZenonT(40) DEF TypeOK, LockInvariant
<1>2. NoClientLost' /\ OneSelection' /\ DisposedIsFinal' /\ CallsKeepTheirClient'
  BY DEF NoClientLost, OneSelection, DisposedIsFinal, CallsKeepTheirClient
<1>3. StepInvariant'
  BY DEF StepInvariant, Kind, DisposeQueued
<1>4. QED
  BY <1>1, <1>2, <1>3

(* A transition that is refused early, starts to drain or has drained.      *)
LEMMA AdmissionPreservesInvariant ==
    ASSUME SessionInvariant, LockInvariant', RefuseEarly \/ Start \/ Drained
    PROVE  SessionInvariant'
<1> USE DEF SessionInvariant, selection, cleanup, cache, flags, callVars
<1>1. CASE RefuseEarly
  <2>1. /\ phase' = "queued" /\ step' = "none" /\ step = "none" /\ run' = None /\ run = None
        /\ goal' = None /\ previous' = None /\ importing' = FALSE /\ outcome' = "failed"
    BY <1>1 DEF RefuseEarly, Leave, SettleEarly, HeadSettles, StepInvariant
  <2>2. Len(ops) # 0 /\ ops' = Tail(ops) /\ generation' = generation /\ settled' =
    settled + 1
    BY <1>1 DEF RefuseEarly, Leave, SettleEarly, HeadSettles, TypeOK, LockTypeOK
  <2>3. ops' \in Seq(Kinds) /\ Len(ops') = generation' - settled'
    BY <2>2, TailIsShorter DEF TypeOK, LockTypeOK
  <2>4. DisposeQueued' => DisposeQueued
    BY <2>2, TailKeepsDispose DEF TypeOK
  <2>5. TypeOK'
    BY <1>1, <2>1, <2>3 DEF RefuseEarly, TypeOK, LockInvariant, Steps
  <2>6. NoClientLost' /\ OneSelection' /\ DisposedIsFinal' /\ CallsKeepTheirClient'
    BY <1>1, <2>1 DEF RefuseEarly, SettleEarly, HeadSettles, NoClientLost, OneSelection,
                      DisposedIsFinal, CallsKeepTheirClient
  <2>7. StepInvariant'
    BY <1>1, <2>1, <2>4 DEF RefuseEarly, StepInvariant
  <2>8. QED
    BY <2>5, <2>6, <2>7
<1>2. CASE Start
  <2> USE <1>2 DEF Start, StartDrain, queue
  <2>1. TypeOK'
    BY DEF TypeOK, LockInvariant
  <2>2. NoClientLost' /\ OneSelection' /\ DisposedIsFinal' /\ CallsKeepTheirClient'
    BY DEF NoClientLost, OneSelection, DisposedIsFinal, CallsKeepTheirClient
  <2>3. Kind = "open" => goal' # None
    BY SessionAssumption
  <2>4. StepInvariant'
    BY <2>3 DEF StepInvariant, Kind, DisposeQueued
  <2>5. QED
    BY <2>1, <2>2, <2>4
<1>3. CASE Drained
  <2> USE <1>3 DEF Drained, DrainDone, queue, locals
  <2>1. TypeOK'
    BY DEF TypeOK, LockInvariant, Steps
  <2>2. NoClientLost' /\ OneSelection' /\ DisposedIsFinal' /\ CallsKeepTheirClient'
    BY DEF NoClientLost, OneSelection, DisposedIsFinal, CallsKeepTheirClient
  <2>3. StepInvariant'
    BY DEF StepInvariant, Kind, DisposeQueued
  <2>4. QED
    BY <2>1, <2>2, <2>3
<1>4. QED
  BY <1>1, <1>2, <1>3

(* Retrying what earlier transitions left behind keeps the invariant.         *)
LEMMA CleanupPreservesInvariant ==
    ASSUME SessionInvariant, LockInvariant', RetryPending \/ GiveUpPending \/ RetryResources
    PROVE  SessionInvariant'
<1>1. CASE RetryPending
  <2>1. ASSUME step = "pending", Kind = "mutate", PendingCloses, Goto("mutate"),
    mutationFailure' = FALSE,
               UNCHANGED <<selection, cache, shutdown, disposed, callVars, run>>
        PROVE  SessionInvariant'
    <3> USE <2>1, SessionAssumption
        DEF SessionInvariant, RetryPending, PendingCloses, Kinds, selection, cleanup,
            cache, flags, callVars
    <3>1. Continued("mutate") /\ previous' = previous
      BY GotoFacts
    <3>2. TypeOK'
      BY ZenonT(40), <3>1 DEF Continued, TypeOK, LockInvariant, Steps, StepInvariant
    <3>3. NoClientLost'
      BY <3>1 DEF Continued, TypeOK, NoClientLost, StepInvariant
    <3>4. StepInvariant'
      BY <3>1 DEF Continued, TypeOK, StepInvariant, OneSelection
    <3>5. OneSelection' /\ DisposedIsFinal'
      BY <3>1
          DEF Continued, TypeOK, OneSelection, DisposedIsFinal, StepInvariant,
              NoClientLost
    <3>6. CallsKeepTheirClient'
      BY <3>1, RunningKeepsCalls DEF Continued
    <3>7. QED
      BY <3>1, <3>2, <3>3, <3>4, <3>5, <3>6
  <2>2. ASSUME step = "pending", Kind # "mutate", PendingCloses, Goto("resources"),
    mutationFailure' = FALSE,
               UNCHANGED <<selection, cache, shutdown, disposed, callVars, run>>
        PROVE  SessionInvariant'
    <3> USE <2>2, SessionAssumption
        DEF SessionInvariant, RetryPending, PendingCloses, Kinds, selection, cleanup,
            cache, flags, callVars
    <3>1. Continued("resources") /\ previous' = previous
      BY GotoFacts
    <3>2. TypeOK'
      BY ZenonT(40), <3>1 DEF Continued, TypeOK, LockInvariant, Steps, StepInvariant
    <3>3. NoClientLost'
      BY <3>1 DEF Continued, TypeOK, NoClientLost, StepInvariant
    <3>4. StepInvariant'
      BY <3>1 DEF Continued, TypeOK, StepInvariant, OneSelection
    <3>5. OneSelection' /\ DisposedIsFinal'
      BY <3>1
          DEF Continued, TypeOK, OneSelection, DisposedIsFinal, StepInvariant,
              NoClientLost
    <3>6. CallsKeepTheirClient'
      BY <3>1, RunningKeepsCalls DEF Continued
    <3>7. QED
      BY <3>1, <3>2, <3>3, <3>4, <3>5, <3>6
  <2>3. QED
    BY <1>1, <2>1, <2>2
        DEF RetryPending, PendingCloses, Kinds, selection, cleanup, cache, flags,
            callVars
<1>2. CASE GiveUpPending
  <2> USE <1>2, SessionAssumption
      DEF SessionInvariant, GiveUpPending, selection, cleanup, cache, flags, callVars
  <2>1. Returned
    BY ReturnFacts
  <2>2. TypeOK'
    BY <2>1 DEF Returned, TypeOK, LockInvariant, Steps, StepInvariant
  <2>3. NoClientLost'
    BY <2>1 DEF Returned, TypeOK, NoClientLost, StepInvariant
  <2>4. StepInvariant'
    BY <2>1 DEF Returned, TypeOK, StepInvariant, OneSelection
  <2>5. OneSelection' /\ DisposedIsFinal'
    BY <2>1 DEF Returned, TypeOK, OneSelection, DisposedIsFinal, StepInvariant, NoClientLost
  <2>6. CallsKeepTheirClient'
    BY <2>1, RunningKeepsCalls DEF Returned
  <2>7. QED
    BY <2>1, <2>2, <2>3, <2>4, <2>5, <2>6
<1>3. CASE RetryResources
  <2>1. ASSUME NEW failed \in SUBSET pendingRes, step = "resources", ResourcesClose(failed),
               Goto(Kind), UNCHANGED <<selection, cache, flags, callVars, run>>
        PROVE  SessionInvariant'
    <3> USE <2>1, SessionAssumption
        DEF SessionInvariant, RetryResources, ResourcesClose, selection, cleanup, cache,
            flags, callVars
    <3>1. Continued(Kind) /\ previous' = previous
      BY GotoFacts
    <3>2. TypeOK'
      BY <3>1 DEF Continued, TypeOK, LockInvariant, Steps, StepInvariant
    <3>3. NoClientLost'
      BY <3>1 DEF Continued, TypeOK, NoClientLost, StepInvariant
    <3>4. StepInvariant'
      BY <3>1 DEF Continued, TypeOK, StepInvariant, OneSelection
    <3>5. OneSelection' /\ DisposedIsFinal'
      BY <3>1
          DEF Continued, TypeOK, OneSelection, DisposedIsFinal, StepInvariant,
              NoClientLost
    <3>6. CallsKeepTheirClient'
      BY <3>1, RunningKeepsCalls DEF Continued
    <3>7. QED
      BY <3>1, <3>2, <3>3, <3>4, <3>5, <3>6
  <2>2. ASSUME NEW failed \in SUBSET pendingRes, step = "resources", ResourcesClose(failed),
               Return("failed"), UNCHANGED <<selection, cache, flags, callVars>>
        PROVE  SessionInvariant'
    <3> USE <2>2, SessionAssumption
        DEF SessionInvariant, RetryResources, ResourcesClose, selection, cleanup, cache,
            flags, callVars
    <3>1. Returned
      BY ReturnFacts
    <3>2. TypeOK'
      BY <3>1 DEF Returned, TypeOK, LockInvariant, Steps, StepInvariant
    <3>3. NoClientLost'
      BY <3>1 DEF Returned, TypeOK, NoClientLost, StepInvariant
    <3>4. StepInvariant'
      BY <3>1 DEF Returned, TypeOK, StepInvariant, OneSelection
    <3>5. OneSelection' /\ DisposedIsFinal'
      BY <3>1
          DEF Returned, TypeOK, OneSelection, DisposedIsFinal, StepInvariant,
              NoClientLost
    <3>6. CallsKeepTheirClient'
      BY <3>1, RunningKeepsCalls DEF Returned
    <3>7. QED
      BY <3>1, <3>2, <3>3, <3>4, <3>5, <3>6
  <2>3. QED
    BY <1>3, <2>1, <2>2
        DEF RetryResources, ResourcesClose, selection, cleanup, cache, flags, callVars
<1>4. QED
  BY <1>1, <1>2, <1>3

-----------------------------------------------------------------------------
(* Closing, opening app resources, mutating and resetting *)

(* Every step that closes, or opens app resources, keeps the invariant.       *)
LEMMA ClosePreservesInvariant ==
    ASSUME SessionInvariant, LockInvariant', CloseSteps
    PROVE  SessionInvariant'
<1>1. CASE Close
  <2> USE <1>1, SessionAssumption
      DEF SessionInvariant, Close, BeginClose, ClearEngineRecords, EmptyCache, Present,
          selection, cleanup, cache, flags, callVars
  <2>1. Continued("closing") /\ previous' = previous
    BY GotoFacts
  <2>2. TypeOK'
    BY <2>1 DEF Continued, TypeOK, LockInvariant, Steps, StepInvariant
  <2>3. NoClientLost'
    BY <2>1 DEF Continued, TypeOK, NoClientLost, StepInvariant
  <2>4. StepInvariant'
    BY <2>1 DEF Continued, TypeOK, StepInvariant, OneSelection
  <2>5. OneSelection' /\ DisposedIsFinal'
    BY <2>1
        DEF Continued, TypeOK, OneSelection, DisposedIsFinal, StepInvariant, NoClientLost
  <2>6. CallsKeepTheirClient'
    BY <2>1, RunningKeepsCalls DEF Continued
  <2>7. QED
    BY <2>1, <2>2, <2>3, <2>4, <2>5, <2>6
<1>2. CASE SaveFails
  <2> USE <1>2, SessionAssumption
      DEF SessionInvariant, SaveFails, selection, cleanup, cache, flags, callVars
  <2>1. Returned
    BY ReturnFacts
  <2>2. TypeOK'
    BY <2>1 DEF Returned, TypeOK, LockInvariant, Steps, StepInvariant
  <2>3. NoClientLost'
    BY <2>1 DEF Returned, TypeOK, NoClientLost, StepInvariant
  <2>4. StepInvariant'
    BY <2>1 DEF Returned, TypeOK, StepInvariant, OneSelection
  <2>5. OneSelection' /\ DisposedIsFinal'
    BY <2>1 DEF Returned, TypeOK, OneSelection, DisposedIsFinal, StepInvariant, NoClientLost
  <2>6. CallsKeepTheirClient'
    BY <2>1, RunningKeepsCalls DEF Returned
  <2>7. QED
    BY <2>1, <2>2, <2>3, <2>4, <2>5, <2>6
<1>3. CASE CloseSettles
  <2> USE SessionAssumption DEF SessionInvariant
  <2>1. PICK failed \in SUBSET pendingRes, keeps \in BOOLEAN, result \in {"ok", "failed"} :
          /\ CloseOwners(failed, keeps) /\ pendingRes' = failed
          /\ result = "ok" => failed = {} /\ ~keeps
          /\ Return(result)
          /\ disposed' = (disposed \/ (Kind = "dispose" /\ result = "ok"))
    BY <1>3 DEF CloseSettles
  <2>2. step = "closing" /\ Kind # "openResources"
    BY <1>3 DEF CloseSettles
  <2>3. UNCHANGED <<selection, cache, mutationFailure, shutdown, callVars>>
    BY <1>3 DEF CloseSettles
  <2>4. Returned
    BY <2>1, ReturnFacts
  <2>5. TypeOK'
    BY <2>1, <2>3, <2>4
       DEF Returned, TypeOK, LockInvariant, Steps, CloseOwners, selection, cache, callVars
  <2>6. NoClientLost'
    BY <2>1, <2>2, <2>3, <2>4
       DEF Returned, TypeOK, NoClientLost, StepInvariant, CloseOwners, selection
  <2>7. disposed' => shutdown
    <3>1. phase # "queued" /\ Len(ops) # 0
      BY <2>4 DEF Returned, TypeOK, LockInvariant, LockTypeOK
    <3>2. QED
      BY <2>1, <3>1, HeadDisposeIsQueued DEF TypeOK, StepInvariant
  <2>8. StepInvariant'
    BY <2>1, <2>2, <2>3, <2>4, <2>7
       DEF Returned, TypeOK, StepInvariant, OneSelection, CloseOwners, selection
  <2>9. OneSelection' /\ DisposedIsFinal'
    BY <2>1, <2>2, <2>3, <2>4, <2>6
       DEF Returned, TypeOK, OneSelection, DisposedIsFinal, StepInvariant, NoClientLost,
           CloseOwners, selection
  <2>10. CallsKeepTheirClient'
    BY <2>3, <2>4, RunningKeepsCalls DEF Returned
  <2>11. QED
    BY <2>5, <2>6, <2>8, <2>9, <2>10
<1>4. CASE StartResources
  <2>1. ASSUME step = "openResources", Return("failed"),
               UNCHANGED <<selection, cleanup, cache, flags, callVars>>
        PROVE  SessionInvariant'
    <3> USE <2>1, SessionAssumption
        DEF SessionInvariant, StartResources, selection, cleanup, cache, flags, callVars
    <3>1. Returned
      BY ReturnFacts
    <3>2. TypeOK'
      BY <3>1 DEF Returned, TypeOK, LockInvariant, Steps, StepInvariant
    <3>3. NoClientLost'
      BY <3>1 DEF Returned, TypeOK, NoClientLost, StepInvariant
    <3>4. StepInvariant'
      BY <3>1 DEF Returned, TypeOK, StepInvariant, OneSelection
    <3>5. OneSelection' /\ DisposedIsFinal'
      BY <3>1
          DEF Returned, TypeOK, OneSelection, DisposedIsFinal, StepInvariant,
              NoClientLost
    <3>6. CallsKeepTheirClient'
      BY <3>1, RunningKeepsCalls DEF Returned
    <3>7. QED
      BY <3>1, <3>2, <3>3, <3>4, <3>5, <3>6
  <2>2. ASSUME NEW n \in Clients, n \notin open, step = "openResources", open' = open
    \cup {n}, run' = n,
               Goto("admitResources"),
               UNCHANGED <<selection, pending, pendingRes, cache, flags, callVars>>
        PROVE  SessionInvariant'
    <3> USE <2>2, SessionAssumption
        DEF SessionInvariant, StartResources, selection, cleanup, cache, flags, callVars
    <3>1. Continued("admitResources") /\ previous' = previous
      BY GotoFacts
    <3>2. TypeOK'
      BY <3>1 DEF Continued, TypeOK, LockInvariant, Steps, StepInvariant
    <3>3. NoClientLost'
      BY <3>1 DEF Continued, TypeOK, NoClientLost, StepInvariant
    <3>4. StepInvariant'
      BY <3>1 DEF Continued, TypeOK, StepInvariant, OneSelection
    <3>5. OneSelection' /\ DisposedIsFinal'
      BY <3>1
          DEF Continued, TypeOK, OneSelection, DisposedIsFinal, StepInvariant,
              NoClientLost
    <3>6. CallsKeepTheirClient'
      BY <3>1, RunningKeepsCalls DEF Continued
    <3>7. QED
      BY <3>1, <3>2, <3>3, <3>4, <3>5, <3>6
  <2>3. ASSUME NEW n \in Clients, n \notin open, step = "openResources", open' = open
    \cup {n},
               pendingRes' = pendingRes \cup {n}, Goto("dropResources"),
               UNCHANGED <<selection, pending, run, cache, flags, callVars>>
        PROVE  SessionInvariant'
    <3> USE <2>3, SessionAssumption
        DEF SessionInvariant, StartResources, selection, cleanup, cache, flags, callVars
    <3>1. Continued("dropResources") /\ previous' = previous
      BY GotoFacts
    <3>2. TypeOK'
      BY <3>1 DEF Continued, TypeOK, LockInvariant, Steps, StepInvariant
    <3>3. NoClientLost'
      BY <3>1 DEF Continued, TypeOK, NoClientLost, StepInvariant
    <3>4. StepInvariant'
      BY <3>1 DEF Continued, TypeOK, StepInvariant, OneSelection
    <3>5. OneSelection' /\ DisposedIsFinal'
      BY <3>1
          DEF Continued, TypeOK, OneSelection, DisposedIsFinal, StepInvariant,
              NoClientLost
    <3>6. CallsKeepTheirClient'
      BY <3>1, RunningKeepsCalls DEF Continued
    <3>7. QED
      BY <3>1, <3>2, <3>3, <3>4, <3>5, <3>6
  <2>4. QED
    BY <1>4, <2>1, <2>2, <2>3 DEF StartResources, selection, cleanup, cache, flags, callVars
<1>5. CASE AdmitResources
  <2> USE <1>5, SessionAssumption
      DEF SessionInvariant, AdmitResources, BeginClose, ClearEngineRecords, EmptyCache,
          Present, selection, cleanup, cache, flags, callVars
  <2>1. Continued("closing") /\ previous' = previous
    BY GotoFacts
  <2>2. TypeOK'
    BY <2>1 DEF Continued, TypeOK, LockInvariant, Steps, StepInvariant
  <2>3. NoClientLost'
    BY <2>1 DEF Continued, TypeOK, NoClientLost, StepInvariant
  <2>4. StepInvariant'
    BY <2>1 DEF Continued, TypeOK, StepInvariant, OneSelection
  <2>5. OneSelection' /\ DisposedIsFinal'
    BY <2>1
        DEF Continued, TypeOK, OneSelection, DisposedIsFinal, StepInvariant, NoClientLost
  <2>6. CallsKeepTheirClient'
    BY <2>1, RunningKeepsCalls DEF Continued
  <2>7. QED
    BY <2>1, <2>2, <2>3, <2>4, <2>5, <2>6
<1>6. CASE SelectResources
  <2> USE <1>6, SessionAssumption
      DEF SessionInvariant, SelectResources, CloseOwners, selection, cleanup, cache,
          flags, callVars
  <2>1. Returned
    BY ReturnFacts
  <2>2. TypeOK'
    BY <2>1 DEF Returned, TypeOK, LockInvariant, Steps, StepInvariant
  <2>3. NoClientLost'
    BY <2>1 DEF Returned, TypeOK, NoClientLost, StepInvariant
  <2>4. StepInvariant'
    BY <2>1 DEF Returned, TypeOK, StepInvariant, OneSelection
  <2>5. OneSelection' /\ DisposedIsFinal'
    BY <2>1 DEF Returned, TypeOK, OneSelection, DisposedIsFinal, StepInvariant, NoClientLost
  <2>6. CallsKeepTheirClient'
    BY <2>1, RunningKeepsCalls DEF Returned
  <2>7. QED
    BY <2>1, <2>2, <2>3, <2>4, <2>5, <2>6
<1>7. CASE SelectResourcesFails
  <2> USE <1>7, SessionAssumption
      DEF SessionInvariant, SelectResourcesFails, CloseOwners, selection, cleanup, cache,
          flags, callVars
  <2>1. Continued("dropResources") /\ previous' = previous
    BY GotoFacts
  <2>2. TypeOK'
    BY <2>1 DEF Continued, TypeOK, LockInvariant, Steps, StepInvariant
  <2>3. NoClientLost'
    BY <2>1 DEF Continued, TypeOK, NoClientLost, StepInvariant
  <2>4. StepInvariant'
    BY <2>1 DEF Continued, TypeOK, StepInvariant, OneSelection
  <2>5. OneSelection' /\ DisposedIsFinal'
    BY <2>1
        DEF Continued, TypeOK, OneSelection, DisposedIsFinal, StepInvariant, NoClientLost
  <2>6. CallsKeepTheirClient'
    BY <2>1, RunningKeepsCalls DEF Continued
  <2>7. QED
    BY <2>1, <2>2, <2>3, <2>4, <2>5, <2>6
<1>8. CASE DropResources
  <2> USE <1>8, SessionAssumption
      DEF SessionInvariant, DropResources, ResourcesClose, selection, cleanup, cache,
          flags, callVars
  <2>1. Returned
    BY ReturnFacts
  <2>2. TypeOK'
    BY ZenonT(40), <2>1 DEF Returned, TypeOK, LockInvariant, Steps, StepInvariant
  <2>3. NoClientLost'
    BY <2>1 DEF Returned, TypeOK, NoClientLost, StepInvariant
  <2>4. StepInvariant'
    BY <2>1 DEF Returned, TypeOK, StepInvariant, OneSelection
  <2>5. OneSelection' /\ DisposedIsFinal'
    BY <2>1 DEF Returned, TypeOK, OneSelection, DisposedIsFinal, StepInvariant, NoClientLost
  <2>6. CallsKeepTheirClient'
    BY <2>1, RunningKeepsCalls DEF Returned
  <2>7. QED
    BY <2>1, <2>2, <2>3, <2>4, <2>5, <2>6
<1>9. QED
  BY <1>1, <1>2, <1>3, <1>4, <1>5, <1>6, <1>7, <1>8 DEF CloseSteps

(* External mutations and resets keep the invariant.                          *)
LEMMA MutationPreservesInvariant ==
    ASSUME SessionInvariant, LockInvariant', Mutate \/ MutateRefused \/ MutationSettles
      \/ Reset
    PROVE  SessionInvariant'
<1>1. CASE Mutate
  <2> USE <1>1, SessionAssumption
      DEF SessionInvariant, Mutate, InvalidateSnapshot, EmptyCache, selection, cleanup,
          cache, flags, callVars
  <2>1. Continued("mutating") /\ previous' = previous
    BY GotoFacts
  <2>2. TypeOK'
    BY <2>1 DEF Continued, TypeOK, LockInvariant, Steps, StepInvariant
  <2>3. NoClientLost'
    BY <2>1 DEF Continued, TypeOK, NoClientLost, StepInvariant
  <2>4. StepInvariant'
    BY <2>1 DEF Continued, TypeOK, StepInvariant, OneSelection
  <2>5. OneSelection' /\ DisposedIsFinal'
    BY <2>1
        DEF Continued, TypeOK, OneSelection, DisposedIsFinal, StepInvariant, NoClientLost
  <2>6. CallsKeepTheirClient'
    BY <2>1, RunningKeepsCalls DEF Continued
  <2>7. QED
    BY <2>1, <2>2, <2>3, <2>4, <2>5, <2>6
<1>2. CASE MutateRefused
  <2> USE <1>2, SessionAssumption
      DEF SessionInvariant, MutateRefused, selection, cleanup, cache, flags, callVars
  <2>1. Returned
    BY ReturnFacts
  <2>2. TypeOK'
    BY <2>1 DEF Returned, TypeOK, LockInvariant, Steps, StepInvariant
  <2>3. NoClientLost'
    BY <2>1 DEF Returned, TypeOK, NoClientLost, StepInvariant
  <2>4. StepInvariant'
    BY <2>1 DEF Returned, TypeOK, StepInvariant, OneSelection
  <2>5. OneSelection' /\ DisposedIsFinal'
    BY <2>1 DEF Returned, TypeOK, OneSelection, DisposedIsFinal, StepInvariant, NoClientLost
  <2>6. CallsKeepTheirClient'
    BY <2>1, RunningKeepsCalls DEF Returned
  <2>7. QED
    BY <2>1, <2>2, <2>3, <2>4, <2>5, <2>6
<1>3. CASE MutationSettles
  <2>1. ASSUME step = "mutating", client # None, BeginClose, Goto("closing"),
    mutationFailure' \in BOOLEAN,
               UNCHANGED <<run, shutdown, disposed, callVars>>
        PROVE  SessionInvariant'
    <3> USE <2>1, SessionAssumption
        DEF SessionInvariant, MutationSettles, BeginClose, ClearEngineRecords,
            EmptyCache, Present, selection, cleanup, cache, flags, callVars
    <3>1. Continued("closing") /\ previous' = previous
      BY GotoFacts
    <3>2. TypeOK'
      BY <3>1 DEF Continued, TypeOK, LockInvariant, Steps, StepInvariant
    <3>3. NoClientLost'
      BY <3>1 DEF Continued, TypeOK, NoClientLost, StepInvariant
    <3>4. StepInvariant'
      BY <3>1 DEF Continued, TypeOK, StepInvariant, OneSelection
    <3>5. OneSelection' /\ DisposedIsFinal'
      BY <3>1
          DEF Continued, TypeOK, OneSelection, DisposedIsFinal, StepInvariant,
              NoClientLost
    <3>6. CallsKeepTheirClient'
      BY <3>1, RunningKeepsCalls DEF Continued
    <3>7. QED
      BY <3>1, <3>2, <3>3, <3>4, <3>5, <3>6
  <2>2. ASSUME NEW result \in {"ok", "failed"}, step = "mutating", Return(result),
    mutationFailure' \in BOOLEAN,
               UNCHANGED <<selection, cleanup, cache, shutdown, disposed, callVars>>
        PROVE  SessionInvariant'
    <3> USE <2>2, SessionAssumption
        DEF SessionInvariant, MutationSettles, BeginClose, ClearEngineRecords,
            EmptyCache, Present, selection, cleanup, cache, flags, callVars
    <3>1. Returned
      BY ReturnFacts
    <3>2. TypeOK'
      BY <3>1 DEF Returned, TypeOK, LockInvariant, Steps, StepInvariant
    <3>3. NoClientLost'
      BY <3>1 DEF Returned, TypeOK, NoClientLost, StepInvariant
    <3>4. StepInvariant'
      BY <3>1 DEF Returned, TypeOK, StepInvariant, OneSelection
    <3>5. OneSelection' /\ DisposedIsFinal'
      BY <3>1
          DEF Returned, TypeOK, OneSelection, DisposedIsFinal, StepInvariant,
              NoClientLost
    <3>6. CallsKeepTheirClient'
      BY <3>1, RunningKeepsCalls DEF Returned
    <3>7. QED
      BY <3>1, <3>2, <3>3, <3>4, <3>5, <3>6
  <2>3. QED
    BY <1>3, <2>1, <2>2
        DEF MutationSettles, BeginClose, ClearEngineRecords, EmptyCache, Present,
            selection, cleanup, cache, flags, callVars
<1>4. CASE Reset
  <2> USE <1>4, SessionAssumption
      DEF SessionInvariant, Reset, ClearSnapshot, EmptyCache, selection, cleanup, cache,
          flags, callVars
  <2>1. Returned
    BY ReturnFacts
  <2>2. TypeOK'
    BY ZenonT(40), <2>1 DEF Returned, TypeOK, LockInvariant, Steps, StepInvariant
  <2>3. NoClientLost'
    BY <2>1 DEF Returned, TypeOK, NoClientLost, StepInvariant
  <2>4. StepInvariant'
    BY <2>1 DEF Returned, TypeOK, StepInvariant, OneSelection
  <2>5. OneSelection' /\ DisposedIsFinal'
    BY <2>1 DEF Returned, TypeOK, OneSelection, DisposedIsFinal, StepInvariant, NoClientLost
  <2>6. CallsKeepTheirClient'
    BY <2>1, RunningKeepsCalls DEF Returned
  <2>7. QED
    BY <2>1, <2>2, <2>3, <2>4, <2>5, <2>6
<1>5. QED
  BY <1>1, <1>2, <1>3, <1>4

-----------------------------------------------------------------------------
(* Every step, or a stutter, keeps the invariant.                           *)
LEMMA StepPreservesSessionInvariant ==
    ASSUME SessionInvariant, [Next]_vars
    PROVE  SessionInvariant'
<1>1. LockInvariant'
  BY StepKeepsLock, StepPreservesInvariant DEF SessionInvariant
<1>2. CASE \E c \in Calls : CallSteps(c)
  BY <1>1, <1>2, CallPreservesInvariant
<1>3. CASE \E kind \in Kinds : Request(kind)
  BY <1>1, <1>3, RequestPreservesInvariant
<1>4. CASE BeginShutdown \/ MutationCleanupResolves
  BY <1>1, <1>4, FlagsPreserveInvariant
<1>5. CASE HeadSteps
  <2>1. CASE RefuseEarly \/ Start \/ Drained
    BY <1>1, <2>1, AdmissionPreservesInvariant
  <2>2. CASE RetryPending \/ GiveUpPending \/ RetryResources
    BY <1>1, <2>2, CleanupPreservesInvariant
  <2>3. CASE OpenSteps
    BY <1>1, <2>3, OpenPreservesInvariant
  <2>4. CASE CloseSteps
    BY <1>1, <2>4, ClosePreservesInvariant
  <2>5. CASE Mutate \/ MutateRefused \/ MutationSettles \/ Reset
    BY <1>1, <2>5, MutationPreservesInvariant
  <2>6. QED
    BY <1>5, <2>1, <2>2, <2>3, <2>4, <2>5 DEF HeadSteps
<1>6. CASE UNCHANGED vars
  <2> USE <1>6
      DEF vars, lockVars, selection, cleanup, cache, flags, callVars, queue, locals,
                   SessionInvariant
  <2>1. TypeOK'
    BY <1>1 DEF TypeOK, LockInvariant
  <2>2. NoClientLost' /\ OneSelection' /\ DisposedIsFinal' /\ CallsKeepTheirClient'
    BY DEF NoClientLost, OneSelection, DisposedIsFinal, CallsKeepTheirClient
  <2>3. StepInvariant'
    BY DEF StepInvariant, Kind, DisposeQueued
  <2>4. QED
    BY <1>1, <2>1, <2>2, <2>3
<1>7. QED
  BY <1>2, <1>3, <1>4, <1>5, <1>6 DEF Next

-----------------------------------------------------------------------------
(* The replay cache, and what an unfinished external mutation forbids       *)

(* An observation belongs to an admitted call, and one that a change        *)
(* outdated, or may still outdate, was begun under an invalidated cache.    *)
ObservationsAreFenced ==
    \A c \in Calls :
        /\ observing[c] # "nothing" => callState[c] = "admitted"
        /\ observing[c] \in {"stale", "mutation"} => invalidated

(* An invalidated cache is empty, so an answer outdates nothing in it.       *)
EntriesAreFresh ==
    /\ "stale" \notin entries
    /\ invalidated => entries = {}

(* The steps of an open that took the selection away.                       *)
Restoring == {"retire", "start", "commit", "failed", "restore", "restoreFailed"}

(* While an open may still restore the previous target, the cache is of that *)
(* target.                                                                  *)
StagedFollowsSelection ==
    /\ CacheMatchesSelection
    /\ step \in Restoring /\ previous # None => staged \in {None, previous}

(* The steps of an open that looked for an unfinished mutation.             *)
Unfenced ==
    {"resources", "open", "openResources", "admitResources", "dropResources"} \cup Restoring

(* A mutation begins without app resources and ends without a client; only  *)
(* an open that found no mutation unfinished selects again.                 *)
MutationIsFenced ==
    /\ step \in Unfenced \/ (step = "closing" /\ Kind = "openResources") => ~mutationFailure
    /\ phase # "queued" /\ Kind = "mutate" => resource = None
    /\ NothingSelectedUnderMutation

(* Past its drain a transition finds no observation under way.              *)
LEMMA NothingObserved ==
    ASSUME SessionInvariant, ObservationsAreFenced, phase = "running"
    PROVE  \A c \in Calls : observing[c] = "nothing"
  BY DEF SessionInvariant, TypeOK, LockInvariant, TransitionIsAlone, ObservationsAreFenced,
         Registered

(* What a transition may do to the cache: nothing until it runs alone, then *)
(* empty it or add what it imports.                                         *)
TransitionCaches ==
    /\ UNCHANGED <<callVars, callState>>
    /\ UNCHANGED cache \/ phase = "running"
    /\ entries' \subseteq entries \cup {"fresh"}
    /\ invalidated' => entries' = {} \/ UNCHANGED cache

LEMMA HeadCaches ==
    ASSUME SessionInvariant, HeadSteps
    PROVE  TransitionCaches
<1> USE DEF TransitionCaches, Goto, Return, SettleTransition, SettleEarly, HeadSettles,
            ClearSnapshot, InvalidateSnapshot, ClearEngineRecords, EmptyCache, cache, callVars,
            lockVars
<1>1. CASE RefuseEarly \/ Start \/ Drained
  BY <1>1 DEF RefuseEarly, Start, Drained, StartDrain, DrainDone
<1>2. CASE RetryPending \/ GiveUpPending \/ RetryResources
  BY <1>2 DEF RetryPending, GiveUpPending, RetryResources
<1>3. CASE OpenSteps
  <2> USE DEF SessionInvariant, StepInvariant, ImportSnapshot, SelectSnapshot, Kept
  <2>1. CASE FastPath
    BY <2>1 DEF FastPath
  <2>2. CASE TakeSelection \/ RetirePrevious \/ RetirePreviousFails \/ AbandonStart
    BY <2>2 DEF TakeSelection, RetirePrevious, RetirePreviousFails, AbandonStart
  <2>3. CASE StartCandidate
    BY <2>3 DEF StartCandidate
  <2>4. CASE Commit
    BY <2>4 DEF Commit
  <2>5. CASE CommitFails \/ ImportRefused
    BY <2>5 DEF CommitFails, ImportRefused, ImportFails
  <2>6. CASE RetireCandidate \/ RetireCandidateFails \/ Restore \/ RetireRestored
    BY <2>6 DEF RetireCandidate, RetireCandidateFails, Restore, RetireRestored
  <2>7. QED
    BY <1>3, <2>1, <2>2, <2>3, <2>4, <2>5, <2>6 DEF OpenSteps
<1>4. CASE CloseSteps
  BY <1>4 DEF SessionInvariant, StepInvariant, BeginClose, CloseSteps, Close, SaveFails,
              CloseSettles, StartResources, AdmitResources, SelectResources,
              SelectResourcesFails, DropResources
<1>5. CASE Mutate \/ MutateRefused \/ MutationSettles \/ Reset
  BY <1>5 DEF SessionInvariant, StepInvariant, BeginClose, Mutate, MutateRefused,
              MutationSettles, Reset
<1>6. QED
  BY <1>1, <1>2, <1>3, <1>4, <1>5 DEF HeadSteps

(* No step lets an outdated observation, or an outdated entry, count.       *)
LEMMA StepKeepsCacheFresh ==
    ASSUME SessionInvariant, ObservationsAreFenced, EntriesAreFresh, [Next]_vars
    PROVE  ObservationsAreFenced' /\ EntriesAreFresh'
<1> USE DEF ObservationsAreFenced, EntriesAreFresh
<1>1. /\ observing \in [Calls -> {"nothing", "fresh", "stale", "mutation"}]
      /\ callState \in [Calls -> {"idle", "waiting", "admitted", "nested"}]
  BY DEF SessionInvariant, TypeOK, LockInvariant, LockTypeOK
<1>2. CASE UNCHANGED <<observing, callState, cache>>
  BY <1>2 DEF cache
<1>3. ASSUME NEW c \in Calls, CallSteps(c)
      PROVE  ObservationsAreFenced' /\ EntriesAreFresh'
  <2>1. CASE InvokeCall(c) \/ CallReady(c)
    <3>1. /\ callState[c] = "idle"
          /\ callState' \in {[callState EXCEPT ![c] = "waiting"],
                              [callState EXCEPT ![c] = "admitted"]}
          /\ UNCHANGED <<observing, cache>>
      BY <2>1 DEF InvokeCall, CallReady, Invoke, InvokeReady, callVars
    <3>2. QED
      BY <1>1, <3>1 DEF cache
  <2>2. CASE AdmitCall(c)
    BY <1>1, <2>2 DEF AdmitCall, Admit, cache, callVars
  <2>3. CASE CancelCall(c) \/ SettleCall(c)
    <3>1. /\ observing[c] = "nothing"
          /\ callState' = [callState EXCEPT ![c] = "idle"]
          /\ UNCHANGED <<observing, cache>>
      BY <1>1, <2>3 DEF CancelCall, SettleCall, CancelWait, Settle, Deregister, callVars
    <3>2. QED
      BY <1>1, <3>1 DEF cache
  <2>4. CASE DispatchResource(c) \/ DispatchRead(c)
    <3>1. PICK worth \in {"fresh", "nothing"} :
             /\ callState[c] = "admitted"
             /\ observing' = [observing EXCEPT ![c] = worth]
             /\ UNCHANGED <<callState, cache>>
      BY <2>4 DEF DispatchResource, DispatchRead, Send, lockVars
    <3>2. QED
      BY <1>1, <3>1 DEF cache
  <2>5. CASE DispatchMutation(c)
    BY <1>1, <2>5 DEF DispatchMutation, Send, InvalidateSnapshot, EmptyCache, lockVars
  <2>6. CASE InvalidateExternally(c)
    BY <1>1, <2>6 DEF InvalidateExternally, Outdated, InvalidateSnapshot, EmptyCache, lockVars
  <2>7. CASE AnswerRead(c)
    BY <1>1, <2>7 DEF AnswerRead, RecordSnapshot, Kept, lockVars, cache
  <2>8. CASE AnswerMutation(c)
    BY <1>1, <2>8 DEF AnswerMutation, Outdated, lockVars
  <2>9. QED
    BY <1>3, <2>1, <2>2, <2>3, <2>4, <2>5, <2>6, <2>7, <2>8 DEF CallSteps
<1>4. CASE \E kind \in Kinds : Request(kind)
  BY <1>2, <1>4 DEF Request, Serialize, callVars
<1>5. CASE BeginShutdown \/ MutationCleanupResolves
  BY <1>2, <1>5 DEF BeginShutdown, MutationCleanupResolves, lockVars, callVars
<1>6. CASE HeadSteps
  <2>1. TransitionCaches
    BY <1>6, HeadCaches
  <2>2. CASE phase = "running"
    BY <2>1, <2>2, NothingObserved DEF TransitionCaches, callVars, cache
  <2>3. CASE phase # "running"
    BY <1>2, <2>1, <2>3 DEF TransitionCaches, callVars
  <2>4. QED
    BY <2>2, <2>3
<1>7. CASE UNCHANGED vars
  BY <1>2, <1>7 DEF vars, lockVars, callVars
<1>8. QED
  BY <1>3, <1>4, <1>5, <1>6, <1>7 DEF Next

(* The cache follows the selection, and the target that may be restored.    *)
LEMMA StepKeepsStaged ==
    ASSUME SessionInvariant, ObservationsAreFenced, StagedFollowsSelection, [Next]_vars
    PROVE  StagedFollowsSelection'
<1> USE DEF StagedFollowsSelection, CacheMatchesSelection, Restoring
<1>1. CASE UNCHANGED <<target, staged, step, previous>>
  BY <1>1
<1>2. /\ (step # "none") = (phase = "running")
      /\ step = "resources" => Kind \in {"open", "openResources", "reset"}
  BY DEF SessionInvariant, StepInvariant
<1>3. ASSUME NEW c \in Calls, CallSteps(c)
      PROVE  StagedFollowsSelection'
  <2>1. UNCHANGED <<target, step, previous>>
    BY <1>3 DEF CallSteps, InvokeCall, AdmitCall, CancelCall, CallReady, DispatchResource,
                DispatchRead, DispatchMutation, InvalidateExternally, AnswerRead,
                AnswerMutation, SettleCall, Send, selection, locals
  <2>2. staged' \in {staged, None} \/ (staged' = target /\ observing[c] # "nothing")
    BY <1>3 DEF CallSteps, InvokeCall, AdmitCall, CancelCall, CallReady, DispatchResource,
                DispatchRead, DispatchMutation, InvalidateExternally, AnswerRead,
                AnswerMutation, SettleCall, RecordSnapshot, InvalidateSnapshot, EmptyCache,
                cache
  <2>3. QED
    BY <1>2, <2>1, <2>2, NothingObserved
<1>4. CASE \E kind \in Kinds : Request(kind)
  BY <1>1, <1>4 DEF Request, selection, cache, locals
<1>5. CASE BeginShutdown \/ MutationCleanupResolves
  BY <1>1, <1>5 DEF BeginShutdown, MutationCleanupResolves, selection, cache, locals
<1>6. CASE HeadSteps
  <2> USE <1>2 DEF Goto, Return, Leave, SettleTransition, StartDrain, EmptyCache, ClearSnapshot,
                   ClearEngineRecords, InvalidateSnapshot, ImportSnapshot, BeginClose,
                   selection, cache, locals
  <2>1. CASE RefuseEarly \/ Start \/ Drained
    BY <2>1 DEF RefuseEarly, Start, Drained
  <2>2. CASE RetryPending \/ GiveUpPending \/ RetryResources
    BY <2>2 DEF RetryPending, GiveUpPending, RetryResources
  <2>3. CASE OpenSteps
    <3>1. CASE FastPath
      BY <3>1 DEF FastPath
    <3>2. CASE TakeSelection \/ RetirePrevious \/ RetirePreviousFails \/ AbandonStart
      BY <3>2 DEF TakeSelection, RetirePrevious, RetirePreviousFails, AbandonStart
    <3>3. CASE StartCandidate
      BY <3>3 DEF StartCandidate
    <3>4. CASE Commit
      BY <3>4 DEF Commit, SelectSnapshot
    <3>5. CASE CommitFails \/ ImportRefused
      BY <3>5 DEF CommitFails, ImportRefused, ImportFails
    <3>6. CASE RetireCandidate \/ RetireCandidateFails \/ Restore \/ RetireRestored
      BY <3>6 DEF RetireCandidate, RetireCandidateFails, Restore, RetireRestored
    <3>7. QED
      BY <2>3, <3>1, <3>2, <3>3, <3>4, <3>5, <3>6 DEF OpenSteps
  <2>4. CASE CloseSteps
    BY <2>4 DEF CloseSteps, Close, SaveFails, CloseSettles, StartResources, AdmitResources,
                SelectResources, SelectResourcesFails, DropResources
  <2>5. CASE Mutate \/ MutateRefused \/ MutationSettles \/ Reset
    BY <2>5 DEF Mutate, MutateRefused, MutationSettles, Reset
  <2>6. QED
    BY <1>6, <2>1, <2>2, <2>3, <2>4, <2>5 DEF HeadSteps
<1>7. CASE UNCHANGED vars
  BY <1>1, <1>7 DEF vars, selection, cache, locals
<1>8. QED
  BY <1>3, <1>4, <1>5, <1>6, <1>7 DEF Next

(* Nothing is selected while a mutation is unfinished, nor becomes so.      *)
LEMMA StepKeepsMutationFenced ==
    ASSUME SessionInvariant, MutationIsFenced, [Next]_vars
    PROVE  MutationIsFenced'
<1> USE DEF MutationIsFenced, NothingSelectedUnderMutation, Unfenced, Restoring, Kind
<1>1. /\ (step # "none") = (phase = "running")
      /\ mutationFailure \in BOOLEAN
      /\ step \in Restoring \cup {"open"} => Kind = "open"
      /\ step \in {"openResources", "admitResources", "dropResources"} => Kind = "openResources"
      /\ step \in {"mutate", "mutating"} => Kind = "mutate"
      /\ step = "close" => Kind \in {"close", "dispose"}
      /\ step = "resources" => Kind \in {"open", "openResources", "reset"}
  BY DEF SessionInvariant, StepInvariant, TypeOK
<1>2. CASE /\ UNCHANGED <<client, resource, phase, step>>
           /\ mutationFailure' \in {mutationFailure, FALSE}
           /\ phase # "queued" => Kind' = Kind
  <2>1. step \in Unfenced \/ (step = "closing" /\ Kind = "openResources") => phase = "running"
    BY <1>1 DEF Unfenced
  <2>2. /\ step' = step
        /\ step # "none" => Kind' = Kind
    BY <1>1, <1>2
  <2>3. step' \in Unfenced \/ (step' = "closing" /\ Kind' = "openResources") => ~mutationFailure'
    BY <1>1, <1>2, <2>2 DEF Unfenced
  <2>4. phase' # "queued" /\ Kind' = "mutate" => resource' = None
    BY <1>2
  <2>5. mutationFailure' => client' = None /\ resource' = None
    BY <1>1, <1>2
  <2>6. QED
    BY <2>3, <2>4, <2>5
<1>3. ASSUME NEW c \in Calls, CallSteps(c)
      PROVE  MutationIsFenced'
  <2>1. UNCHANGED <<selection, flags, phase, ops, step>>
    BY <1>3 DEF CallSteps, InvokeCall, AdmitCall, CancelCall, CallReady, DispatchResource,
                DispatchRead, DispatchMutation, InvalidateExternally, AnswerRead,
                AnswerMutation, SettleCall, Send, Invoke, InvokeReady, Admit, CancelWait,
                Settle, Deregister, queue, lockVars
  <2>2. QED
    BY <1>2, <2>1 DEF selection, flags
<1>4. CASE \E kind \in Kinds : Request(kind)
  <2>1. PICK kind \in Kinds : Request(kind)
    BY <1>4
  <2>2. ops \in Seq(Kinds) /\ (phase # "queued" => Len(ops) # 0)
    BY DEF SessionInvariant, TypeOK, LockInvariant, LockTypeOK
  <2>3. phase # "queued" => Kind' = Kind
    BY <2>1, <2>2, AppendKeepsHead DEF Request
  <2>4. QED
    BY <1>2, <2>1, <2>3 DEF Request, Serialize, selection
<1>5. CASE BeginShutdown \/ MutationCleanupResolves
  BY <1>2, <1>5 DEF BeginShutdown, MutationCleanupResolves, selection, lockVars, queue
<1>6. CASE HeadSteps
  <2> USE <1>1 DEF Goto, Return, Leave, SettleTransition, HeadSettles, BeginClose, selection,
                   flags, lockVars, queue, locals
  <2>1. CASE RefuseEarly \/ Start \/ Drained
    BY <2>1 DEF RefuseEarly, Start, Drained, SettleEarly, StartDrain, DrainDone
  <2>2. CASE RetryPending \/ GiveUpPending \/ RetryResources
    BY <2>2 DEF RetryPending, GiveUpPending, RetryResources
  <2>3. CASE OpenSteps
    BY <2>3 DEF OpenSteps, FastPath, TakeSelection, RetirePrevious, RetirePreviousFails,
                AbandonStart, StartCandidate, Commit, CommitFails, ImportRefused, ImportFails,
                RetireCandidate, RetireCandidateFails, Restore, RetireRestored
  <2>4. CASE CloseSteps
    <3>1. CASE Close \/ SaveFails \/ CloseSettles
      BY <3>1 DEF Close, SaveFails, CloseSettles
    <3>2. CASE StartResources
      BY <3>2 DEF StartResources
    <3>3. CASE AdmitResources
      BY <3>3 DEF AdmitResources
    <3>4. CASE SelectResources
      <4>1. ~mutationFailure' /\ step' = "none" /\ phase' = "queued"
        BY <3>4 DEF SelectResources
      <4>2. QED
        BY <4>1
    <3>5. CASE SelectResourcesFails \/ DropResources
      BY <3>5 DEF SelectResourcesFails, DropResources
    <3>6. QED
      BY <2>4, <3>1, <3>2, <3>3, <3>4, <3>5 DEF CloseSteps
  <2>5. CASE Mutate \/ MutateRefused \/ MutationSettles \/ Reset
    BY <2>5 DEF Mutate, MutateRefused, MutationSettles, Reset
  <2>6. QED
    BY <1>6, <2>1, <2>2, <2>3, <2>4, <2>5 DEF HeadSteps
<1>7. CASE UNCHANGED vars
  BY <1>2, <1>7 DEF vars, selection, flags, lockVars, queue
<1>8. QED
  BY <1>3, <1>4, <1>5, <1>6, <1>7 DEF Next

-----------------------------------------------------------------------------
(* What a close that reports success has closed                             *)

(* Only a reset is at the step of a reset.                                  *)
ResetIsReset == step = "reset" => Kind = "reset"

(* No step takes another transition to the step of a reset.                 *)
LEMMA StepKeepsReset ==
    ASSUME SessionInvariant, ResetIsReset, [Next]_vars
    PROVE  ResetIsReset'
<1> USE DEF ResetIsReset
<1>1. /\ (step # "none") = (phase = "running")
      /\ step = "resources" => Kind \in {"open", "openResources", "reset"}
      /\ ops \in Seq(Kinds) /\ (phase # "queued" => Len(ops) # 0)
  BY DEF SessionInvariant, StepInvariant, TypeOK, LockInvariant, LockTypeOK
<1>2. CASE UNCHANGED step /\ (phase # "queued" => Kind' = Kind)
  BY <1>1, <1>2
<1>3. ASSUME NEW c \in Calls, CallSteps(c)
      PROVE  ResetIsReset'
  <2>1. UNCHANGED <<ops, step>>
    BY <1>3 DEF CallSteps, InvokeCall, AdmitCall, CancelCall, CallReady, DispatchResource,
                DispatchRead, DispatchMutation, InvalidateExternally, AnswerRead,
                AnswerMutation, SettleCall, Send, queue
  <2>2. QED
    BY <2>1 DEF Kind
<1>4. CASE \E kind \in Kinds : Request(kind)
  <2>1. PICK kind \in Kinds : Request(kind)
    BY <1>4
  <2>2. phase # "queued" => Kind' = Kind
    BY <1>1, <2>1, AppendKeepsHead DEF Request, Kind
  <2>3. QED
    BY <1>2, <2>1, <2>2 DEF Request
<1>5. CASE BeginShutdown \/ MutationCleanupResolves
  BY <1>5 DEF BeginShutdown, MutationCleanupResolves, queue, Kind
<1>6. CASE HeadSteps
  <2>1. step' = "reset" => step = "resources" /\ Kind = "reset" /\ UNCHANGED ops
    BY <1>1, <1>6 DEF HeadSteps, RefuseEarly, Start, Drained, RetryPending, GiveUpPending,
         RetryResources, OpenSteps, FastPath, TakeSelection, RetirePrevious,
         RetirePreviousFails, AbandonStart, StartCandidate, Commit, CommitFails,
         ImportRefused, ImportFails, RetireCandidate, RetireCandidateFails, Restore,
         RetireRestored, CloseSteps, Close, SaveFails, CloseSettles, StartResources,
         AdmitResources, SelectResources, SelectResourcesFails, DropResources, Mutate,
         MutateRefused, MutationSettles, Reset, Goto, Return, Leave, StartDrain, queue
  <2>2. QED
    BY <2>1 DEF Kind
<1>7. CASE UNCHANGED vars
  BY <1>7 DEF vars, queue, Kind
<1>8. QED
  BY <1>3, <1>4, <1>5, <1>6, <1>7 DEF Next

(* Only the last step of a close or a disposal settles it with success, and *)
(* it leaves nothing open: at that step every open client is pending.       *)
LEMMA SuccessfulCloseLeavesNothing ==
    ASSUME SessionInvariant, ResetIsReset, [Next]_vars,
           settled' # settled, Kind \in {"close", "dispose"}, outcome' = "ok"
    PROVE  open' = {}
<1>1. /\ settled \in Nat
      /\ pending \in Clients \cup {None} /\ None \notin Clients
      /\ open \subseteq Clients
  BY SessionAssumption DEF SessionInvariant, TypeOK, LockInvariant, LockTypeOK
<1>2. CloseSettles
  <2>1. HeadSteps
    BY DEF Next, vars, lockVars, CallSteps, InvokeCall, AdmitCall, CancelCall, CallReady,
           DispatchResource, DispatchRead, DispatchMutation, InvalidateExternally, AnswerRead,
           AnswerMutation, SettleCall, Send, Invoke, InvokeReady, Admit, CancelWait, Settle,
           Deregister, Request, Serialize, BeginShutdown, MutationCleanupResolves
  <2>2. /\ step \in {"open", "retire", "start", "commit", "failed", "restore",
                     "restoreFailed"} => Kind = "open"
        /\ step \in {"openResources", "admitResources", "dropResources"}
             => Kind = "openResources"
        /\ step \in {"mutate", "mutating"} => Kind = "mutate"
        /\ step = "pending" => Kind \notin {"close", "dispose"}
        /\ step = "resources" => Kind \in {"open", "openResources", "reset"}
        /\ step = "reset" => Kind = "reset"
    BY DEF SessionInvariant, StepInvariant, ResetIsReset
  <2>3. ~OpenSteps
    BY <2>2 DEF OpenSteps, FastPath, TakeSelection, RetirePrevious, RetirePreviousFails,
         AbandonStart, StartCandidate, Commit, CommitFails, ImportRefused, ImportFails,
         RetireCandidate, RetireCandidateFails, Restore, RetireRestored
  <2>4. ~(RetryPending \/ GiveUpPending \/ RetryResources \/ Mutate \/ MutateRefused
          \/ MutationSettles \/ Reset)
    BY <2>2 DEF RetryPending, GiveUpPending, RetryResources, Mutate, MutateRefused,
                MutationSettles, Reset
  <2>5. ~(RefuseEarly \/ Start \/ Drained)
    BY DEF RefuseEarly, Start, Drained, StartDrain, DrainDone, Leave
  <2>6. ~(Close \/ SaveFails \/ StartResources \/ AdmitResources \/ SelectResources
          \/ SelectResourcesFails \/ DropResources)
    BY <2>2 DEF Close, SaveFails, StartResources, AdmitResources, SelectResources,
                SelectResourcesFails, DropResources, Goto, Return, Leave, lockVars
  <2>7. QED
    BY <2>1, <2>3, <2>4, <2>5, <2>6 DEF HeadSteps, CloseSteps
<1>3. client = None /\ resource = None /\ run = None
  BY <1>2 DEF CloseSettles, SessionInvariant, StepInvariant
<1>4. open \subseteq pendingRes \cup {pending}
  BY <1>1, <1>3 DEF SessionInvariant, NoClientLost
<1>5. open' = open \ (pendingRes \cup {pending})
  BY <1>2 DEF CloseSettles, CloseOwners, Return, Leave
<1>6. QED
  BY <1>4, <1>5

-----------------------------------------------------------------------------
(* The inductive invariant of the session holds in every reachable state.   *)
THEOREM SessionInvariantHolds == Spec => []SessionInvariant
<1>1. Init => SessionInvariant
  BY InitEstablishesSessionInvariant
<1>2. SessionInvariant /\ [Next]_vars => SessionInvariant'
  BY StepPreservesSessionInvariant
<1>3. QED
  BY <1>1, <1>2, PTL DEF Spec

(* Every variable of the session stays within its range.                     *)
THEOREM SessionTypeCorrect == Spec => []TypeOK
<1>1. SessionInvariant => TypeOK
  BY DEF SessionInvariant
<1>2. QED
  BY <1>1, SessionInvariantHolds, PTL

(* Each open client has exactly one owner at every await.                    *)
THEOREM ClientsAreNeverLost == Spec => []NoClientLost
<1>1. SessionInvariant => NoClientLost
  BY DEF SessionInvariant
<1>2. QED
  BY <1>1, SessionInvariantHolds, PTL

(* Where the head transition is determines what it holds.                    *)
THEOREM HoldingsFollowTheStep == Spec => []StepInvariant
<1>1. SessionInvariant => StepInvariant
  BY DEF SessionInvariant
<1>2. QED
  BY <1>1, SessionInvariantHolds, PTL

(* A binary and an app resource root are never selected together.            *)
THEOREM OneSelectionOnly == Spec => []OneSelection
<1>1. SessionInvariant => OneSelection
  BY DEF SessionInvariant
<1>2. QED
  BY <1>1, SessionInvariantHolds, PTL

(* No client is taken away from a call it serves.                            *)
THEOREM ClientsOutliveTheirCalls == Spec => []CallsKeepTheirClient
<1>1. SessionInvariant => CallsKeepTheirClient
  BY DEF SessionInvariant
<1>2. QED
  BY <1>1, SessionInvariantHolds, PTL

(* After a successful disposal no provider client exists.                    *)
THEOREM DisposalIsFinal == Spec => []DisposedIsFinal
<1>1. SessionInvariant => DisposedIsFinal
  BY DEF SessionInvariant
<1>2. QED
  BY <1>1, SessionInvariantHolds, PTL

(* The cache never answers with an observation a change may have outdated.   *)
THEOREM ReplayIsAlwaysFresh == Spec => []ReplayIsFresh
<1>1. Init => ObservationsAreFenced /\ EntriesAreFresh
  BY DEF Init, ObservationsAreFenced, EntriesAreFresh
<1>2. SessionInvariant /\ ObservationsAreFenced /\ EntriesAreFresh /\ [Next]_vars
        => ObservationsAreFenced' /\ EntriesAreFresh'
  BY StepKeepsCacheFresh
<1>3. EntriesAreFresh => ReplayIsFresh
  BY DEF EntriesAreFresh, ReplayIsFresh
<1>4. QED
  BY <1>1, <1>2, <1>3, SessionInvariantHolds, PTL DEF Spec

(* Cached observations belong to the selected target, whatever failed.       *)
THEOREM CacheFollowsSelection == Spec => []CacheMatchesSelection
<1>1. Init => ObservationsAreFenced /\ EntriesAreFresh /\ StagedFollowsSelection
  BY DEF Init, ObservationsAreFenced, EntriesAreFresh, StagedFollowsSelection,
         CacheMatchesSelection, Restoring
<1>2. SessionInvariant /\ ObservationsAreFenced /\ EntriesAreFresh /\ [Next]_vars
        => ObservationsAreFenced' /\ EntriesAreFresh'
  BY StepKeepsCacheFresh
<1>3. SessionInvariant /\ ObservationsAreFenced /\ StagedFollowsSelection /\ [Next]_vars
        => StagedFollowsSelection'
  BY StepKeepsStaged
<1>4. StagedFollowsSelection => CacheMatchesSelection
  BY DEF StagedFollowsSelection
<1>5. QED
  BY <1>1, <1>2, <1>3, <1>4, SessionInvariantHolds, PTL DEF Spec

(* Nothing is selected while an external mutation owes its cleanup.          *)
THEOREM UnfinishedMutationSelectsNothing == Spec => []NothingSelectedUnderMutation
<1>1. Init => MutationIsFenced
  BY DEF Init, LockInit, MutationIsFenced, NothingSelectedUnderMutation, Unfenced, Restoring
<1>2. SessionInvariant /\ MutationIsFenced /\ [Next]_vars => MutationIsFenced'
  BY StepKeepsMutationFenced
<1>3. MutationIsFenced => NothingSelectedUnderMutation
  BY DEF MutationIsFenced
<1>4. QED
  BY <1>1, <1>2, <1>3, SessionInvariantHolds, PTL DEF Spec

(* A close that reports success has closed every client ever created.        *)
THEOREM SuccessfulCloseReleasesEverything == Spec => CloseReleasesEverything
<1>1. Init => ResetIsReset
  BY DEF Init, ResetIsReset
<1>2. SessionInvariant /\ ResetIsReset /\ [Next]_vars => ResetIsReset'
  BY StepKeepsReset
<1>3. SessionInvariant /\ ResetIsReset /\ [Next]_vars
        => [(settled' # settled /\ Kind \in {"close", "dispose"} /\ outcome' = "ok")
              => open' = {}]_vars
  BY SuccessfulCloseLeavesNothing
<1>4. QED
  BY <1>1, <1>2, <1>3, SessionInvariantHolds, PTL DEF Spec, CloseReleasesEverything
-----------------------------------------------------------------------------
(* The shutdown of the runtime over the session it ends                     *)

(* What the runtime does to its session is a step of the session.           *)
LEMMA ShutdownTakesSessionSteps ==
    ASSUME [ShutdownNext]_allVars
    PROVE  [Next]_vars
<1>1. CASE BeginAttempt
  BY <1>1 DEF BeginAttempt, Next
<1>2. CASE AttemptSteps
  <2>1. CASE CloseAll \/ Dispose
    BY <2>1 DEF CloseAll, Dispose, Ask, Next, Kinds
  <2>2. QED
    BY <1>2, <2>1 DEF AttemptSteps, PrepareFails, Reject, OwnerAnswers
<1>3. CASE ToolRequests
  BY <1>3 DEF ToolRequests, Next
<1>4. CASE SessionStep
  BY <1>4 DEF SessionStep, Next
<1>5. CASE UNCHANGED allVars
  BY <1>5 DEF allVars
<1>6. QED
  BY <1>1, <1>2, <1>3, <1>4, <1>5 DEF ShutdownNext

(* An owner that was confirmed holds nothing; an attempt that was not       *)
(* rejected has asked all the others; and no disposal is requested before   *)
(* all were confirmed.                                                      *)
ShutdownInvariant ==
    /\ SessionInvariant
    /\ live \subseteq Owners \ closedOwners
    /\ attempt = "closing" /\ ~rejected => Owners \subseteq closing \cup closedOwners
    /\ DisposeQueued \/ disposed => Owners \subseteq closedOwners

(* Only a request of a disposal queues one.                                 *)
LEMMA RequestQueuesItsKind ==
    ASSUME SessionInvariant, NEW kind \in Kinds, Request(kind), DisposeQueued'
    PROVE  DisposeQueued \/ kind = "dispose"
<1>1. ops \in Seq(Kinds) /\ ops' = Append(ops, kind)
  BY DEF Request, SessionInvariant, TypeOK
<1>2. PICK i \in 1 .. Len(ops') : ops'[i] = "dispose"
  BY DEF DisposeQueued
<1>3. CASE i = Len(ops) + 1
  BY <1>1, <1>2, <1>3
<1>4. CASE i # Len(ops) + 1
  <2>1. i \in 1 .. Len(ops) /\ ops[i] = "dispose"
    BY <1>1, <1>2, <1>4
  <2>2. QED
    BY <2>1 DEF DisposeQueued
<1>5. QED
  BY <1>3, <1>4

(* The session seals the investigation for a disposal in its queue.         *)
LEMMA SessionSealsWhatIsQueued ==
    ASSUME SessionInvariant,
           HeadSteps \/ (\E c \in Calls : CallSteps(c)) \/ MutationCleanupResolves,
           (DisposeQueued \/ disposed)'
    PROVE  DisposeQueued \/ disposed
<1>1. ops \in Seq(Kinds) /\ (phase = "running" => Len(ops) # 0)
  BY DEF SessionInvariant, TypeOK, LockInvariant, LockTypeOK
<1>2. CASE UNCHANGED <<ops, disposed>>
  BY <1>2 DEF DisposeQueued
<1>3. CASE ops' = Tail(ops) /\ Len(ops) # 0 /\ (disposed' => disposed)
  BY <1>1, <1>3, TailKeepsDispose
<1>4. CASE ops' = Tail(ops) /\ Len(ops) # 0 /\ Kind = "dispose"
  BY <1>1, <1>4, HeadDisposeIsQueued
<1>5. CASE (\E c \in Calls : CallSteps(c)) \/ MutationCleanupResolves
  <2>1. UNCHANGED <<ops, disposed>>
    BY <1>5 DEF CallSteps, InvokeCall, AdmitCall, CancelCall, CallReady, DispatchResource,
                DispatchRead, DispatchMutation, Send, InvalidateExternally, AnswerRead,
                AnswerMutation, SettleCall, MutationCleanupResolves, flags, queue
  <2>2. QED
    BY <1>2, <2>1
<1>6. CASE HeadSteps
  <2> DEFINE Settles ==
        UNCHANGED ops \/ (ops' = Tail(ops) /\ (phase = "running" \/ settled < generation))
  <2> USE DEF Return, Leave, Goto, flags, queue, SettleTransition, SettleEarly, HeadSettles
  <2>1. CASE RefuseEarly \/ Start \/ Drained \/ RetryPending \/ GiveUpPending \/ RetryResources
             \/ Mutate \/ MutateRefused \/ MutationSettles \/ Reset
    <3>1. Settles /\ UNCHANGED disposed
      BY <2>1 DEF RefuseEarly, Start, Drained, RetryPending, GiveUpPending, RetryResources,
                  Mutate, MutateRefused, MutationSettles, Reset
    <3>2. QED
      BY <1>1, <1>2, <1>3, <3>1 DEF SessionInvariant, TypeOK, LockInvariant, LockTypeOK
  <2>2. CASE OpenSteps
    <3>1. Settles /\ UNCHANGED disposed
      BY <2>2
         DEF OpenSteps, FastPath, TakeSelection, RetirePrevious, RetirePreviousFails,
             AbandonStart, StartCandidate, Commit, CommitFails, ImportRefused, ImportFails,
             RetireCandidate, RetireCandidateFails, Restore, RetireRestored
    <3>2. QED
      BY <1>1, <1>2, <1>3, <3>1 DEF SessionInvariant, TypeOK, LockInvariant, LockTypeOK
  <2>3. CASE CloseSteps
    <3>1. CASE CloseSettles
      <4>1. /\ ops' = Tail(ops) /\ phase = "running"
            /\ disposed' => disposed \/ Kind = "dispose"
        BY Zenon, <3>1 DEF CloseSettles
      <4>2. QED
        BY <1>1, <1>3, <1>4, <4>1
    <3>2. CASE ~CloseSettles
      <4>1. Settles /\ UNCHANGED disposed
        BY <2>3, <3>2
           DEF CloseSteps, Close, SaveFails, StartResources, AdmitResources, SelectResources,
               SelectResourcesFails, DropResources
      <4>2. QED
        BY <1>1, <1>2, <1>3, <4>1 DEF SessionInvariant, TypeOK, LockInvariant, LockTypeOK
    <3>3. QED
      BY <3>1, <3>2
  <2>4. QED
    BY <1>6, <2>1, <2>2, <2>3 DEF HeadSteps
<1>7. QED
  BY <1>5, <1>6

LEMMA StepPreservesShutdownInvariant ==
    ASSUME ShutdownInvariant, [ShutdownNext]_allVars
    PROVE  ShutdownInvariant'
<1> USE DEF ShutdownInvariant
<1>1. SessionInvariant'
  BY ShutdownTakesSessionSteps, StepPreservesSessionInvariant
<1>2. "session" \notin Owners
  BY ShutdownAssumption
<1>3. CASE BeginAttempt \/ PrepareFails \/ Reject \/ UNCHANGED allVars
  <2>1. /\ UNCHANGED <<live, closedOwners, closing, rejected, ops, disposed>>
        /\ attempt' = attempt \/ attempt' # "closing"
    BY <1>3 DEF BeginAttempt, PrepareFails, Reject, BeginShutdown, allVars, shutdownVars,
                vars, flags, queue
  <2>2. QED
    BY <1>1, <2>1 DEF DisposeQueued
<1>4. CASE CloseAll
  <2>1. /\ closing' = AllOwners \ closedOwners /\ UNCHANGED <<live, closedOwners>>
        /\ UNCHANGED <<ops, disposed>> \/ (Request("close") /\ UNCHANGED disposed)
    BY <1>4 DEF CloseAll, NotClosed, Ask, Request, vars, flags, queue
  <2>2. (DisposeQueued \/ disposed)' => DisposeQueued \/ disposed
    BY <2>1, RequestQueuesItsKind DEF DisposeQueued, Kinds
  <2>3. QED
    BY <1>1, <2>1, <2>2 DEF AllOwners
<1>5. ASSUME NEW o \in Owners, OwnerAnswers(o)
      PROVE  ShutdownInvariant'
  <2>1. /\ UNCHANGED <<ops, disposed, attempt>>
        /\ closing' = closing \ {o}
        /\ ~rejected' => ~rejected
        /\ \/ closedOwners' = closedOwners \cup {o} /\ live' = live \ {o}
           \/ UNCHANGED <<closedOwners, live>> /\ rejected'
    BY Zenon, <1>5 DEF OwnerAnswers, Answered, ClosedAfter, vars, flags, queue
  <2>2. QED
    BY <1>1, <2>1 DEF DisposeQueued
<1>6. CASE Dispose
  <2>1. /\ attempt = "closing" /\ closing = {} /\ ~rejected
        /\ attempt' = "disposing" /\ UNCHANGED <<live, closedOwners>>
    BY <1>6 DEF Dispose, MayDispose
  <2>2. QED
    BY <1>1, <2>1
<1>7. CASE ToolRequests
  <2>1. PICK kind \in Kinds \ {"dispose"} : Request(kind)
    BY <1>7 DEF ToolRequests
  <2>2. (DisposeQueued \/ disposed)' => DisposeQueued \/ disposed
    BY <2>1, RequestQueuesItsKind DEF Request
  <2>3. QED
    BY <1>1, <1>7, <2>2 DEF ToolRequests
<1>8. CASE SessionStep
  <2>1. (DisposeQueued \/ disposed)' => DisposeQueued \/ disposed
    BY <1>8, SessionSealsWhatIsQueued DEF SessionStep
  <2>2. CASE UNCHANGED shutdownVars
    BY <1>1, <2>1, <2>2 DEF shutdownVars
  <2>3. CASE SessionAnswers
    <3>1. /\ UNCHANGED live /\ closedOwners' \in {closedOwners, closedOwners \cup {"session"}}
          /\ attempt' = "closing" =>
               /\ attempt = "closing" /\ closing' = closing \ {"session"}
               /\ ~rejected' => ~rejected
      BY <2>3 DEF SessionAnswers, Answered, ClosedAfter
    <3>2. QED
      BY <1>1, <1>2, <2>1, <3>1
  <2>4. QED
    BY <1>8, <2>2, <2>3 DEF SessionStep
<1>9. QED
  BY <1>3, <1>4, <1>5, <1>6, <1>7, <1>8 DEF ShutdownNext, AttemptSteps

(* The runtime only does to its session what the session allows, so what is *)
(* proved about every session holds for the one that is shut down           *)
(* (src/main/shutdown.ts, createShutdown).                                  *)
THEOREM ShutdownRunsItsSession == ShutdownSpec => Spec
<1>1. ShutdownInit => Init
  BY DEF ShutdownInit
<1>2. [ShutdownNext]_allVars => [Next]_vars
  BY ShutdownTakesSessionSteps
<1>3. QED
  BY <1>1, <1>2, PTL DEF ShutdownSpec, Spec

(* In every reachable state of the shutdown, confirmed owners hold nothing, *)
(* and no disposal is queued before all owners were confirmed.              *)
THEOREM ShutdownInvariantHolds == ShutdownSpec => []ShutdownInvariant
<1>1. ShutdownInit => ShutdownInvariant
  BY InitEstablishesSessionInvariant
     DEF ShutdownInit, ShutdownInvariant, Init, DisposeQueued
<1>2. ShutdownInvariant /\ [ShutdownNext]_allVars => ShutdownInvariant'
  BY StepPreservesShutdownInvariant
<1>3. QED
  BY <1>1, <1>2, PTL DEF ShutdownSpec

(* The investigation is disposed only when every owner has released what it *)
(* held and no provider client is open, across any number of attempts.      *)
THEOREM InvestigationClosesLast == ShutdownSpec => []InvestigationOutlivesOwners
<1>1. ShutdownInvariant => InvestigationOutlivesOwners
  BY DEF ShutdownInvariant, SessionInvariant, DisposedIsFinal, InvestigationOutlivesOwners
<1>2. QED
  BY <1>1, ShutdownInvariantHolds, PTL
=============================================================================
