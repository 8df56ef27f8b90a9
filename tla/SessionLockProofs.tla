-------------------------- MODULE SessionLockProofs --------------------------
(***************************************************************************)
(* Safety of the admission protocol for every set of calls and every       *)
(* number of transitions: LockInvariant is inductive, and SessionLock      *)
(* implements SessionExclusion.  Over the same protocol, for every set of  *)
(* tool requests: no reset runs between the admission of a request and the *)
(* end of its reply.                                                       *)
(***************************************************************************)
EXTENDS ToolRequest, TLAPS

(* The invariant holds before anything was requested.                      *)
LEMMA InitEstablishesInvariant == LockInit => LockInvariant
  BY MaxTransitionsAssumption
     DEF LockInit, LockInvariant, LockTypeOK, TransitionIsAlone, DrainIsExact,
         NoOvertaking, Inside

(* Taking a call out of #calls keeps the invariant: the drain loses exactly *)
(* the promise that settled.                                                *)
LEMMA DeregisterPreservesInvariant ==
    ASSUME LockInvariant, NEW c \in Calls, Deregister(c)
    PROVE  LockInvariant'
  BY MaxTransitionsAssumption
     DEF LockInvariant, LockTypeOK, TransitionIsAlone, DrainIsExact, NoOvertaking,
         Inside, Registered, AdmittedThrough, Deregister

(* Every step of a call keeps the invariant.                               *)
LEMMA CallStepPreservesInvariant ==
    ASSUME LockInvariant, NEW c \in Calls, CallNext(c)
    PROVE  LockInvariant'
<1> USE MaxTransitionsAssumption
        DEF LockInvariant, LockTypeOK, TransitionIsAlone, DrainIsExact, NoOvertaking,
            Inside, Registered, AdmittedThrough
<1>1. CASE Invoke(c)
  BY <1>1 DEF Invoke
<1>2. CASE InvokeReady(c)
  BY <1>2 DEF InvokeReady
<1>3. CASE Admit(c)
  BY <1>3 DEF Admit
<1>4. CASE CancelWait(c)
  BY <1>4, DeregisterPreservesInvariant DEF CancelWait
<1>5. CASE NestedInvoke(c)
  BY <1>5 DEF NestedInvoke, NestedBarrier
<1>6. CASE NestedReturn(c)
  BY <1>6 DEF NestedReturn
<1>7. CASE Settle(c)
  BY <1>7, DeregisterPreservesInvariant DEF Settle
<1>8. QED
  BY <1>1, <1>2, <1>3, <1>4, <1>5, <1>6, <1>7 DEF CallNext

(* Every step of the lock, or a stutter, keeps the invariant.              *)
LEMMA StepPreservesInvariant ==
    ASSUME LockInvariant, [LockNext]_lockVars
    PROVE  LockInvariant'
<1> USE MaxTransitionsAssumption
        DEF LockInvariant, LockTypeOK, TransitionIsAlone, DrainIsExact, NoOvertaking,
            Inside, Registered, AdmittedThrough
<1>1. CASE \E c \in Calls : CallNext(c)
  BY <1>1, CallStepPreservesInvariant
<1>2. CASE Serialize
  BY <1>2 DEF Serialize
<1>3. CASE StartDrain
  BY <1>3 DEF StartDrain
<1>4. CASE DrainDone
  BY <1>4 DEF DrainDone
<1>5. CASE SettleEarly
  BY <1>5 DEF SettleEarly, HeadSettles
<1>6. CASE SettleTransition
  BY <1>6 DEF SettleTransition, HeadSettles
<1>7. CASE UNCHANGED lockVars
  BY <1>7 DEF lockVars
<1>8. QED
  BY <1>1, <1>2, <1>3, <1>4, <1>5, <1>6, <1>7 DEF LockNext

(* The inductive invariant holds in every reachable state.                 *)
THEOREM InvariantHolds == LockSpec => []LockInvariant
<1>1. LockInit => LockInvariant
  BY InitEstablishesInvariant
<1>2. LockInvariant /\ [LockNext]_lockVars => LockInvariant'
  BY StepPreservesInvariant
<1>3. QED
  BY <1>1, <1>2, PTL DEF LockSpec

(* The counters, the drain and the call tables keep their types.           *)
THEOREM TypeCorrect == LockSpec => []LockTypeOK
<1>1. LockInvariant => LockTypeOK
  BY DEF LockInvariant
<1>2. QED
  BY <1>1, InvariantHolds, PTL

(* A transition past its drain runs alone.                                 *)
THEOREM TransitionRunsAlone == LockSpec => []TransitionIsAlone
<1>1. LockInvariant => TransitionIsAlone
  BY DEF LockInvariant
<1>2. QED
  BY <1>1, InvariantHolds, PTL

(* A transition drains exactly the calls invoked before its request.       *)
THEOREM DrainExactness == LockSpec => []DrainIsExact
<1>1. LockInvariant => DrainIsExact
  BY DEF LockInvariant
<1>2. QED
  BY <1>1, InvariantHolds, PTL

(* No call overtakes a transition requested before it.                     *)
THEOREM CallsNeverOvertake == LockSpec => []NoOvertaking
<1>1. LockInvariant => NoOvertaking
  BY DEF LockInvariant
<1>2. QED
  BY <1>1, InvariantHolds, PTL

(* A step of a call is a step of the reader/writer contract, or a stutter.  *)
LEMMA CallStepImplementsExclusion ==
    ASSUME LockInvariant, NEW c \in Calls, CallNext(c)
    PROVE  [Exclusion!Next]_(Exclusion!vars)
<1> USE DEF LockInvariant, LockTypeOK, TransitionIsAlone, NoOvertaking, Inside, Registered,
            Reading, Exclusion!vars, Exclusion!Next
<1>1. CASE Invoke(c)
  <2>1. Reading' = Reading /\ phase' = phase
    BY <1>1 DEF Invoke
  <2>2. QED
    BY <2>1
<1>2. CASE InvokeReady(c)
  <2>1. phase # "running" /\ phase' = phase
    BY <1>2 DEF InvokeReady
  <2>2. c \notin Reading /\ Reading' = Reading \cup {c}
    BY <1>2 DEF InvokeReady
  <2>3. Exclusion!BeginCall(c)
    BY <2>1, <2>2 DEF Exclusion!BeginCall
  <2>4. QED
    BY <2>3
<1>3. CASE Admit(c)
  <2>1. phase # "running" /\ phase' = phase
    BY <1>3 DEF Admit
  <2>2. c \notin Reading /\ Reading' = Reading \cup {c}
    BY <1>3 DEF Admit
  <2>3. Exclusion!BeginCall(c)
    BY <2>1, <2>2 DEF Exclusion!BeginCall
  <2>4. QED
    BY <2>3
<1>4. CASE CancelWait(c)
  <2>1. Reading' = Reading /\ phase' = phase
    BY <1>4 DEF CancelWait, Deregister
  <2>2. QED
    BY <2>1
<1>5. CASE NestedInvoke(c)
  <2>1. Reading' = Reading /\ phase' = phase
    BY <1>5 DEF NestedInvoke
  <2>2. QED
    BY <2>1
<1>6. CASE NestedReturn(c)
  <2>1. Reading' = Reading /\ phase' = phase
    BY <1>6 DEF NestedReturn
  <2>2. QED
    BY <2>1
<1>7. CASE Settle(c)
  <2>1. c \in Reading /\ Reading' = Reading \ {c} /\ phase' = phase
    BY <1>7 DEF Settle, Deregister
  <2>2. Exclusion!EndCall(c)
    BY <2>1 DEF Exclusion!EndCall
  <2>3. QED
    BY <2>2
<1>8. QED
  BY <1>1, <1>2, <1>3, <1>4, <1>5, <1>6, <1>7 DEF CallNext

(* So is every step of the lock: a transition begins when its drain is     *)
(* done and ends when it settles; an early refusal is a stutter.           *)
LEMMA StepImplementsExclusion ==
    ASSUME LockInvariant, LockInvariant', [LockNext]_lockVars
    PROVE  [Exclusion!Next]_(Exclusion!vars)
<1> USE DEF Exclusion!vars, Exclusion!Next
<1>1. CASE \E c \in Calls : CallNext(c)
  BY <1>1, CallStepImplementsExclusion
<1>2. CASE Serialize
  <2>1. Reading' = Reading /\ phase' = phase
    BY <1>2 DEF Serialize, Reading, Inside
  <2>2. QED
    BY <2>1
<1>3. CASE StartDrain
  <2>1. Reading' = Reading /\ phase # "running" /\ phase' # "running"
    BY <1>3 DEF StartDrain, Reading, Inside
  <2>2. QED
    BY <2>1
<1>4. CASE DrainDone
  <2>1. phase' = "running" /\ phase # "running"
    BY <1>4 DEF DrainDone
  <2>2. Reading' = {}
    BY <2>1 DEF LockInvariant, TransitionIsAlone, Reading, Inside, Registered
  <2>3. Reading' = Reading
    BY <1>4 DEF DrainDone, Reading, Inside
  <2>4. Exclusion!BeginTransition
    BY <2>1, <2>2, <2>3 DEF Exclusion!BeginTransition
  <2>5. QED
    BY <2>4
<1>5. CASE SettleEarly
  <2>1. Reading' = Reading /\ phase # "running" /\ phase' # "running"
    BY <1>5 DEF SettleEarly, HeadSettles, Reading, Inside
  <2>2. QED
    BY <2>1
<1>6. CASE SettleTransition
  <2>1. Reading' = Reading /\ phase = "running" /\ phase' # "running"
    BY <1>6 DEF SettleTransition, HeadSettles, Reading, Inside
  <2>2. Exclusion!EndTransition
    BY <2>1 DEF Exclusion!EndTransition
  <2>3. QED
    BY <2>2
<1>7. CASE UNCHANGED lockVars
  <2>1. Reading' = Reading /\ phase' = phase
    BY <1>7 DEF lockVars, Reading, Inside
  <2>2. QED
    BY <2>1
<1>8. QED
  BY <1>1, <1>2, <1>3, <1>4, <1>5, <1>6, <1>7 DEF LockNext

(* The admission protocol of BinarySession is a reader/writer lock: calls  *)
(* share the selection, a transition has it to itself.                     *)
THEOREM LockImplementsExclusion == LockSpec => ImplementsExclusion
<1>1. LockInit => Exclusion!Init
  BY DEF LockInit, Exclusion!Init, Reading, Inside
<1>2. LockInvariant /\ LockInvariant' /\ [LockNext]_lockVars
        => [Exclusion!Next]_(Exclusion!vars)
  BY StepImplementsExclusion
<1>3. QED
  BY <1>1, <1>2, InvariantHolds, PTL DEF LockSpec, ImplementsExclusion, Exclusion!Spec

-----------------------------------------------------------------------------
(* Tool requests: every call of the lock is a request.                     *)

(* The part of the invariant that is about one request.                     *)
Granted(r) ==
    /\ op[r] \in {"none", "refused"} => callState[r] = "idle" /\ ~shared[r]
    /\ op[r] = "waiting" => callState[r] = "waiting" /\ ~shared[r]
    /\ op[r] = "running" => Inside(r)
    /\ op[r] = "returned" => Inside(r) \/ callState[r] = "idle"
    /\ progress[r] = "none" => op[r] = "none"
    /\ progress[r] = "handling" => handled[r]
    /\ progress[r] = "sending" => op[r] = "waiting"
    /\ released[r] => cancelled[r] \/ progress[r] = "published"
    /\ progress[r] = "publishing" /\ released[r] => op[r] \in {"running", "refused"}
    /\ shared[r] => \/ Inside(r)
                    \/ progress[r] \in {"published", "suppressed"}
                    \/ progress[r] = "replying" /\ cancelled[r]

LEMMA InvariantByRequest ==
    RequestInvariant <=> RequestTypeOK /\ LockInvariant /\ \A r \in Calls : Granted(r)
  BY DEF RequestInvariant, Granted

(* The invariant holds before any request.                                  *)
LEMMA InitEstablishesRequestInvariant == RequestsInit => RequestInvariant
<1> SUFFICES ASSUME RequestsInit PROVE RequestInvariant
  OBVIOUS
<1>1. LockInvariant
  BY InitEstablishesInvariant DEF RequestsInit
<1>2. RequestTypeOK
  <2>1. LockTypeOK /\ 0 \in 0 .. generation
    BY <1>1 DEF RequestsInit, LockInit, LockInvariant
  <2>2. {handled, errored, cancelled, released, shared} \subseteq [Calls -> BOOLEAN]
    BY DEF RequestsInit
  <2>3. QED
    BY <2>1, <2>2 DEF RequestsInit, RequestTypeOK
<1>3. \A r \in Calls : Granted(r)
  BY DEF RequestsInit, LockInit, Granted, Inside
<1>4. QED
  BY <1>1, <1>2, <1>3, InvariantByRequest

(* Every step is a step of the lock, or leaves the lock alone.              *)
LEMMA RequestStepsLock ==
    ASSUME NEW r \in Calls, RequestNext(r)
    PROVE  [LockNext]_lockVars
<1>1. CASE Receive(r)
  BY <1>1 DEF Receive
<1>2. CASE AdmitFirst(r)
  BY <1>2 DEF AdmitFirst, LockNext, CallNext
<1>3. CASE AdmitAgain(r)
  BY <1>3 DEF AdmitAgain, LockNext, CallNext
<1>4. CASE RequestTransition(r)
  BY <1>4 DEF RequestTransition, LockNext
<1>5. CASE HandlerStep(r)
  BY <1>5 DEF HandlerStep, Bind, Refuse, OperationReturns, AgainReturns, FinishHandler,
              LockNext, CallNext
<1>6. CASE Suppress(r) \/ Published(r)
  BY <1>6 DEF Suppress, Published
<1>7. CASE SendReply(r)
  BY <1>7 DEF SendReply, LockNext, CallNext
<1>8. CASE SendAdmitted(r) \/ SendRefused(r)
  BY <1>8 DEF SendAdmitted, SendRefused, LockNext, CallNext
<1>9. CASE Release(r)
  BY <1>9 DEF Release, LockNext, CallNext
<1>10. CASE CancelOne(r)
  BY <1>10 DEF CancelOne, Cancel
<1>11. QED
  BY <1>1, <1>2, <1>3, <1>4, <1>5, <1>6, <1>7, <1>8, <1>9, <1>10 DEF RequestNext, ReplyStep

LEMMA StepsLock ==
    ASSUME [RequestsNext]_requestsVars
    PROVE  [LockNext]_lockVars
<1>1. CASE \E r \in Calls : RequestNext(r)
  BY <1>1, RequestStepsLock
<1>2. CASE HeadNext
  BY <1>2 DEF HeadNext, LockNext
<1>3. CASE CloseTransport
  BY <1>3 DEF CloseTransport, Cancel
<1>4. CASE UNCHANGED requestsVars
  BY <1>4 DEF requestsVars
<1>5. QED
  BY <1>1, <1>2, <1>3, <1>4 DEF RequestsNext

(* A step of the lock that no request takes moves no request.               *)
LEMMA HeadKeepsRequests ==
    ASSUME HeadNext
    PROVE  callState' = callState /\ generation' = generation
  BY DEF HeadNext, StartDrain, DrainDone, SettleEarly, SettleTransition, HeadSettles

(* Types: every step of a request keeps them.                               *)
LEMMA RequestKeepsTypes ==
    ASSUME RequestInvariant, LockInvariant', NEW r \in Calls, RequestNext(r)
    PROVE  RequestTypeOK'
<1>1. LockTypeOK /\ LockTypeOK'
  BY DEF RequestInvariant, LockInvariant
<1> USE <1>1, MaxTransitionsAssumption DEF RequestInvariant, RequestTypeOK, LockTypeOK, Advance
<1>2. CASE Receive(r)
  <2>1. UNCHANGED <<lockVars, op, cancelled, released, awaits, shared>>
    BY <1>2 DEF Receive
  <2>2. progress' \in [Calls -> {"none", "handling", "replying", "sending", "publishing",
                                 "published", "suppressed"}]
    BY <1>2 DEF Receive
  <2>3. \/ handled' = [handled EXCEPT ![r] = TRUE] /\ errored' = errored
        \/ errored' = [errored EXCEPT ![r] = TRUE] /\ handled' = handled
    BY <1>2 DEF Receive
  <2>4. handled \in [Calls -> BOOLEAN] /\ errored \in [Calls -> BOOLEAN]
    OBVIOUS
  <2>5. handled' \in [Calls -> BOOLEAN] /\ errored' \in [Calls -> BOOLEAN]
    BY <2>3, <2>4, Zenon
  <2>6. QED
    BY <2>1, <2>2, <2>5 DEF lockVars
<1>3. CASE AdmitFirst(r)
  BY <1>3 DEF AdmitFirst, Invoke
<1>4. CASE AdmitAgain(r)
  BY <1>4 DEF AdmitAgain, NestedInvoke, requestVars
<1>5. CASE RequestTransition(r)
  BY <1>5 DEF RequestTransition, Serialize
<1>6. CASE Bind(r)
  BY <1>6 DEF Bind, Admit
<1>7. CASE Refuse(r)
  BY <1>7 DEF Refuse, CancelWait, Deregister
<1>8. CASE OperationReturns(r)
  BY <1>8 DEF OperationReturns, lockVars
<1>9. CASE AgainReturns(r)
  BY <1>9 DEF AgainReturns, NestedReturn, requestVars
<1>10. CASE FinishHandler(r)
  BY <1>10 DEF FinishHandler, lockVars
<1>11. CASE Suppress(r)
  BY <1>11 DEF Suppress, lockVars
<1>12. CASE SendReply(r)
  BY <1>12 DEF SendReply, Invoke, lockVars
<1>13. CASE SendAdmitted(r)
  BY <1>13 DEF SendAdmitted, Admit
<1>14. CASE SendRefused(r)
  BY <1>14 DEF SendRefused, CancelWait, Deregister
<1>15. CASE Published(r)
  BY <1>15 DEF Published, lockVars
<1>16. CASE Release(r)
  BY <1>16 DEF Release, Settle, Deregister, requestVars
<1>17. CASE CancelOne(r)
  BY <1>17 DEF CancelOne, Cancel, PublicationStarted, lockVars
<1>18. QED
  BY <1>2, <1>3, <1>4, <1>5, <1>6, <1>7, <1>8, <1>9, <1>10, <1>11, <1>12, <1>13, <1>14, <1>15,
     <1>16, <1>17 DEF RequestNext, HandlerStep, ReplyStep

(* What is granted: each step keeps it for the request that takes it and    *)
(* for the others.                                                          *)
LEMMA RequestKeepsGrants ==
    ASSUME RequestInvariant, NEW r \in Calls, RequestNext(r), NEW q \in Calls
    PROVE  Granted(q)'
<1>1. Granted(q) /\ Granted(r)
  BY InvariantByRequest
<1>2. RequestTypeOK
  BY DEF RequestInvariant
<1> USE <1>1, <1>2 DEF Granted, RequestTypeOK, LockTypeOK, Advance, Inside
<1>3. CASE Receive(r)
  BY <1>3 DEF Receive, lockVars
<1>4. CASE AdmitFirst(r)
  BY <1>4 DEF AdmitFirst, Invoke
<1>5. CASE AdmitAgain(r)
  BY <1>5 DEF AdmitAgain, NestedInvoke, requestVars
<1>6. CASE RequestTransition(r)
  BY <1>6 DEF RequestTransition, Serialize
<1>7. CASE Bind(r)
  BY <1>7 DEF Bind, Admit
<1>8. CASE Refuse(r)
  BY <1>8 DEF Refuse, CancelWait, Deregister
<1>9. CASE OperationReturns(r)
  BY <1>9 DEF OperationReturns, lockVars
<1>10. CASE AgainReturns(r)
  BY <1>10 DEF AgainReturns, NestedReturn, requestVars
<1>11. CASE FinishHandler(r)
  BY <1>11 DEF FinishHandler, lockVars
<1>12. CASE Suppress(r)
  BY <1>12 DEF Suppress, lockVars
<1>13. CASE SendReply(r)
  BY <1>13 DEF SendReply, Invoke, HoldsAdmission, lockVars
<1>14. CASE SendAdmitted(r)
  BY <1>14 DEF SendAdmitted, Admit
<1>15. CASE SendRefused(r)
  BY <1>15 DEF SendRefused, CancelWait, Deregister
<1>16. CASE Published(r)
  BY <1>16 DEF Published, lockVars
<1>17. CASE Release(r)
  BY <1>17 DEF Release, PublicationSettles, HandlerDone, Settle, Deregister, requestVars
<1>18. CASE CancelOne(r)
  BY <1>18 DEF CancelOne, Cancel, PublicationStarted, lockVars
<1>19. QED
  BY <1>3, <1>4, <1>5, <1>6, <1>7, <1>8, <1>9, <1>10, <1>11, <1>12, <1>13, <1>14, <1>15, <1>16,
     <1>17, <1>18 DEF RequestNext, HandlerStep, ReplyStep

(* Every step keeps the invariant.                                          *)
LEMMA StepPreservesRequestInvariant ==
    ASSUME RequestInvariant, [RequestsNext]_requestsVars
    PROVE  RequestInvariant'
<1>1. LockInvariant'
  BY StepsLock, StepPreservesInvariant DEF RequestInvariant
<1>2. LockTypeOK'
  BY <1>1 DEF LockInvariant
<1>3. CASE \E r \in Calls : RequestNext(r)
  <2>1. RequestTypeOK' /\ \A q \in Calls : Granted(q)'
    BY <1>1, <1>3, RequestKeepsTypes, RequestKeepsGrants
  <2>2. QED
    BY <1>1, <2>1 DEF RequestInvariant, Granted
<1>4. CASE HeadNext /\ UNCHANGED requestVars
  <2>1. callState' = callState /\ generation' = generation
    BY <1>4, HeadKeepsRequests
  <2>2. RequestTypeOK'
    BY <1>2, <1>4, <2>1 DEF RequestInvariant, RequestTypeOK, requestVars
  <2>3. QED
    BY <1>1, <1>4, <2>1, <2>2 DEF RequestInvariant, requestVars, Inside
<1>5. CASE CloseTransport
  <2>1. RequestTypeOK'
    BY <1>2, <1>5 DEF RequestInvariant, RequestTypeOK, CloseTransport, Cancel, PublicationStarted, lockVars
  <2>2. ASSUME NEW q \in Calls
        PROVE  Granted(q)'
    BY <1>5, <2>2 DEF RequestInvariant, RequestTypeOK, Granted, Inside, CloseTransport, Cancel,
                      PublicationStarted, lockVars
  <2>3. QED
    BY <1>1, <2>1, <2>2 DEF RequestInvariant, Granted
<1>6. CASE UNCHANGED requestsVars
  <2>1. UNCHANGED lockVars /\ UNCHANGED requestVars
    BY <1>6 DEF requestsVars
  <2>2. callState' = callState /\ generation' = generation
    BY <2>1 DEF lockVars
  <2>3. RequestTypeOK'
    BY <1>2, <2>1, <2>2 DEF RequestInvariant, RequestTypeOK, requestVars
  <2>4. QED
    BY <1>1, <2>1, <2>2, <2>3 DEF RequestInvariant, requestVars, Inside
<1>7. QED
  BY <1>3, <1>4, <1>5, <1>6 DEF RequestsNext

(* The inductive invariant holds in every reachable state.                  *)
THEOREM RequestInvariantHolds == RequestsSpec => []RequestInvariant
<1>1. RequestsInit => RequestInvariant
  BY InitEstablishesRequestInvariant
<1>2. RequestInvariant /\ [RequestsNext]_requestsVars => RequestInvariant'
  BY StepPreservesRequestInvariant
<1>3. QED
  BY <1>1, <1>2, PTL DEF RequestsSpec

(* Requests stay within their ranges.                                       *)
THEOREM RequestTypeCorrect == RequestsSpec => []RequestTypeOK
<1>1. RequestInvariant => RequestTypeOK
  BY DEF RequestInvariant
<1>2. QED
  BY <1>1, RequestInvariantHolds, PTL

(* No reset runs between the admission of a request and the end of its      *)
(* reply: a running transition is alone, a request that was admitted is     *)
(* inside or its reply is over.                                             *)
THEOREM RepliesOutliveNoReset == RequestsSpec => []ReplyOutlivesNoReset
<1>1. RequestInvariant => ReplyOutlivesNoReset
  BY DEF RequestInvariant, LockInvariant, TransitionIsAlone, ReplyOutlivesNoReset, Inside,
         Registered
<1>2. QED
  BY <1>1, RequestInvariantHolds, PTL

(* Whatever requests do, the session's admission protocol is that of        *)
(* SessionLock.                                                             *)
THEOREM RequestsObeyTheLock == RequestsSpec => LockSpec
<1>1. RequestsInit => LockInit
  BY DEF RequestsInit
<1>2. [RequestsNext]_requestsVars => [LockNext]_lockVars
  BY StepsLock
<1>3. QED
  BY <1>1, <1>2, PTL DEF RequestsSpec, LockSpec
=============================================================================
