-------------------------- MODULE GhidraSessionProofs --------------------------
(***************************************************************************)
(* One Ghidra session, for any number of requests: no request is stranded, *)
(* no second process is started beside an unreleased one, what was settled *)
(* is over, and a close that succeeds leaves nothing.                      *)
(*                                                                         *)
(* None of this is inductive alone.  That a failed save may reopen the     *)
(* queue, and that a startup may forget what it finds in it, rest on where *)
(* the startup and the close are: a queue that admits requests without a   *)
(* session has nobody in it or on the way to it.                           *)
(***************************************************************************)
EXTENDS GhidraSession, SequenceTheorems, TLAPS

Cleaning == {"saving", "shutdown", "stopping"}

(* Where the startup and the close are determines what is owned: a close    *)
(* works on the session only when no startup does.                          *)
StepsAreExclusive ==
    /\ phase # "none" <=> attempt = "starting"
    /\ attempt = "ready" => socket # "none" \/ close = "stopping"
    /\ close \in Cleaning => refused /\ attempt # "starting"
    /\ close = "saving" => attempt = "ready" /\ socket # "none" /\ ~force
    /\ close = "stopping" => socket = "none"

(* The requests the queue has admitted, or will be asked to.                *)
Admitted == {r \in Requests : call[r] \in {"started", "queued", "active"}}

(* Without a session an open queue admits nobody.                           *)
NobodyIsEarly == ~refused /\ (attempt = "starting" \/ socket = "none") => Admitted = {}

(* A request has an answer exactly when it is done; the bridge works on     *)
(* dispatched requests only, and not on the active one once it replied or   *)
(* was stopped.                                                             *)
AnswersAreFinal ==
    /\ \A r \in Requests : answer[r] # "none" <=> call[r] = "done"
    /\ \A r \in bridge : call[r] \in {"active", "done"}
    /\ cancel # "none" => active # None
    /\ wire = "answered" \/ cancel = "released" => active \notin bridge

GhidraInvariant ==
    /\ TypeOK
    /\ QueueIsSound /\ StartsFromNothing /\ SettledIsOver
    /\ StepsAreExclusive /\ NobodyIsEarly /\ AnswersAreFinal

-----------------------------------------------------------------------------
(* The queue as a sequence                                                  *)

LEMMA RemovalProperties ==
    ASSUME NEW S, NEW s \in Seq(S), NEW i \in 1 .. Len(s)
    PROVE  /\ RemoveAt(s, i) \in Seq(S)
           /\ Len(RemoveAt(s, i)) = Len(s) - 1
           /\ \A j \in 1 .. Len(s) - 1 :
                RemoveAt(s, i)[j] = IF j < i THEN s[j] ELSE s[j + 1]
<1> DEFINE before == SubSeq(s, 1, i - 1)
           after == SubSeq(s, i + 1, Len(s))
<1>1. Len(s) \in Nat /\ \A j \in 1 .. Len(s) : s[j] \in S
  BY LenProperties, ElementOfSeq
<1>2. /\ before \in Seq(S) /\ Len(before) = i - 1
      /\ \A j \in 1 .. i - 1 : before[j] = s[j]
  <2>1. \A j \in 1 .. i - 1 : s[j] \in S
    BY <1>1
  <2>2. /\ before \in Seq(S) /\ Len(before) = IF 1 <= i - 1 THEN i - 1 - 1 + 1 ELSE 0
        /\ \A j \in 1 .. i - 1 - 1 + 1 : before[j] = s[1 + j - 1]
    BY <2>1, <1>1, SubSeqProperties
  <2>3. QED
    BY <2>2, <1>1
<1>3. /\ after \in Seq(S) /\ Len(after) = Len(s) - i
      /\ \A j \in 1 .. Len(s) - i : after[j] = s[i + j]
  <2>1. \A j \in i + 1 .. Len(s) : s[j] \in S
    BY <1>1
  <2>2. /\ after \in Seq(S)
        /\ Len(after) = IF i + 1 <= Len(s) THEN Len(s) - (i + 1) + 1 ELSE 0
        /\ \A j \in 1 .. Len(s) - (i + 1) + 1 : after[j] = s[i + 1 + j - 1]
    BY <2>1, <1>1, SubSeqProperties
  <2>3. QED
    BY <2>2, <1>1
<1> HIDE DEF before, after
<1>4. /\ before \o after \in Seq(S) /\ Len(before \o after) = Len(s) - 1
      /\ \A j \in 1 .. Len(s) - 1 :
           (before \o after)[j] = IF j <= i - 1 THEN before[j] ELSE after[j - (i - 1)]
  <2>1. /\ before \o after \in Seq(S) /\ Len(before \o after) = Len(before) + Len(after)
        /\ \A j \in 1 .. Len(before) + Len(after) :
             (before \o after)[j] = IF j <= Len(before) THEN before[j]
                                                        ELSE after[j - Len(before)]
    BY <1>2, <1>3, ConcatProperties
  <2>2. Len(before) + Len(after) = Len(s) - 1
    BY <1>1, <1>2, <1>3
  <2>3. QED
    BY <1>2, <2>1, <2>2
<1>5. ASSUME NEW j \in 1 .. Len(s) - 1
      PROVE  (before \o after)[j] = IF j < i THEN s[j] ELSE s[j + 1]
  <2>1. CASE j < i
    BY <1>1, <1>2, <1>4, <2>1
  <2>2. CASE ~(j < i)
    <3>1. j - (i - 1) \in 1 .. Len(s) - i /\ i + (j - (i - 1)) = j + 1
      BY <1>1, <2>2
    <3>2. after[j - (i - 1)] = s[j + 1]
      BY <1>3, <3>1
    <3>3. QED
      BY <1>1, <1>4, <2>2, <3>2
  <2>3. QED
    BY <2>1, <2>2
<1>6. RemoveAt(s, i) = before \o after
  BY DEF RemoveAt, before, after
<1>7. QED
  BY <1>1, <1>4, <1>5, <1>6

-----------------------------------------------------------------------------
(* The startup and the close                                                *)

LEMMA StepKeepsStepsExclusive ==
    ASSUME TypeOK, StepsAreExclusive, StartsFromNothing, Next
    PROVE  StepsAreExclusive' /\ StartsFromNothing'
<1> USE DEF StepsAreExclusive, StartsFromNothing, Cleaning, startup, owned, queueing, closer,
            calls, TypeOK
<1>1. ASSUME NEW r \in Requests,
             LeaveStartup(r) \/ LeaveWait(r) \/ LeaveLater(r) \/ LeaveQueue(r) \/ CancelActive(r)
               \/ LateReply(r)
      PROVE  StepsAreExclusive' /\ StartsFromNothing'
  BY <1>1 DEF LeaveStartup, LeaveWait, LeaveLater, LeaveQueue, CancelActive, LateReply, FailQueued
<1>2. ASSUME NEW r \in Requests, Start(r)
      PROVE  StepsAreExclusive' /\ StartsFromNothing'
  BY <1>2 DEF Start, Begin, HasOwnedResources
<1>3. ASSUME NEW r \in Requests, Proceed(r) \/ CallIfReady(r)
      PROVE  StepsAreExclusive' /\ StartsFromNothing'
  BY <1>3 DEF Proceed, CallIfReady, Run
<1>4. CASE Acquire \/ ConnectFails \/ Ready
  BY <1>4 DEF Acquire, ConnectFails, Ready
<1>5. CASE StartFails
  BY <1>5 DEF StartFails, FailQueued
<1>6. CASE Reply \/ SettleActive \/ TimeOut
  BY <1>6 DEF Reply, SettleActive, TimeOut
<1>7. CASE StopAfterCancellation \/ Close
  BY <1>7 DEF StopAfterCancellation, Close, RequestClose
<1>8. CASE CloseBegins \/ SaveSucceeds \/ Shutdown
  BY <1>8 DEF CloseBegins, SaveSucceeds, Shutdown, FailQueued
<1>9. CASE SaveFails \/ Stop
  BY <1>9 DEF SaveFails, Stop, CloseSettles, Forgets, Released, Unstopped, Unremoved
<1>10. CASE ProcessExits \/ SocketBreaks
  BY <1>10 DEF ProcessExits, SocketBreaks
<1>11. QED
  BY <1>1, <1>2, <1>3, <1>4, <1>5, <1>6, <1>7, <1>8, <1>9, <1>10 DEF Next, SessionSteps

-----------------------------------------------------------------------------
(* Requests and the bridge                                                  *)

(* What dispatching the head of the queue, or nothing, needs of it.         *)
LEMMA HeadIsQueued ==
    ASSUME TypeOK, QueueIsSound, queue # <<>>
    PROVE  /\ Head(queue) \in Requests /\ call[Head(queue)] = "queued"
           /\ Head(queue) = queue[1] /\ Tail(queue) \in Seq(Requests)
           /\ Len(queue) \in Nat /\ Len(Tail(queue)) = Len(queue) - 1
           /\ \A i \in 1 .. Len(Tail(queue)) : Tail(queue)[i] = queue[i + 1]
<1>1. /\ Head(queue) \in Requests /\ Tail(queue) \in Seq(Requests)
      /\ Len(Tail(queue)) = Len(queue) - 1 /\ Len(queue) \in Nat \ {0}
      /\ \A i \in 1 .. Len(Tail(queue)) : Tail(queue)[i] = queue[i + 1]
  BY HeadTailProperties, EmptySeq DEF TypeOK
<1>2. Head(queue) = queue[1] /\ 1 \in 1 .. Len(queue)
  BY <1>1
<1>3. QED
  BY <1>1, <1>2 DEF QueueIsSound

LEMMA StepKeepsTypes ==
    ASSUME TypeOK, QueueIsSound, Next
    PROVE  TypeOK'
<1> USE DEF TypeOK, startup, owned, queueing, closer, calls, Tell, Fail, Move
<1>1. <<>> \in Seq(Requests)
  BY EmptySeq
<1>2. \A r \in Requests : Append(queue, r) \in Seq(Requests)
  BY AppendProperties
<1> DEFINE CallsTyped ==
        /\ call' \in [Requests -> {"idle", "again", "starting", "stopping", "abandoned",
                                   "closing", "started", "queued", "active", "done"}]
        /\ gone' \in [Requests -> BOOLEAN]
        /\ answer' \in [Requests -> {"none", "ok", "cancelled", "failed"}]
<1>3. ASSUME NEW r \in Requests, LeaveStartup(r) \/ LeaveWait(r) \/ LeaveLater(r) \/ LateReply(r)
      PROVE  TypeOK'
  <2>1. CallsTyped
    BY <1>3 DEF LeaveStartup, LeaveWait, LeaveLater, LateReply, Leave
  <2>2. /\ UNCHANGED <<attempt, phase, owned, queueing, closer>>
        /\ stopped' \in BOOLEAN /\ bridge' \subseteq Requests
    BY <1>3 DEF LeaveStartup, LeaveWait, LeaveLater, LateReply
  <2>3. QED
    BY <2>1, <2>2
<1>4. ASSUME NEW r \in Requests, LeaveQueue(r)
      PROVE  TypeOK'
  <2>1. queue' \in Seq(Requests)
    BY <1>4, RemovalProperties DEF LeaveQueue
  <2>2. QED
    BY <1>4, <2>1 DEF LeaveQueue, Leave
<1>5. ASSUME NEW r \in Requests, CancelActive(r)
      PROVE  TypeOK'
  BY <1>1, <1>5 DEF CancelActive, FailQueued
<1>6. ASSUME NEW r \in Requests, Start(r)
      PROVE  TypeOK'
  <2>1. CallsTyped
    BY <1>6 DEF Start, Begin
  <2>2. /\ UNCHANGED <<owned, queueing, closer, bridge>>
        /\ attempt' \in {attempt, "starting"} /\ phase' \in {phase, "acquire"}
        /\ stopped' \in BOOLEAN
    BY <1>6 DEF Start, Begin
  <2>3. QED
    BY <2>1, <2>2
<1>7. ASSUME NEW r \in Requests, Proceed(r) \/ CallIfReady(r)
      PROVE  TypeOK'
  <2>1. CallsTyped /\ UNCHANGED <<startup, owned, closer, gone, refused>>
    BY <1>7 DEF Proceed, CallIfReady, Run
  <2>2. /\ queue' \in Seq(Requests) /\ active' \in Requests \cup {None}
        /\ wire' \in {"none", "sent", "answered", "failed"}
        /\ cancel' \in {"none", "requested", "joined", "released", "failed"}
        /\ bridge' \subseteq Requests
    BY <1>2, <1>7 DEF Proceed, CallIfReady, Run, Dispatch
  <2>3. QED
    BY <2>1, <2>2
<1>8. CASE Acquire \/ ConnectFails \/ Ready
  BY <1>8 DEF Acquire, ConnectFails, Ready
<1>9. CASE StartFails
  BY <1>1, <1>9, ZenonT(40) DEF StartFails, FailQueued, Released, Unstopped, Unremoved
<1>10. CASE Reply \/ TimeOut \/ ProcessExits \/ SocketBreaks
  BY <1>10 DEF Reply, TimeOut, ProcessExits, SocketBreaks
<1>11. CASE SettleActive
  <2>1. queue # <<>> => Head(queue) \in Requests /\ Tail(queue) \in Seq(Requests)
    BY HeadIsQueued
  <2>2. QED
    BY <1>11, <2>1, SMTT(20) DEF SettleActive, Dispatch
<1>12. CASE StopAfterCancellation \/ Close
  BY <1>12, ZenonT(40) DEF StopAfterCancellation, Close, RequestClose
<1>13. CASE CloseBegins \/ SaveSucceeds \/ Shutdown
  BY <1>1, <1>13 DEF CloseBegins, SaveSucceeds, Shutdown, FailQueued
<1>14. CASE SaveFails \/ Stop
  BY <1>14, ZenonT(40) DEF SaveFails, Stop, CloseSettles, Released, Unstopped, Unremoved
<1>15. QED
  BY <1>3, <1>4, <1>5, <1>6, <1>7, <1>8, <1>9, <1>10, <1>11, <1>12, <1>13, <1>14
     DEF Next, SessionSteps

(* The parts of QueueIsSound: who waits, and that an open session admits.   *)
QueueOrder ==
    /\ queue # <<>> => active # None /\ ~refused
    /\ \A r \in Requests :
          call[r] = "queued" <=> \E i \in 1 .. Len(queue) : queue[i] = r
    /\ \A r \in Requests : call[r] = "active" <=> active = r
    /\ \A i, j \in 1 .. Len(queue) : queue[i] = queue[j] => i = j

ReadyAdmits == IsReady => ~refused \/ cancel = "requested"

LEMMA StepKeepsReady ==
    ASSUME TypeOK, ReadyAdmits, StepsAreExclusive, AnswersAreFinal, Next
    PROVE  ReadyAdmits'
<1> USE DEF ReadyAdmits, IsReady, startup, owned, queueing, closer, StepsAreExclusive, Cleaning,
            TypeOK
<1>1. ASSUME NEW r \in Requests,
             LeaveStartup(r) \/ LeaveWait(r) \/ LeaveLater(r) \/ LeaveQueue(r) \/ CancelActive(r)
               \/ LateReply(r)
      PROVE  ReadyAdmits'
  BY <1>1 DEF LeaveStartup, LeaveWait, LeaveLater, LeaveQueue, CancelActive, LateReply, FailQueued
<1>2. ASSUME NEW r \in Requests, Start(r)
      PROVE  ReadyAdmits'
  BY <1>2 DEF Start, Begin
<1>3. ASSUME NEW r \in Requests, Proceed(r) \/ CallIfReady(r)
      PROVE  ReadyAdmits'
  <2>1. /\ UNCHANGED <<startup, owned, closer, refused>>
        /\ cancel' = cancel \/ (active = None /\ cancel' = "none")
    BY <1>3 DEF Proceed, CallIfReady, Run, Dispatch
  <2>2. QED
    BY <2>1 DEF AnswersAreFinal
<1>4. CASE Acquire \/ ConnectFails \/ Ready
  BY <1>4 DEF Acquire, ConnectFails, Ready
<1>5. CASE StartFails
  BY <1>5 DEF StartFails, FailQueued
<1>6. CASE Reply \/ SettleActive \/ TimeOut
  BY <1>6 DEF Reply, SettleActive, TimeOut
<1>7. CASE StopAfterCancellation \/ Close
  BY <1>7 DEF StopAfterCancellation, Close, RequestClose
<1>8. CASE CloseBegins \/ SaveSucceeds \/ Shutdown
  BY <1>8 DEF CloseBegins, SaveSucceeds, Shutdown, FailQueued
<1>9. CASE SaveFails \/ Stop
  BY <1>9 DEF SaveFails, Stop, CloseSettles, Forgets
<1>10. CASE ProcessExits \/ SocketBreaks
  BY <1>10 DEF ProcessExits, SocketBreaks
<1>11. QED
  BY <1>1, <1>2, <1>3, <1>4, <1>5, <1>6, <1>7, <1>8, <1>9, <1>10 DEF Next, SessionSteps

-----------------------------------------------------------------------------
(* Who waits, and who is at the bridge                                      *)

(* A step that moves nobody into or out of the queue or the bridge.         *)
LEMMA SameOrder ==
    ASSUME QueueOrder, UNCHANGED <<queue, active>>, refused' => refused \/ queue = <<>>,
           \A r \in Requests : /\ call'[r] = "queued" <=> call[r] = "queued"
                               /\ call'[r] = "active" <=> call[r] = "active"
    PROVE  QueueOrder'
  BY DEF QueueOrder

(* A step that empties the queue.                                           *)
LEMMA EmptiedOrder ==
    ASSUME queue' = <<>>,
           \A r \in Requests : /\ call'[r] # "queued"
                               /\ call'[r] = "active" <=> active' = r
    PROVE  QueueOrder'
  BY EmptySeq DEF QueueOrder

LEMMA RunKeepsOrder ==
    ASSUME TypeOK, QueueOrder, NEW r \in Requests, call[r] \in {"idle", "started"}, Run(r)
    PROVE  QueueOrder'
<1> USE DEF TypeOK, Run, Tell, Fail, Move
<1>1. CASE refused \/ gone[r]
  <2>1. \A q \in Requests : /\ call'[q] = "queued" <=> call[q] = "queued"
                            /\ call'[q] = "active" <=> call[q] = "active"
    BY <1>1
  <2>2. UNCHANGED <<queue, active, refused>>
    BY <1>1
  <2>3. QED
    BY <2>1, <2>2, SameOrder
<1>2. CASE ~refused /\ ~gone[r] /\ active = None
  <2>1. queue = <<>> /\ queue' = <<>> /\ active' = r /\ call' = [call EXCEPT ![r] = "active"]
    BY <1>2 DEF QueueOrder, Dispatch
  <2>2. \A q \in Requests : call[q] # "active" /\ call[q] # "queued"
    BY <1>2, <2>1, GhidraAssumption, EmptySeq DEF QueueOrder
  <2>3. QED
    BY <2>1, <2>2, EmptiedOrder
<1>3. CASE ~refused /\ ~gone[r] /\ active # None
  <2>1. /\ queue' = Append(queue, r) /\ UNCHANGED <<active, refused>>
        /\ call' = [call EXCEPT ![r] = "queued"]
    BY <1>3
  <2>2. /\ Len(queue) \in Nat /\ Len(queue') = Len(queue) + 1
        /\ \A i \in 1 .. Len(queue) : queue'[i] = queue[i]
        /\ queue'[Len(queue) + 1] = r
    BY <2>1, AppendProperties, LenProperties
  <2>3. \A i \in 1 .. Len(queue) : queue[i] # r
    BY DEF QueueOrder
  <2>4. \A q \in Requests : call'[q] = "queued" <=> \E i \in 1 .. Len(queue') : queue'[i] = q
    <3>1. ASSUME NEW q \in Requests, call'[q] = "queued"
          PROVE  \E i \in 1 .. Len(queue') : queue'[i] = q
      <4>1. CASE q = r
        <5>1. Len(queue) + 1 \in 1 .. Len(queue')
          BY <2>2
        <5>2. QED
          BY <2>2, <4>1, <5>1
      <4>2. CASE q # r
        <5>1. PICK i \in 1 .. Len(queue) : queue[i] = q
          BY <2>1, <3>1, <4>2 DEF QueueOrder
        <5>2. i \in 1 .. Len(queue') /\ queue'[i] = q
          BY <2>2, <5>1
        <5>3. QED
          BY <5>2
      <4>3. QED
        BY <4>1, <4>2
    <3>2. ASSUME NEW q \in Requests, NEW i \in 1 .. Len(queue'), queue'[i] = q
          PROVE  call'[q] = "queued"
      <4>1. CASE i = Len(queue) + 1
        BY <2>1, <2>2, <3>2, <4>1
      <4>2. CASE i # Len(queue) + 1
        <5>1. i \in 1 .. Len(queue) /\ queue[i] = q
          BY <2>2, <3>2, <4>2
        <5>2. QED
          BY <2>1, <2>3, <5>1 DEF QueueOrder
      <4>3. QED
        BY <4>1, <4>2
    <3>3. QED
      BY <3>1, <3>2
  <2>5. \A q \in Requests : call'[q] = "active" <=> active' = q
    BY <2>1 DEF QueueOrder
  <2>6. \A i, j \in 1 .. Len(queue') : queue'[i] = queue'[j] => i = j
    BY <2>2, <2>3 DEF QueueOrder
  <2>7. QED
    BY <1>3, <2>1, <2>4, <2>5, <2>6 DEF QueueOrder
<1>4. QED
  BY <1>1, <1>2, <1>3

LEMMA LeaveQueueKeepsOrder ==
    ASSUME TypeOK, QueueOrder, NEW r \in Requests, LeaveQueue(r)
    PROVE  QueueOrder'
<1>1. PICK i \in 1 .. Len(queue) : queue[i] = r /\ queue' = RemoveAt(queue, i)
  BY DEF LeaveQueue
<1>2. /\ Len(queue) \in Nat /\ Len(queue') = Len(queue) - 1
      /\ \A j \in 1 .. Len(queue) - 1 : queue'[j] = IF j < i THEN queue[j] ELSE queue[j + 1]
  BY <1>1, RemovalProperties, LenProperties DEF TypeOK
<1>3. /\ UNCHANGED <<active, refused>> /\ call[r] = "queued"
      /\ call' = [call EXCEPT ![r] = "done"]
  BY DEF LeaveQueue, Leave
<1>4. queue # <<>>
  BY <1>1, EmptySeq
<1>5. \A j, k \in 1 .. Len(queue') : queue'[j] = queue'[k] => j = k
  BY <1>2 DEF QueueOrder
<1>6. \A j \in 1 .. Len(queue') : queue'[j] # r
  BY <1>1, <1>2 DEF QueueOrder
<1>7. \A q \in Requests : call'[q] = "queued" <=> \E j \in 1 .. Len(queue') : queue'[j] = q
  <2>1. ASSUME NEW q \in Requests, call'[q] = "queued"
        PROVE  \E j \in 1 .. Len(queue') : queue'[j] = q
    <3>1. q # r /\ call[q] = "queued"
      BY <1>3, <2>1 DEF TypeOK
    <3>2. PICK k \in 1 .. Len(queue) : queue[k] = q
      BY <3>1 DEF QueueOrder
    <3>3. CASE k < i
      <4>1. k \in 1 .. Len(queue') /\ queue'[k] = q
        BY <1>2, <3>2, <3>3
      <4>2. QED
        BY <4>1
    <3>4. CASE k > i
      <4>1. k - 1 \in 1 .. Len(queue') /\ queue'[k - 1] = q
        BY <1>2, <3>2, <3>4
      <4>2. QED
        BY <4>1
    <3>5. QED
      BY <1>1, <1>2, <3>1, <3>2, <3>3, <3>4
  <2>2. ASSUME NEW q \in Requests, NEW j \in 1 .. Len(queue'), queue'[j] = q
        PROVE  call'[q] = "queued"
    <3>1. q # r
      BY <1>6, <2>2
    <3>2. \E k \in 1 .. Len(queue) : queue[k] = q
      <4>1. j \in 1 .. Len(queue) /\ j + 1 \in 1 .. Len(queue)
        BY <1>2
      <4>2. QED
        BY <1>2, <2>2, <4>1
    <3>3. QED
      BY <1>3, <3>1, <3>2 DEF QueueOrder, TypeOK
  <2>3. QED
    BY <2>1, <2>2
<1>8. \A q \in Requests : call'[q] = "active" <=> active' = q
  BY <1>3 DEF QueueOrder, TypeOK
<1>9. QED
  BY <1>3, <1>4, <1>5, <1>7, <1>8 DEF QueueOrder

LEMMA SettleActiveKeepsOrder ==
    ASSUME TypeOK, QueueIsSound, SettleActive
    PROVE  QueueOrder'
<1> DEFINE next == IF queue = <<>> \/ refused THEN None ELSE Head(queue)
<1>0. QueueOrder
  BY DEF QueueIsSound, QueueOrder
<1>1. active \in Requests /\ call[active] = "active"
  BY <1>0 DEF SettleActive, TypeOK, QueueOrder
<1>2. CASE queue = <<>>
  <2>1. /\ queue' = <<>> /\ active' = None /\ call' = [call EXCEPT ![active] = "done"]
    BY <1>2 DEF SettleActive
  <2>2. \A q \in Requests : call[q] # "queued"
    BY <1>0, <1>2, EmptySeq DEF QueueOrder
  <2>3. \A q \in Requests : call'[q] # "queued" /\ call'[q] # "active"
    BY <1>0, <1>1, <2>1, <2>2 DEF QueueOrder, TypeOK
  <2>4. QED
    BY <2>1, <2>3, GhidraAssumption, EmptiedOrder
<1>3. CASE queue # <<>>
  <2>1. /\ Head(queue) \in Requests /\ call[Head(queue)] = "queued"
        /\ Head(queue) = queue[1] /\ Tail(queue) \in Seq(Requests)
        /\ Len(queue) \in Nat /\ Len(Tail(queue)) = Len(queue) - 1
        /\ \A i \in 1 .. Len(Tail(queue)) : Tail(queue)[i] = queue[i + 1]
    BY <1>3, HeadIsQueued
  <2>2. ~refused /\ Head(queue) # None
    BY <1>0, <1>3, <2>1, GhidraAssumption DEF QueueOrder
  <2>3. /\ queue' = Tail(queue) /\ active' = Head(queue) /\ UNCHANGED refused
        /\ call' = [call EXCEPT ![active] = "done", ![Head(queue)] = "active"]
    BY <1>3, <2>2 DEF SettleActive, Dispatch
  <2>4. \A q \in Requests : call'[q] = "active" <=> active' = q
    BY <1>0, <1>1, <2>1, <2>3 DEF QueueOrder, TypeOK
  <2>5. \A i, j \in 1 .. Len(queue') : queue'[i] = queue'[j] => i = j
    BY <1>0, <2>1, <2>3 DEF QueueOrder
  <2>6. \A q \in Requests :
          call'[q] = "queued" <=> \E i \in 1 .. Len(queue') : queue'[i] = q
    <3>1. ASSUME NEW q \in Requests, call'[q] = "queued"
          PROVE  \E i \in 1 .. Len(queue') : queue'[i] = q
      <4>1. q # Head(queue) /\ call[q] = "queued"
        BY <1>1, <2>1, <2>3, <3>1 DEF TypeOK
      <4>2. PICK k \in 1 .. Len(queue) : queue[k] = q
        BY <1>0, <4>1 DEF QueueOrder
      <4>3. k - 1 \in 1 .. Len(queue') /\ queue'[k - 1] = q
        BY <2>1, <2>3, <4>1, <4>2
      <4>4. QED
        BY <4>3
    <3>2. ASSUME NEW q \in Requests, NEW i \in 1 .. Len(queue'), queue'[i] = q
          PROVE  call'[q] = "queued"
      <4>1. i + 1 \in 1 .. Len(queue) /\ queue[i + 1] = q /\ i + 1 # 1
        BY <2>1, <2>3, <3>2
      <4>2. call[q] = "queued" /\ q # Head(queue)
        BY <1>0, <1>3, <2>1, <4>1 DEF QueueOrder
      <4>3. QED
        BY <1>1, <2>3, <4>2 DEF TypeOK
    <3>3. QED
      BY <3>1, <3>2
  <2>7. active' # None /\ ~refused'
    BY <2>2, <2>3
  <2>8. QED
    BY <2>4, <2>5, <2>6, <2>7 DEF QueueOrder
<1>4. QED
  BY <1>2, <1>3

LEMMA StepKeepsOrder ==
    ASSUME TypeOK, QueueIsSound, StepsAreExclusive, NobodyIsEarly, Next
    PROVE  QueueOrder'
<1> USE DEF TypeOK, startup, owned, queueing, closer, calls, Tell, Fail, Move
<1>0. QueueOrder
  BY DEF QueueIsSound, QueueOrder
<1> DEFINE Same == /\ UNCHANGED <<queue, active>> /\ (refused' => refused)
                   /\ \A r \in Requests : /\ call'[r] = "queued" <=> call[r] = "queued"
                                          /\ call'[r] = "active" <=> call[r] = "active"
<1>1. ASSUME NEW r \in Requests,
             LeaveStartup(r) \/ LeaveWait(r) \/ LeaveLater(r) \/ LateReply(r) \/ Start(r)
      PROVE  QueueOrder'
  <2>1. CASE LeaveStartup(r) \/ LeaveWait(r) \/ LeaveLater(r) \/ LateReply(r)
    <3>1. Same
      BY <2>1 DEF LeaveStartup, LeaveWait, LeaveLater, LateReply, Leave
    <3>2. QED
      BY <1>0, <3>1, SameOrder
  <2>2. CASE Start(r)
    <3>1. Same
      BY <2>2, ZenonT(40) DEF Start, Begin
    <3>2. QED
      BY <1>0, <3>1, SameOrder
  <2>3. QED
    BY <1>1, <2>1, <2>2
<1>2. ASSUME NEW r \in Requests, LeaveQueue(r)
      PROVE  QueueOrder'
  BY <1>0, <1>2, LeaveQueueKeepsOrder
<1>3. ASSUME NEW r \in Requests, CancelActive(r)
      PROVE  QueueOrder'
  <2>1. /\ queue' = <<>> /\ active' = active
        /\ \A q \in Requests : call'[q] = IF q \in Queued THEN "done" ELSE call[q]
    BY <1>3 DEF CancelActive, FailQueued
  <2>2. QED
    BY <1>0, <2>1, EmptiedOrder DEF Queued, QueueOrder
<1>4. ASSUME NEW r \in Requests, Proceed(r)
      PROVE  QueueOrder'
  BY <1>0, <1>4, RunKeepsOrder DEF Proceed
<1>5. ASSUME NEW r \in Requests, CallIfReady(r)
      PROVE  QueueOrder'
  <2>1. CASE IsReady
    BY <1>0, <1>5, <2>1, RunKeepsOrder DEF CallIfReady
  <2>2. CASE ~IsReady
    <3>1. Same
      BY <1>5, <2>2 DEF CallIfReady
    <3>2. QED
      BY <1>0, <3>1, SameOrder
  <2>3. QED
    BY <2>1, <2>2
<1>6. CASE Acquire \/ ConnectFails \/ Ready
  <2>1. Same
    BY <1>6 DEF Acquire, ConnectFails, Ready, Awaiting
  <2>2. QED
    BY <1>0, <2>1, SameOrder
<1>7. CASE StartFails
  <2>1. \A q \in Requests : call[q] # "queued"
    <3>1. CASE refused
      BY <1>0, <3>1, EmptySeq DEF QueueOrder
    <3>2. CASE ~refused
      BY <1>7, <3>2 DEF NobodyIsEarly, Admitted, StepsAreExclusive, StartFails
    <3>3. QED
      BY <3>1, <3>2
  <2>2. /\ queue' = <<>> /\ active' = active
        /\ \A q \in Requests : /\ call'[q] # "queued"
                               /\ call'[q] = "active" <=> call[q] = "active"
    BY <1>7, <2>1 DEF StartFails, FailQueued, Awaiting
  <2>3. QED
    BY <1>0, <2>2, EmptiedOrder DEF QueueOrder
<1>8. CASE Reply \/ TimeOut \/ ProcessExits \/ SocketBreaks
  BY <1>0, <1>8, SameOrder DEF Reply, TimeOut, ProcessExits, SocketBreaks
<1>9. CASE SettleActive
  BY <1>9, SettleActiveKeepsOrder
<1>10. CASE StopAfterCancellation \/ Close \/ SaveSucceeds \/ Shutdown
  <2>1. UNCHANGED <<queue, active, refused, call>>
    BY <1>10 DEF StopAfterCancellation, Close, SaveSucceeds, Shutdown
  <2>2. QED
    BY <1>0, <2>1, SameOrder
<1>11. CASE CloseBegins
  <2>1. /\ queue' = <<>> /\ active' = active
        /\ \A q \in Requests : call'[q] = IF q \in Queued THEN "done" ELSE call[q]
    BY <1>11 DEF CloseBegins, FailQueued
  <2>2. QED
    BY <1>0, <2>1, EmptiedOrder DEF Queued, QueueOrder
<1>12. CASE SaveFails \/ Stop
  <2>1. Same
    BY <1>12 DEF SaveFails, Stop, CloseSettles
  <2>2. QED
    BY <1>0, <2>1, SameOrder
<1>13. QED
  BY <1>1, <1>2, <1>3, <1>4, <1>5, <1>6, <1>7, <1>8, <1>9, <1>10, <1>11, <1>12
     DEF Next, SessionSteps

(* A session is opened, and found lost, with nobody on the way to the       *)
(* queue; and a save fails only with a socket.                              *)
LEMMA StepKeepsNobodyEarly ==
    ASSUME TypeOK, QueueIsSound, StepsAreExclusive, NobodyIsEarly, Next
    PROVE  NobodyIsEarly'
<1> USE DEF TypeOK, NobodyIsEarly, Admitted, StepsAreExclusive, Cleaning, startup, owned,
            queueing, closer, calls, Tell, Fail, Move
<1>1. ASSUME NEW r \in Requests,
             LeaveStartup(r) \/ LeaveWait(r) \/ LeaveLater(r) \/ LeaveQueue(r) \/ LateReply(r)
      PROVE  NobodyIsEarly'
  BY <1>1 DEF LeaveStartup, LeaveWait, LeaveLater, LeaveQueue, LateReply, Leave
<1>2. ASSUME NEW r \in Requests, CancelActive(r)
      PROVE  NobodyIsEarly'
  BY <1>2 DEF CancelActive, FailQueued
<1>3. ASSUME NEW r \in Requests, Start(r)
      PROVE  NobodyIsEarly'
  BY <1>3, ZenonT(40) DEF Start, Begin, HasOwnedResources
<1>4. ASSUME NEW r \in Requests, Proceed(r)
      PROVE  NobodyIsEarly'
  BY <1>4 DEF Proceed, Run
<1>5. ASSUME NEW r \in Requests, CallIfReady(r)
      PROVE  NobodyIsEarly'
  BY <1>5 DEF CallIfReady, Run, IsReady
<1>6. CASE Acquire \/ ConnectFails \/ Ready
  BY <1>6 DEF Acquire, ConnectFails, Ready
<1>7. CASE StartFails \/ CloseBegins
  BY <1>7 DEF StartFails, CloseBegins, FailQueued
<1>8. CASE Reply \/ TimeOut \/ ProcessExits \/ SocketBreaks
  BY <1>8 DEF Reply, TimeOut, ProcessExits, SocketBreaks
<1>9. CASE SettleActive
  <2>1. active \in Requests /\ call[active] = "active"
    BY <1>9 DEF SettleActive, QueueIsSound
  <2>2. queue # <<>> => Head(queue) \in Requests /\ call[Head(queue)] = "queued"
    BY HeadIsQueued
  <2>3. Admitted' \subseteq Admitted /\ UNCHANGED <<attempt, socket, refused>>
    BY <1>9, <2>1, <2>2 DEF SettleActive
  <2>4. QED
    BY <2>3
<1>10. CASE StopAfterCancellation \/ Close \/ SaveSucceeds \/ Shutdown
  BY <1>10 DEF StopAfterCancellation, Close, RequestClose, SaveSucceeds, Shutdown
<1>11. CASE SaveFails \/ Stop
  BY <1>11 DEF SaveFails, Stop, CloseSettles
<1>12. QED
  BY <1>1, <1>2, <1>3, <1>4, <1>5, <1>6, <1>7, <1>8, <1>9, <1>10, <1>11 DEF Next, SessionSteps

-----------------------------------------------------------------------------
(* What a request was told                                                  *)

LEMMA RunKeepsAnswers ==
    ASSUME TypeOK, SettledIsOver, AnswersAreFinal, NEW r \in Requests,
           call[r] \in {"idle", "started"}, Run(r)
    PROVE  AnswersAreFinal' /\ SettledIsOver'
<1> USE DEF TypeOK, AnswersAreFinal, SettledIsOver, Run, Tell, Fail, Move
<1>1. r \notin bridge /\ answer[r] = "none"
  OBVIOUS
<1>2. CASE refused \/ gone[r]
  BY <1>1, <1>2
<1>3. CASE ~refused /\ ~gone[r] /\ active = None
  <2>1. /\ active' = r /\ wire' \in {"sent", "failed"} /\ cancel' = "none"
        /\ bridge' \subseteq bridge \cup {r}
        /\ call' = [call EXCEPT ![r] = "active"] /\ answer' = answer
    BY <1>3 DEF Dispatch
  <2>2. QED
    BY <1>1, <2>1, GhidraAssumption
<1>4. CASE ~refused /\ ~gone[r] /\ active # None
  <2>1. /\ UNCHANGED <<active, wire, cancel, bridge, answer>>
        /\ call' = [call EXCEPT ![r] = "queued"]
    BY <1>4
  <2>2. QED
    BY <1>1, <2>1
<1>5. QED
  BY <1>2, <1>3, <1>4

LEMMA SettleActiveKeepsAnswers ==
    ASSUME TypeOK, QueueIsSound, SettledIsOver, AnswersAreFinal, SettleActive
    PROVE  AnswersAreFinal' /\ SettledIsOver'
<1> USE DEF TypeOK, AnswersAreFinal, SettledIsOver
<1>1. active \in Requests /\ call[active] = "active"
  BY DEF SettleActive, QueueIsSound
<1>2. PICK what \in {"ok", "cancelled", "failed"} :
        /\ answer' = [answer EXCEPT ![active] = what]
        /\ what # "failed" => active \notin bridge
  BY DEF SettleActive
<1>3. CASE queue = <<>> \/ refused
  <2>1. /\ call' = [call EXCEPT ![active] = "done"]
        /\ active' = None /\ wire' = "none" /\ cancel' = "none" /\ bridge' = bridge
    BY <1>3 DEF SettleActive
  <2>2. QED
    BY <1>1, <1>2, <2>1
<1>4. CASE ~(queue = <<>> \/ refused)
  <2>1. Head(queue) \in Requests /\ call[Head(queue)] = "queued"
    BY <1>4, HeadIsQueued
  <2>2. Head(queue) # None /\ Head(queue) # active /\ Head(queue) \notin bridge
    BY <1>1, <2>1, GhidraAssumption
  <2>3. /\ call' = [call EXCEPT ![active] = "done", ![Head(queue)] = "active"]
        /\ active' = Head(queue) /\ wire' \in {"sent", "failed"} /\ cancel' = "none"
        /\ bridge' \subseteq bridge \cup {Head(queue)}
    BY <1>4, <2>2 DEF SettleActive, Dispatch
  <2>4. QED
    BY <1>1, <1>2, <2>1, <2>2, <2>3
<1>5. QED
  BY <1>3, <1>4

LEMMA StepKeepsAnswers ==
    ASSUME TypeOK, QueueIsSound, SettledIsOver, AnswersAreFinal, Next
    PROVE  AnswersAreFinal' /\ SettledIsOver'
<1> USE DEF TypeOK, AnswersAreFinal, SettledIsOver, startup, owned, queueing, closer, calls,
            Tell, Fail, Move
<1>1. ASSUME NEW r \in Requests, LeaveStartup(r) \/ LeaveWait(r) \/ LeaveLater(r) \/ LeaveQueue(r)
      PROVE  AnswersAreFinal' /\ SettledIsOver'
  BY <1>1 DEF LeaveStartup, LeaveWait, LeaveLater, LeaveQueue, Leave
<1>2. ASSUME NEW r \in Requests, CancelActive(r)
      PROVE  AnswersAreFinal' /\ SettledIsOver'
  <2>1. active = r /\ active # None
    BY <1>2, GhidraAssumption DEF CancelActive, QueueIsSound
  <2>2. /\ \A q \in Requests : /\ call'[q] = IF q \in Queued THEN "done" ELSE call[q]
                               /\ answer'[q] = IF q \in Queued THEN "failed" ELSE answer[q]
        /\ cancel' = "requested" /\ (wire' = "answered" => wire = "answered")
        /\ UNCHANGED <<active, bridge>>
    BY <1>2 DEF CancelActive
  <2>3. QED
    BY <2>1, <2>2 DEF Queued
<1>3. ASSUME NEW r \in Requests, Start(r)
      PROVE  AnswersAreFinal' /\ SettledIsOver'
  <2>1. r \notin bridge /\ answer[r] = "none"
    BY <1>3 DEF Start
  <2>2. UNCHANGED <<active, wire, cancel, bridge>>
    BY <1>3 DEF Start
  <2>3. \/ call'[r] = "done" /\ answer'[r] # "none"
        \/ call'[r] # "done" /\ answer'[r] = "none"
    BY <1>3, <2>1 DEF Start, Begin
  <2>4. \A q \in Requests \ {r} : call'[q] = call[q] /\ answer'[q] = answer[q]
    BY <1>3 DEF Start, Begin
  <2>5. QED
    BY <2>1, <2>2, <2>3, <2>4
<1>4. ASSUME NEW r \in Requests, Proceed(r)
      PROVE  AnswersAreFinal' /\ SettledIsOver'
  BY <1>4, RunKeepsAnswers DEF Proceed
<1>5. ASSUME NEW r \in Requests, CallIfReady(r)
      PROVE  AnswersAreFinal' /\ SettledIsOver'
  BY <1>5, RunKeepsAnswers DEF CallIfReady
<1>6. CASE Acquire \/ ConnectFails \/ Ready
  BY <1>6 DEF Acquire, ConnectFails, Ready, Awaiting
<1>7. CASE StartFails
  BY <1>7 DEF StartFails, Awaiting
<1>8. CASE Reply \/ TimeOut \/ ProcessExits \/ SocketBreaks
  BY <1>8 DEF Reply, TimeOut, ProcessExits, SocketBreaks
<1>9. ASSUME NEW r \in Requests, LateReply(r)
      PROVE  AnswersAreFinal' /\ SettledIsOver'
  BY <1>9 DEF LateReply
<1>10. CASE SettleActive
  BY <1>10, SettleActiveKeepsAnswers
<1>11. CASE StopAfterCancellation \/ Close \/ SaveSucceeds \/ Shutdown
  BY <1>11 DEF StopAfterCancellation, Close, SaveSucceeds, Shutdown
<1>12. CASE CloseBegins
  BY <1>12 DEF CloseBegins, Queued
<1>13. CASE SaveFails
  BY <1>13 DEF SaveFails, CloseSettles
<1>14. CASE Stop
  <2>1. bridge' = IF process' = "none" THEN {} ELSE bridge
    BY <1>14 DEF Stop
  <2>2. /\ UNCHANGED <<active, wire>> /\ (cancel' # "none" => cancel # "none")
        /\ cancel' = "released" => cancel = "released" \/ bridge' = {}
    BY <1>14 DEF Stop, CloseSettles
  <2>3. \A r \in Requests : \/ call'[r] = call[r] /\ answer'[r] = answer[r]
                            \/ call[r] = "closing" /\ call'[r] = "again" /\ answer'[r] = answer[r]
                            \/ call'[r] = "done" /\ answer'[r] = "failed"
    BY <1>14 DEF Stop, CloseSettles
  <2>4. \A r \in bridge : call'[r] \in {"active", "done"}
    BY <2>3
  <2>5. QED
    BY <2>1, <2>2, <2>3, <2>4
<1>15. QED
  BY <1>1, <1>2, <1>3, <1>4, <1>5, <1>6, <1>7, <1>8, <1>9, <1>10, <1>11, <1>12, <1>13, <1>14
     DEF Next, SessionSteps

-----------------------------------------------------------------------------
(* The theorems                                                             *)

(* The inductive invariant of the session, for any set of requests, with or *)
(* without checkpoints.                                                     *)
THEOREM GhidraInvariantHolds == Spec => []GhidraInvariant
<1>1. Init => GhidraInvariant
  <2> SUFFICES ASSUME Init
               PROVE  GhidraInvariant
    OBVIOUS
  <2> USE EmptySeq DEF Init
  <2>1. TypeOK
    BY DEF TypeOK
  <2>2. QueueIsSound
    BY GhidraAssumption DEF QueueIsSound, IsReady
  <2>3. StartsFromNothing /\ SettledIsOver /\ StepsAreExclusive /\ NobodyIsEarly
    BY DEF StartsFromNothing, SettledIsOver, StepsAreExclusive, Cleaning, NobodyIsEarly, Admitted
  <2>4. AnswersAreFinal
    BY DEF AnswersAreFinal
  <2>5. QED
    BY <2>1, <2>2, <2>3, <2>4 DEF GhidraInvariant
<1>2. GhidraInvariant /\ [Next]_vars => GhidraInvariant'
  <2> SUFFICES ASSUME GhidraInvariant, [Next]_vars
               PROVE  GhidraInvariant'
    OBVIOUS
  <2>1. CASE Next
    <3>1. ReadyAdmits
      BY DEF GhidraInvariant, QueueIsSound, ReadyAdmits
    <3>2. QueueOrder' /\ ReadyAdmits'
      BY <2>1, <3>1, StepKeepsOrder, StepKeepsReady DEF GhidraInvariant
    <3>3. QueueIsSound'
      BY <3>2 DEF QueueIsSound, QueueOrder, ReadyAdmits
    <3>4. QED
      BY <2>1, <3>3, StepKeepsTypes, StepKeepsStepsExclusive, StepKeepsNobodyEarly,
         StepKeepsAnswers DEF GhidraInvariant
  <2>2. CASE UNCHANGED vars
    BY <2>2 DEF GhidraInvariant, TypeOK, QueueIsSound, IsReady, StartsFromNothing, SettledIsOver,
                StepsAreExclusive, Cleaning, NobodyIsEarly, Admitted, AnswersAreFinal, vars,
                startup, owned, queueing, closer, calls
  <2>3. QED
    BY <2>1, <2>2
<1>3. QED
  BY <1>1, <1>2, PTL DEF Spec

(* `GhidraRequestQueue`: whichever calls start, queue, are cancelled and    *)
(* settle, the queue holds exactly those that wait, each once, behind one   *)
(* that is at the bridge; and a session that is ready admits requests.      *)
THEOREM NoRequestIsStranded == Spec => []QueueIsSound
<1>1. GhidraInvariant => QueueIsSound
  BY DEF GhidraInvariant
<1>2. QED
  BY <1>1, GhidraInvariantHolds, PTL

(* `GhidraClient.#start`: a process is acquired with nothing of an earlier  *)
(* one left.                                                                *)
THEOREM NoSecondGhidra == Spec => []StartsFromNothing
<1>1. GhidraInvariant => StartsFromNothing
  BY DEF GhidraInvariant
<1>2. QED
  BY <1>1, GhidraInvariantHolds, PTL

(* `#executeEntry`: a request is told that it succeeded, or was cancelled,  *)
(* only when the bridge no longer works on it.                              *)
THEOREM SettledRequestsAreOver == Spec => []SettledIsOver
<1>1. GhidraInvariant => SettledIsOver
  BY DEF GhidraInvariant
<1>2. QED
  BY <1>1, GhidraInvariantHolds, PTL

(* `#close`: the one that stops the process and removes its files forgets   *)
(* the startup, and leaves no socket, no work and no queue.                 *)
THEOREM SuccessfulCloseLeavesNothing == Spec => CloseReleasesAll
<1>1. ASSUME GhidraInvariant, [Next]_vars,
             close = "stopping", close' = "none", process' = "none", ~files'
      PROVE  attempt' = "none" /\ socket' = "none" /\ bridge' = {} /\ queue' = <<>>
  <2>1. Stop
    BY <1>1 DEF Next, SessionSteps, vars, startup, owned, queueing, closer, calls, Start, Proceed,
                CallIfReady, Run, LeaveStartup, LeaveWait, LeaveLater, LeaveQueue, CancelActive,
                LateReply, Acquire, ConnectFails, Ready, StartFails, Reply, SettleActive,
                StopAfterCancellation, RequestClose, CloseBegins, SaveSucceeds, SaveFails,
                Shutdown, ProcessExits, SocketBreaks, TimeOut, Close
  <2>2. refused /\ socket = "none" /\ attempt # "starting" /\ queue = <<>>
    BY <1>1 DEF GhidraInvariant, StepsAreExclusive, Cleaning, QueueIsSound
  <2>3. QED
    BY <1>1, <2>1, <2>2 DEF Stop, CloseSettles, Forgets, GhidraInvariant, TypeOK
<1>2. QED
  BY <1>1, GhidraInvariantHolds, PTL DEF Spec, CloseReleasesAll

=============================================================================
