--------------------------- MODULE HttpServerProofs ---------------------------
(***************************************************************************)
(* The HTTP server, for any number of requests, sessions and any capacity: *)
(* the server takes only steps of its session slot, whose inductive        *)
(* invariant keeps handlers to the session that is owned; and admissions   *)
(* last as long as the work they were given for.                           *)
(***************************************************************************)
EXTENDS HttpServer, FiniteSetTheorems, TLAPS

(* A session that a request was given is live or fenced, it is fenced       *)
(* before it ends, and the next one is armed only when none is left.        *)
SessionsAreOwned ==
    /\ ending # "none" => live # None /\ live \in fenced
    /\ arming # None => live = None
    /\ \A r \in Requests :
          /\ sess[r] # None => sess[r] = live \/ sess[r] \in fenced
          /\ pc[r] \in {"given", "dispatch", "reading"} => sess[r] # None

(* Handlers are tracked before they start, and the end of a session waits   *)
(* for those that have.                                                     *)
HandlersAreTracked ==
    \A r \in Requests :
        /\ tool[r] # "none" => pc[r] \in {"responding", "done"} /\ sess[r] # None
        /\ tool[r] \in {"tracked", "started"} => <<r, "tool">> \in calls
        /\ Working(r) => live = sess[r] /\ (ending = "waiting" => <<r, "tool">> \in drain)

(* A shutdown refuses requests first, then awaits the session being armed,  *)
(* then ends the one that is live.                                          *)
ShutdownIsOrdered ==
    /\ stop # "no" => slotClosed
    /\ stop \notin {"no", "prepare"} => arming = None
    /\ stop \in {"drained", "closed"} => live = None

SlotInvariant ==
    /\ TypeOK
    /\ SessionsAreOwned
    /\ HandlersAreTracked
    /\ ShutdownIsOrdered

(* A request is on its way through the slot only while it is served.        *)
RoutedIsServed ==
    \A r \in Requests :
        /\ asks[r] = "plain" => pc[r] = "idle"
        /\ pc[r] \notin {"idle", "done"} => exchange[r] = "serving"

AdmissionsCoverWork ==
    /\ IsFiniteSet(reserved) /\ Cardinality(reserved) <= Capacity
    /\ \A r \in Requests : Occupies(r) => r \in reserved

(* What was joined before the server closed stays over.                     *)
ClosedIsJoined ==
    stage = "closed" =>
        /\ stop = "closed"
        /\ \A r \in Requests : exchange[r] \in {"none", "over", "told"}
        /\ cleanups = {} /\ failed = {}

ServerInvariant ==
    /\ SlotInvariant
    /\ ServerTypeOK
    /\ RoutedIsServed
    /\ AdmissionsCoverWork
    /\ ClosedIsJoined

-----------------------------------------------------------------------------
(* The session slot *)

LEMMA InitEstablishesSlotInvariant == Init => SlotInvariant
<1> SUFFICES ASSUME Init PROVE SlotInvariant
  OBVIOUS
<1>1. TypeOK
  <2>1. {slotClosed, draining, bounded} \subseteq BOOLEAN
    BY DEF Init
  <2>2. used \in 0 .. MaxSessions
    BY HttpSlotAssumption DEF Init
  <2>3. QED
    BY <2>1, <2>2 DEF Init, TypeOK
<1>2. SessionsAreOwned /\ HandlersAreTracked /\ ShutdownIsOrdered
  BY DEF Init, SessionsAreOwned, HandlersAreTracked, ShutdownIsOrdered, Working
<1>3. QED
  BY <1>1, <1>2 DEF SlotInvariant

(* The end of a session begins with its fence, and is joined later.         *)
LEMMA EndKeepsSessions ==
    ASSUME SlotInvariant, live # None, End, UNCHANGED <<live, arms>>
    PROVE  /\ ending' # "none" /\ live \in fenced' /\ fenced \subseteq fenced'
           /\ fenced' \subseteq Sessions
           /\ ending' \in {"closing", "waiting"} /\ draining' \in BOOLEAN
           /\ ending' = "waiting" => ending = "waiting"
           /\ UNCHANGED <<bounded, drain>>
  BY DEF SlotInvariant, TypeOK, SessionsAreOwned, End, endings, fencing

(* A step of a request routes it, gives it a session or ends its session;   *)
(* handlers do not move.                                                    *)
LEMMA RoutingKeepsSlot ==
    ASSUME SlotInvariant, NEW r \in Requests, Arrive(r) \/ Probed(r) \/ AfterDrain(r)
    PROVE  SlotInvariant'
<1> USE HttpSlotAssumption
    DEF SlotInvariant, TypeOK, SessionsAreOwned, HandlersAreTracked, ShutdownIsOrdered, Working,
        arms, work, given
<1>1. /\ pc[r] \in {"idle", "probe", "route"}
      /\ \E where \in {"done", "probe", "drain", "evict", "current"} :
           pc' = [pc EXCEPT ![r] = where]
      /\ UNCHANGED <<live, arms, slotClosed, work, given, stop>>
  BY DEF Arrive, Probed, AfterDrain, Route, Goto, Tell
<1>2. UNCHANGED endings \/ (live # None /\ End)
  BY DEF Arrive, Probed, AfterDrain, Route
<1>3. CASE UNCHANGED endings
  BY <1>1, <1>3 DEF endings, fencing
<1>4. CASE live # None /\ End
  BY <1>1, <1>4, EndKeepsSessions
<1>5. QED
  BY <1>2, <1>3, <1>4

LEMMA CurrentKeepsSlot ==
    ASSUME SlotInvariant, NEW r \in Requests, Current(r)
    PROVE  SlotInvariant'
<1> USE HttpSlotAssumption
    DEF SlotInvariant, TypeOK, SessionsAreOwned, HandlersAreTracked, ShutdownIsOrdered, Working,
        arms, work, given, endings, fencing, Current, Goto, Tell
<1>1. CASE slotClosed /\ Tell(r) /\ UNCHANGED arms
  BY <1>1
<1>2. CASE live # None /\ sess' = [sess EXCEPT ![r] = live]
  BY <1>2
<1>3. CASE ~slotClosed /\ live = None /\ Goto(r, "arming")
  <2>1. arming' \in Sessions \cup {None} /\ used' \in 0 .. MaxSessions
    BY <1>3 DEF Sessions
  <2>2. QED
    BY <1>3, <2>1
<1>4. QED
  BY <1>1, <1>2, <1>3

LEMMA GivenKeepsSlot ==
    ASSUME SlotInvariant, NEW r \in Requests, Given(r)
    PROVE  SlotInvariant'
<1> USE HttpSlotAssumption
    DEF SlotInvariant, TypeOK, SessionsAreOwned, HandlersAreTracked, ShutdownIsOrdered, Working,
        arms, work, given
<1>1. /\ pc[r] = "given"
      /\ \E where \in {"done", "delete", "dispatch"} : pc' = [pc EXCEPT ![r] = where]
      /\ calls \subseteq calls' /\ calls' \subseteq calls \cup {<<r, "http">>}
      /\ UNCHANGED <<live, arms, slotClosed, initialized, tool, given, stop>>
  BY DEF Given, Goto, Tell, Tracks
<1>2. UNCHANGED endings \/ (live # None /\ End)
  BY DEF Given, Refused, Sessions
<1>3. CASE UNCHANGED endings
  BY <1>1, <1>3 DEF endings, fencing
<1>4. CASE live # None /\ End
  BY <1>1, <1>4, EndKeepsSessions
<1>5. QED
  BY <1>2, <1>3, <1>4

LEMMA DispatchKeepsSlot ==
    ASSUME SlotInvariant, NEW r \in Requests, Dispatch(r) \/ Deliver(r) \/ Respond(r)
    PROVE  SlotInvariant'
<1> USE HttpSlotAssumption
    DEF SlotInvariant, TypeOK, SessionsAreOwned, HandlersAreTracked, ShutdownIsOrdered, Working,
        arms, work, given, endings, fencing, Goto, Tell
<1>1. CASE Dispatch(r)
  BY <1>1 DEF Dispatch, Settled
<1>2. CASE Deliver(r)
  <2>1. CASE asks[r] = "initialize"
    BY <1>2, <2>1 DEF Deliver
  <2>2. CASE asks[r] # "initialize"
    BY <1>2, <2>2 DEF Deliver
  <2>3. QED
    BY <2>1, <2>2
<1>3. CASE Respond(r)
  BY <1>3 DEF Respond, Settled
<1>4. QED
  BY <1>1, <1>2, <1>3

(* A handler starts only in a session that is not fenced, so in the live    *)
(* one while it does not end.                                               *)
LEMMA HandlerKeepsSlot ==
    ASSUME SlotInvariant, NEW r \in Requests, ToolSteps(r) \/ ToolReturns(r)
    PROVE  SlotInvariant'
<1> USE HttpSlotAssumption
    DEF SlotInvariant, TypeOK, SessionsAreOwned, HandlersAreTracked, ShutdownIsOrdered, Working,
        arms, work, given, endings, fencing, routed
<1>1. CASE Track(r)
  BY <1>1 DEF Track
<1>2. CASE StartTool(r)
  BY <1>2 DEF StartTool, Aborted, Settled
<1>3. CASE ToolReturns(r)
  BY <1>3 DEF ToolReturns, Settled
<1>4. QED
  BY <1>1, <1>2, <1>3 DEF ToolSteps

LEMMA EndingKeepsSlot ==
    ASSUME SlotInvariant, TransportClosed \/ CloseFails \/ Drained \/ DrainTimesOut
    PROVE  SlotInvariant'
<1> USE HttpSlotAssumption
    DEF SlotInvariant, TypeOK, SessionsAreOwned, HandlersAreTracked, ShutdownIsOrdered, Working,
        arms, work, given, routed
<1>1. CASE TransportClosed
  BY <1>1 DEF TransportClosed, DrainIsBounded
<1>2. CASE CloseFails
  BY <1>2 DEF CloseFails, WhenFailed
<1>3. CASE Drained
  BY <1>3 DEF Drained, WhenEnded
<1>4. CASE DrainTimesOut
  BY <1>4 DEF DrainTimesOut, WhenFailed
<1>5. QED
  BY <1>1, <1>2, <1>3, <1>4

LEMMA ArmingKeepsSlot ==
    ASSUME SlotInvariant, Armed \/ ConnectFails
    PROVE  SlotInvariant'
<1> USE HttpSlotAssumption
    DEF SlotInvariant, TypeOK, SessionsAreOwned, HandlersAreTracked, ShutdownIsOrdered, Working,
        arms, work, given, endings, fencing
<1>1. CASE Armed
  BY <1>1 DEF Armed
<1>2. CASE ConnectFails
  BY <1>2 DEF ConnectFails
<1>3. QED
  BY <1>1, <1>2

LEMMA ShutdownKeepsSlot ==
    ASSUME SlotInvariant, PrepareShutdown \/ CloseLive \/ RunHook
    PROVE  SlotInvariant'
<1> USE HttpSlotAssumption
    DEF SlotInvariant, TypeOK, SessionsAreOwned, HandlersAreTracked, ShutdownIsOrdered, Working,
        arms, work, given, routed
<1>1. CASE PrepareShutdown
  BY <1>1 DEF PrepareShutdown, endings, fencing
<1>2. CASE CloseLive
  <2>1. CASE live = None
    BY <1>2, <2>1 DEF CloseLive, ArmingAwaited, endings, fencing
  <2>2. CASE live # None
    BY <1>2, <2>2, EndKeepsSessions DEF CloseLive, ArmingAwaited
  <2>3. QED
    BY <2>1, <2>2
<1>3. CASE RunHook
  BY <1>3 DEF RunHook, endings, fencing
<1>4. QED
  BY <1>1, <1>2, <1>3

LEMMA StepPreservesSlotInvariant ==
    ASSUME SlotInvariant, [Next]_vars
    PROVE  SlotInvariant'
<1>1. CASE UNCHANGED vars
  BY <1>1 DEF vars, arms, endings, fencing, work, routed, given, SlotInvariant, TypeOK,
              SessionsAreOwned, HandlersAreTracked, ShutdownIsOrdered, Working
<1>2. QED
  BY <1>1, RoutingKeepsSlot, CurrentKeepsSlot, GivenKeepsSlot, DispatchKeepsSlot,
     HandlerKeepsSlot, EndingKeepsSlot, ArmingKeepsSlot, ShutdownKeepsSlot
     DEF Next, RequestSteps, SlotSteps

-----------------------------------------------------------------------------
(* The server over the slot                                                 *)

(* The server takes only steps of its slot.                                 *)
LEMMA ServerStepsAreSlotSteps ==
    ASSUME [ServerNext]_allVars
    PROVE  [Next]_vars
<1> USE DEF SlotSteps, SlotStep
<1>1. CASE UNCHANGED allVars
  BY <1>1 DEF allVars
<1>2. ASSUME NEW r \in Requests, Handle(r) \/ Leave(r) \/ UploadEnds(r) \/ ExchangeSteps(r)
      PROVE  [Next]_vars
  BY <1>2 DEF Handle, Next, Leave, UploadEnds, ExchangeSteps, DispatchSettled, Delivered,
              RefusalDelivered, CleanupSettles, Disconnect
<1>3. ASSUME NEW r \in Requests, SlotRequestSteps(r) \/ SlotStep(ToolReturns(r))
      PROVE  [Next]_vars
  BY <1>3 DEF Next, SlotRequestSteps
<1>4. CASE SlotStep(TransportClosed) \/ SlotStep(Drained) \/ SlotStep(DrainTimesOut)
           \/ SlotStep(Armed) \/ SlotStep(CloseLive)
  BY <1>4 DEF Next
<1>5. CASE EndFails \/ PrepareSlot
  BY <1>5 DEF Next, EndFails, PrepareSlot
<1>6. CASE Stop \/ Finish
  BY <1>6 DEF Next, Stop, Disconnect, Finish
<1>7. QED
  BY <1>1, <1>2, <1>3, <1>4, <1>5, <1>6 DEF ServerNext

(* The steps of the slot that the server does not tie to one of its own.    *)
Inner ==
    \/ \E r \in Requests : RequestSteps(r) \/ ToolSteps(r) \/ ToolReturns(r)
    \/ SlotSteps

(* They move no request that has not begun, or is answered.                 *)
LEMMA SlotMovesWhatIsRouted ==
    ASSUME SlotInvariant, Inner
    PROVE  /\ UNCHANGED asks
           /\ \A q \in Requests : pc[q] \in {"idle", "done"} => pc'[q] = pc[q]
<1> USE DEF SlotInvariant, TypeOK, Goto, Tell, given, routed
<1>1. ASSUME NEW r \in Requests, RequestSteps(r)
      PROVE  /\ UNCHANGED asks
             /\ \A q \in Requests : pc[q] \in {"idle", "done"} => pc'[q] = pc[q]
  <2>1. UNCHANGED asks
    BY <1>1 DEF RequestSteps, Probed, AfterDrain, Route, Current, Given, Dispatch, Deliver,
                Respond
  <2>2. pc[r] \notin {"idle", "done"}
    BY <1>1 DEF RequestSteps, Probed, AfterDrain, Current, Given, Dispatch, Deliver, Respond
  <2>3. \E where : pc' = [pc EXCEPT ![r] = where]
    BY <1>1 DEF RequestSteps, Probed, AfterDrain, Route, Current, Given, Dispatch, Deliver,
                Respond
  <2>4. QED
    BY <2>1, <2>2, <2>3
<1>2. ASSUME NEW r \in Requests, ToolSteps(r) \/ ToolReturns(r)
      PROVE  UNCHANGED <<asks, pc>>
  BY <1>2 DEF ToolSteps, Track, StartTool, ToolReturns
<1>3. CASE SlotSteps
  BY <1>3 DEF SlotSteps, TransportClosed, CloseFails, Drained, DrainTimesOut, Armed,
              ConnectFails, PrepareShutdown, CloseLive, RunHook, WhenEnded, WhenFailed
<1>4. QED
  BY <1>1, <1>2, <1>3 DEF Inner

LEMMA SlotKeepsRouting ==
    ASSUME SlotInvariant, RoutedIsServed, Inner, UNCHANGED exchange
    PROVE  RoutedIsServed'
  BY SlotMovesWhatIsRouted DEF RoutedIsServed

(* What is worked on keeps its admission when the others are given back.    *)
LEMMA ReleaseKeepsAdmissions ==
    ASSUME AdmissionsCoverWork, ReleaseIfReady, Capacity \in Nat,
           \A q \in Requests : Occupies(q)' => Occupies(q)
    PROVE  AdmissionsCoverWork'
<1>1. reserved' \subseteq reserved
  BY DEF ReleaseIfReady
<1>2. IsFiniteSet(reserved') /\ Cardinality(reserved') <= Capacity
  BY <1>1, FS_Subset, FS_CardinalityType DEF AdmissionsCoverWork
<1>3. \A q \in Requests : Occupies(q)' => ~Finished(q)'
  BY DEF Occupies, Finished
<1>4. QED
  BY <1>2, <1>3 DEF AdmissionsCoverWork, ReleaseIfReady

LEMMA HandleKeepsServer ==
    ASSUME ServerInvariant, TypeOK', NEW r \in Requests, Handle(r)
    PROVE  ServerTypeOK' /\ RoutedIsServed' /\ AdmissionsCoverWork' /\ ClosedIsJoined'
<1> USE HttpServerAssumption
    DEF ServerInvariant, SlotInvariant, ServerTypeOK, Becomes
<1>1. CASE failed # {} \/ Cardinality(reserved) >= Capacity
  <2>1. exchange' = [exchange EXCEPT ![r] = "refused"] /\ exchange[r] = "none"
        /\ stage = "open" /\ UNCHANGED <<vars, reserved, held, uploading, left, cleanups, failed, stage>>
    BY <1>1 DEF Handle
  <2>2. QED
    BY <2>1 DEF vars, routed, given, RoutedIsServed, AdmissionsCoverWork, Occupies, ClosedIsJoined
<1>2. CASE ~(failed # {} \/ Cardinality(reserved) >= Capacity)
  <2>1. /\ exchange' = [exchange EXCEPT ![r] = "serving"] /\ exchange[r] = "none"
        /\ reserved' = reserved \cup {r}
        /\ stage = "open"
        /\ UNCHANGED <<held, uploading, left, cleanups, failed, stage, asks>>
        /\ \A q \in Requests \ {r} : pc'[q] = pc[q]
        /\ asks[r] = "plain" => pc'[r] = pc[r]
    BY <1>2 DEF Handle, vars, routed, given, Arrive, TypeOK
  <2>2. ServerTypeOK'
    BY <2>1
  <2>3. RoutedIsServed'
    BY <2>1 DEF RoutedIsServed
  <2>4. IsFiniteSet(reserved') /\ Cardinality(reserved') <= Capacity
    <3>1. IsFiniteSet(reserved) /\ Cardinality(reserved) \in Nat
      BY FS_CardinalityType DEF AdmissionsCoverWork
    <3>2. Cardinality(reserved) + 1 <= Capacity /\ Cardinality(reserved) <= Capacity
      BY <1>2, <3>1
    <3>3. QED
      BY <2>1, <3>1, <3>2, FS_AddElement
  <2>5. AdmissionsCoverWork'
    BY <2>1, <2>4 DEF AdmissionsCoverWork, Occupies
  <2>6. QED
    BY <2>1, <2>2, <2>3, <2>5 DEF ClosedIsJoined
<1>3. QED
  BY <1>1, <1>2

LEMMA ExchangeKeepsServer ==
    ASSUME ServerInvariant, TypeOK', NEW r \in Requests, ExchangeSteps(r) \/ UploadEnds(r)
    PROVE  ServerTypeOK' /\ RoutedIsServed' /\ AdmissionsCoverWork' /\ ClosedIsJoined'
<1> USE HttpServerAssumption
    DEF ServerInvariant, SlotInvariant, ServerTypeOK, Becomes, vars, routed, given,
        ClosedIsJoined, RoutedIsServed
<1>1. CASE DispatchSettled(r)
  <2>1. /\ exchange[r] = "serving" /\ pc[r] \in {"idle", "done"}
        /\ \E where \in {"over", "writing"} : exchange' = [exchange EXCEPT ![r] = where]
        /\ cleanups \subseteq cleanups' /\ cleanups' \subseteq cleanups \cup {r}
        /\ uploading \subseteq uploading' /\ uploading' \subseteq uploading \cup {r}
        /\ left' \subseteq left
        /\ UNCHANGED <<vars, held, failed, stage>>
        /\ ReleaseIfReady
    BY <1>1 DEF DispatchSettled
  <2>2. \A q \in Requests : Occupies(q)' => Occupies(q)
    BY <2>1 DEF Occupies
  <2>3. AdmissionsCoverWork'
    BY <2>1, <2>2, ReleaseKeepsAdmissions
  <2>4. QED
    BY <2>1, <2>3 DEF ReleaseIfReady
<1>2. CASE Delivered(r)
  <2>1. \A q \in Requests : Occupies(q)' => Occupies(q)
    BY <1>2 DEF Delivered, BodyCancelled, Occupies
  <2>2. AdmissionsCoverWork'
    BY <1>2, <2>1, ReleaseKeepsAdmissions DEF Delivered
  <2>3. QED
    BY <1>2, <2>2 DEF Delivered, BodyCancelled, ReleaseIfReady
<1>3. CASE RefusalDelivered(r)
  BY <1>3 DEF RefusalDelivered, BodyCancelled, AdmissionsCoverWork, Occupies
<1>4. CASE CleanupSettles(r)
  <2>1. \A q \in Requests : Occupies(q)' => Occupies(q)
    BY <1>4 DEF CleanupSettles, Occupies
  <2>2. AdmissionsCoverWork'
    BY <1>4, <2>1, ReleaseKeepsAdmissions DEF CleanupSettles
  <2>3. QED
    BY <1>4, <2>2 DEF CleanupSettles, ReleaseIfReady
<1>5. CASE UploadEnds(r)
  <2>1. \A q \in Requests : Occupies(q)' => Occupies(q)
    BY <1>5 DEF UploadEnds, Occupies
  <2>2. AdmissionsCoverWork'
    BY <1>5, <2>1, ReleaseKeepsAdmissions DEF UploadEnds
  <2>3. QED
    BY <1>5, <2>2 DEF UploadEnds, ReleaseIfReady
<1>6. QED
  BY <1>1, <1>2, <1>3, <1>4, <1>5 DEF ExchangeSteps

LEMMA DisconnectKeepsServer ==
    ASSUME ServerInvariant, TypeOK', (\E r \in Requests : Leave(r)) \/ Stop
    PROVE  ServerTypeOK' /\ RoutedIsServed' /\ AdmissionsCoverWork' /\ ClosedIsJoined'
<1> USE HttpServerAssumption
    DEF ServerInvariant, SlotInvariant, ServerTypeOK, vars, routed, given
<1>1. PICK gone \in SUBSET Requests : Disconnect(gone)
  BY DEF Leave, Stop
<1>2. stage' # "closed" \/ (UNCHANGED stage /\ \E r \in Requests : exchange[r] \notin {"none", "over", "told"})
  BY DEF Leave, Stop
<1>3. stage' \in {"open", "closing", "slot", "blocked", "closed"}
  BY DEF Leave, Stop
<1>4. /\ exchange' \in [Requests -> {"none", "serving", "writing", "over", "refused", "told"}]
      /\ \A q \in Requests :
           /\ exchange'[q] = "serving" <=> exchange[q] = "serving"
           /\ exchange'[q] = "writing" => exchange[q] = "writing"
           /\ exchange'[q] = "over" => exchange[q] \in {"writing", "over"}
           /\ exchange'[q] = "over" /\ q \in cleanups' \ cleanups => exchange[q] = "writing"
      /\ uploading' \subseteq uploading
      /\ cleanups' \subseteq Requests /\ left' \subseteq Requests
      /\ UNCHANGED <<vars, held, failed>>
      /\ ReleaseIfReady
  BY <1>1 DEF Disconnect
<1>5. \A q \in Requests : Occupies(q)' => Occupies(q)
  BY <1>4 DEF Occupies
<1>6. AdmissionsCoverWork'
  BY <1>4, <1>5, ReleaseKeepsAdmissions
<1>7. ServerTypeOK'
  BY <1>3, <1>4 DEF ReleaseIfReady
<1>8. RoutedIsServed'
  BY <1>4 DEF RoutedIsServed
<1>9. QED
  BY <1>2, <1>6, <1>7, <1>8 DEF ClosedIsJoined

(* A request whose admission is prolonged has not been answered yet.        *)
LEMMA SlotStepKeepsServer ==
    ASSUME ServerInvariant, TypeOK', Inner \/ UNCHANGED vars,
           \/ UNCHANGED <<held, stage>>
           \/ EndFails
           \/ PrepareSlot
           \/ Finish,
           UNCHANGED <<exchange, reserved, uploading, left, cleanups, failed>>
    PROVE  ServerTypeOK' /\ RoutedIsServed' /\ AdmissionsCoverWork'
<1> USE DEF ServerInvariant, ServerTypeOK
<1>1. RoutedIsServed'
  BY SlotKeepsRouting DEF RoutedIsServed, vars, routed, given
<1>2. /\ held' \subseteq held \cup {q \in Requests : exchange[q] = "serving"}
      /\ stage' \in {"open", "closing", "slot", "blocked", "closed"}
  BY DEF RoutedIsServed, EndFails, PrepareSlot, Finish
<1>3. QED
  BY <1>1, <1>2 DEF AdmissionsCoverWork, Occupies

(* Once closed, no stage is left, and a closed slot stays closed.           *)
LEMMA ClosedStaysJoined ==
    ASSUME ServerInvariant, [ServerNext]_allVars
    PROVE  ClosedIsJoined'
<1> USE DEF ServerInvariant
<1>1. CASE stage' # "closed"
  BY <1>1 DEF ClosedIsJoined
<1>2. CASE stage # "closed" /\ stage' = "closed"
  <2>1. Finish /\ failed = {}
    BY <1>2 DEF ServerNext, allVars, serverVars, Handle, Leave, Disconnect, UploadEnds,
                ExchangeSteps, DispatchSettled, Delivered, RefusalDelivered, CleanupSettles,
                SlotRequestSteps, SlotStep, EndFails, Stop, PrepareSlot, Finish
  <2>2. QED
    BY <2>1, <1>2 DEF Finish, Joined, RunHook, ClosedIsJoined
<1>3. CASE stage = "closed" /\ stage' = "closed"
  <2>1. /\ stop = "closed" /\ cleanups = {} /\ failed = {}
        /\ \A r \in Requests : exchange[r] \in {"none", "over", "told"}
    BY <1>3 DEF ClosedIsJoined
  <2>2. UNCHANGED <<exchange, cleanups, failed>>
    BY <1>3, <2>1 DEF ServerNext, allVars, serverVars, Handle, Leave, UploadEnds,
         ExchangeSteps, DispatchSettled, Delivered, RefusalDelivered, CleanupSettles,
         SlotRequestSteps, SlotStep, EndFails, Stop, PrepareSlot, Finish
  <2>3. [Next]_vars
    BY ServerStepsAreSlotSteps
  <2>4. stop' = "closed"
    BY <2>1, <2>3 DEF Next, vars, Arrive, RequestSteps, Probed, AfterDrain, Current, Given,
         Dispatch, Deliver, Respond, ToolSteps, Track, StartTool, ToolReturns, SlotSteps,
         TransportClosed, CloseFails, Drained, DrainTimesOut, Armed, ConnectFails,
         PrepareShutdown, CloseLive, ArmingAwaited, RunHook, WhenEnded, WhenFailed
  <2>5. QED
    BY <2>1, <2>2, <2>4 DEF ClosedIsJoined
<1>4. QED
  BY <1>1, <1>2, <1>3

LEMMA StepPreservesServerInvariant ==
    ASSUME ServerInvariant, [ServerNext]_allVars
    PROVE  ServerInvariant'
<1>1. SlotInvariant' /\ TypeOK'
  BY ServerStepsAreSlotSteps, StepPreservesSlotInvariant DEF ServerInvariant, SlotInvariant
<1>2. ServerTypeOK' /\ RoutedIsServed' /\ AdmissionsCoverWork'
  <2>1. ASSUME NEW r \in Requests, Handle(r) \/ ExchangeSteps(r) \/ UploadEnds(r)
        PROVE  ServerTypeOK' /\ RoutedIsServed' /\ AdmissionsCoverWork'
    BY <1>1, <2>1, HandleKeepsServer, ExchangeKeepsServer
  <2>2. CASE (\E r \in Requests : Leave(r)) \/ Stop
    BY <1>1, <2>2, DisconnectKeepsServer
  <2>3. ASSUME NEW r \in Requests, SlotRequestSteps(r) \/ SlotStep(ToolReturns(r))
        PROVE  ServerTypeOK' /\ RoutedIsServed' /\ AdmissionsCoverWork'
    BY <1>1, <2>3, SlotStepKeepsServer DEF SlotRequestSteps, SlotStep, Inner
  <2>4. CASE \/ SlotStep(TransportClosed) \/ SlotStep(Drained) \/ SlotStep(DrainTimesOut)
             \/ SlotStep(Armed) \/ SlotStep(CloseLive)
    BY <1>1, <2>4, SlotStepKeepsServer DEF SlotStep, Inner, SlotSteps
  <2>5. CASE EndFails \/ PrepareSlot
    <3>1. Inner /\ UNCHANGED <<exchange, reserved, uploading, left, cleanups, failed>>
      BY <2>5 DEF EndFails, PrepareSlot, Inner, SlotSteps
    <3>2. QED
      BY <1>1, <2>5, <3>1, SlotStepKeepsServer
  <2>6. CASE Finish
    <3>1. /\ Inner \/ UNCHANGED vars
          /\ UNCHANGED <<exchange, reserved, uploading, left, cleanups, failed>>
      BY <2>6 DEF Finish, Inner, SlotSteps
    <3>2. QED
      BY <1>1, <2>6, <3>1, SlotStepKeepsServer
  <2>7. CASE UNCHANGED allVars
    BY <1>1, <2>7, SlotStepKeepsServer DEF allVars, serverVars
  <2>8. QED
    BY <2>1, <2>2, <2>3, <2>4, <2>5, <2>6, <2>7 DEF ServerNext
<1>3. ClosedIsJoined'
  BY ClosedStaysJoined
<1>4. QED
  BY <1>1, <1>2, <1>3 DEF ServerInvariant

LEMMA InitEstablishesServerInvariant == ServerInit => ServerInvariant
<1> SUFFICES ASSUME ServerInit PROVE ServerInvariant
  OBVIOUS
<1>1. SlotInvariant
  BY InitEstablishesSlotInvariant DEF ServerInit
<1>2. AdmissionsCoverWork
  BY FS_EmptySet, HttpServerAssumption DEF ServerInit, AdmissionsCoverWork, Occupies
<1>3. ServerTypeOK /\ RoutedIsServed /\ ClosedIsJoined
  BY <1>1 DEF SlotInvariant, ServerInit, Init, ServerTypeOK, RoutedIsServed, ClosedIsJoined
<1>4. QED
  BY <1>1, <1>2, <1>3 DEF ServerInvariant

-----------------------------------------------------------------------------
(* Whatever the server does is a behaviour of its session slot, so all that *)
(* is proved about the slot holds for the server.                           *)
THEOREM ServerRunsItsSlot == ServerSpec => Spec
<1>1. ServerInit => Init
  BY DEF ServerInit
<1>2. [ServerNext]_allVars => [Next]_vars
  BY ServerStepsAreSlotSteps
<1>3. QED
  BY <1>1, <1>2, PTL DEF ServerSpec, Spec

(* The inductive invariant of the slot and of the server over it.           *)
THEOREM ServerInvariantHolds == ServerSpec => []ServerInvariant
<1>1. ServerInit => ServerInvariant
  BY InitEstablishesServerInvariant
<1>2. ServerInvariant /\ [ServerNext]_allVars => ServerInvariant'
  BY StepPreservesServerInvariant
<1>3. QED
  BY <1>1, <1>2, PTL DEF ServerSpec

(* A handler that runs belongs to the session the slot owns: the next client*)
(* never shares the server with the handlers of the one before.             *)
THEOREM HandlersKeepTheirSession == ServerSpec => []WorkKeepsItsSession
<1>1. ServerInvariant => WorkKeepsItsSession
  BY DEF ServerInvariant, SlotInvariant, HandlersAreTracked, WorkKeepsItsSession
<1>2. QED
  BY <1>1, ServerInvariantHolds, PTL

(* The shared providers close only when no handler, exchange or cleanup is  *)
(* left that could use them.                                                *)
THEOREM ProvidersCloseLast == ServerSpec => []ProvidersOutliveExchanges
<1>1. ServerInvariant => ProvidersOutliveExchanges
  BY DEF ServerInvariant, SlotInvariant, SessionsAreOwned, HandlersAreTracked,
         ShutdownIsOrdered, Working, ClosedIsJoined, ProvidersOutliveExchanges,
         ProvidersOutliveWork
<1>2. QED
  BY <1>1, ServerInvariantHolds, PTL

(* No more requests are worked on at a time than the capacity allows.       *)
THEOREM CapacityIsNeverExceeded == ServerSpec => []CapacityIsKept
<1>1. ASSUME ServerInvariant PROVE CapacityIsKept
  <2>1. IsFiniteSet(reserved) /\ Cardinality(reserved) <= Capacity
    BY <1>1 DEF ServerInvariant, AdmissionsCoverWork
  <2>2. {r \in Requests : Occupies(r)} \subseteq reserved
    BY <1>1 DEF ServerInvariant, AdmissionsCoverWork
  <2>3. QED
    BY <2>1, <2>2, FS_Subset, FS_CardinalityType, HttpServerAssumption DEF CapacityIsKept
<1>2. QED
  BY <1>1, ServerInvariantHolds, PTL
=============================================================================
