------------------------------- MODULE HttpSlot -------------------------------
(***************************************************************************)
(* McpSessionSlot: one MCP server serves its HTTP clients in turn. A new    *)
(* client's initialize ends the session its predecessor left, after a       *)
(* bounded drain of its handlers; a shutdown drains without bound, and only *)
(* then may the shared providers close. Sessions are LiveSessions, calls    *)
(* are those of RequestTrackingMcpServer.                                   *)
(*                                                                         *)
(* One step is one run of the event loop between two awaits.                *)
(***************************************************************************)
EXTENDS Naturals

CONSTANTS
    Requests,
    Asks,           \* what the requests may ask together
    MaxSessions,    \* bound: how many transports are armed
    None

(* A request that is "plain" is answered without the slot.                  *)
Kinds == {"initialize", "message", "delete", "plain"}

ASSUME HttpSlotAssumption ==
    /\ Asks \subseteq [Requests -> Kinds]
    /\ MaxSessions \in Nat /\ None \notin 1 .. MaxSessions

VARIABLES
    live,           \* #live
    arming,         \* the session #arming connects, or None
    used,           \* sessions created so far
    slotClosed,     \* #closed
    draining,       \* #draining
    ending,         \* #ending: "none", "closing" its transport or "waiting" for calls
    bounded,        \* its wait has a timeout
    drain,          \* the snapshot of #calls it waits for
    fenced,         \* sessions whose #closed is set
    initialized,    \* sessions whose transport has a session id
    calls,          \* #calls: <<request, "http">> and <<request, "tool">>
    asks,           \* what each request asks; fixed
    pc, sess,       \* where each is, and the session it was given
    tool,           \* the tool handler it dispatched
    stop            \* where the shutdown of the slot is

fencing == <<draining, ending, bounded, fenced>>
endings == <<fencing, drain>>
given == <<sess, asks>>
routed == <<pc, given>>
arms == <<arming, used>>
work == <<initialized, calls, tool>>
vars == <<live, arms, slotClosed, endings, work, routed, stop>>

Sessions == 1 .. MaxSessions

Init ==
    /\ live = None /\ arming = None /\ used = 0
    /\ slotClosed = FALSE
    /\ draining = FALSE /\ ending = "none" /\ bounded = FALSE /\ drain = {} /\ fenced = {}
    /\ initialized = {} /\ calls = {}
    /\ asks \in Asks
    /\ pc = [r \in Requests |-> "idle"]
    /\ sess = [r \in Requests |-> None]
    /\ tool = [r \in Requests |-> "none"]
    /\ stop = "no"

Goto(r, where) == pc' = [pc EXCEPT ![r] = where] /\ UNCHANGED given

(* It is answered: with its response, or 404, 429, 503 or an error.         *)
Tell(r) == Goto(r, "done")

-----------------------------------------------------------------------------
(* The end of a session *)

(* `#endSession` of the live session: joined when it is under way, else the *)
(* session is fenced and its transport closed.                              *)
End ==
    IF ending # "none" THEN UNCHANGED endings
    ELSE /\ draining' = TRUE
         /\ ending' = "closing"
         /\ fenced' = fenced \cup {live}
         /\ UNCHANGED <<bounded, drain>>

(* Those who wait for the end go on, or are told that it failed.            *)
WhenEnded ==
    /\ pc' = [r \in Requests |->
         CASE pc[r] = "drain" -> "route" [] pc[r] = "evict" -> "current"
           [] pc[r] = "delete" -> "done" [] OTHER -> pc[r]]
    /\ stop' = IF stop \in {"closing", "retried"} THEN "drained" ELSE stop
    /\ UNCHANGED given

WhenFailed(stopping) ==
    /\ pc' = [r \in Requests |-> IF pc[r] \in {"drain", "evict", "delete"} THEN "done" ELSE pc[r]]
    /\ stop' = IF stop \in {"closing", "retried"} THEN stopping ELSE stop
    /\ UNCHANGED given

(* Variant: every drain waits for its handlers, however long they take.     *)
NeverBounded == FALSE

DrainIsBounded == ~slotClosed

TransportClosed ==
    /\ ending = "closing"
    /\ ending' = "waiting"
    /\ drain' = calls
    /\ bounded' = DrainIsBounded
    /\ UNCHANGED <<live, arms, slotClosed, draining, fenced, work, routed, stop>>

(* The session stays owned, and fenced, when its transport fails to close.  *)
CloseFails ==
    /\ ending = "closing"
    /\ ending' = "none"
    /\ WhenFailed("failed")
    /\ UNCHANGED <<live, arms, slotClosed, draining, bounded, drain, fenced, work>>

(* The calls of the snapshot are over: the slot gives the session up.       *)
Drained ==
    /\ ending = "waiting" /\ drain = {}
    /\ live' = None
    /\ draining' = FALSE /\ ending' = "none"
    /\ WhenEnded
    /\ UNCHANGED <<arms, slotClosed, bounded, drain, fenced, work>>

(* Handlers that go on keep the session; a shutdown that joined tries again.*)
DrainTimesOut ==
    /\ ending = "waiting" /\ bounded /\ drain # {}
    /\ ending' = "none" /\ drain' = {}
    /\ WhenFailed("retry")
    /\ UNCHANGED <<live, arms, slotClosed, draining, bounded, fenced, work>>

-----------------------------------------------------------------------------
(* Requests *)

Arrive(r) ==
    /\ pc[r] = "idle" /\ asks[r] # "plain"
    /\ pc' = [pc EXCEPT ![r] = IF slotClosed THEN "done" ELSE "probe"]
    /\ UNCHANGED <<live, arms, slotClosed, endings, work, given, stop>>

(* An initialize for a session that has a client ends it, unless its own    *)
(* client has left.                                                         *)
Route(r) ==
    IF slotClosed THEN Tell(r) /\ UNCHANGED endings
    ELSE \/ /\ live # None /\ live \in initialized /\ asks[r] = "initialize"
            /\ Goto(r, "evict")
            /\ End
         \/ /\ Goto(r, "current")
            /\ UNCHANGED endings

(* The body was peeked at; a drain that timed out is tried again first.     *)
Probed(r) ==
    /\ pc[r] = "probe"
    /\ IF draining /\ live # None THEN Goto(r, "drain") /\ End ELSE Route(r)
    /\ UNCHANGED <<live, arms, slotClosed, work, stop>>

AfterDrain(r) ==
    /\ pc[r] = "route"
    /\ Route(r)
    /\ UNCHANGED <<live, arms, slotClosed, work, stop>>

(* `#current`: the live session, or the one that is or now becomes armed.   *)
Current(r) ==
    /\ pc[r] = "current"
    /\ \/ /\ slotClosed
          /\ Tell(r) /\ UNCHANGED arms
       \/ /\ ~slotClosed /\ live # None
          /\ pc' = [pc EXCEPT ![r] = "given"]
          /\ sess' = [sess EXCEPT ![r] = live]
          /\ UNCHANGED <<arms, asks>>
       \/ /\ ~slotClosed /\ live = None
          /\ Goto(r, "arming")
          /\ IF arming # None THEN UNCHANGED arms
             ELSE used < MaxSessions /\ arming' = used + 1 /\ used' = used + 1
    /\ UNCHANGED <<live, slotClosed, endings, work, stop>>

Armed ==
    /\ arming # None
    /\ live' = arming /\ arming' = None
    /\ pc' = [r \in Requests |-> IF pc[r] = "arming" THEN "given" ELSE pc[r]]
    /\ sess' = [r \in Requests |-> IF pc[r] = "arming" THEN arming ELSE sess[r]]
    /\ UNCHANGED <<used, slotClosed, endings, work, asks, stop>>

ConnectFails ==
    /\ arming # None
    /\ arming' = None
    /\ pc' = [r \in Requests |-> IF pc[r] = "arming" THEN "done" ELSE pc[r]]
    /\ UNCHANGED <<live, used, slotClosed, endings, work, given, stop>>

(* Variant: a DELETE is a tracked call, too.                                *)
TracksAll(r) == {<<r, "http">>}

(* The call that `handle` tracks: a DELETE must not wait for itself.        *)
Tracks(r) == IF asks[r] = "delete" THEN {} ELSE {<<r, "http">>}

Refused(r) ==
    \/ slotClosed \/ sess[r] \in fenced
    \/ asks[r] = "delete" /\ ~(sess[r] \in initialized /\ live = sess[r])

(* `LiveSession.handle`: a DELETE ends the session; all else is dispatched. *)
Given(r) ==
    /\ pc[r] = "given"
    /\ \/ /\ Refused(r)
          /\ Tell(r) /\ UNCHANGED <<endings, calls>>
       \/ /\ ~Refused(r)
          /\ calls' = calls \cup Tracks(r)
          /\ IF asks[r] = "delete" THEN Goto(r, "delete") /\ End
                                   ELSE Goto(r, "dispatch") /\ UNCHANGED endings
    /\ UNCHANGED <<live, arms, slotClosed, initialized, tool, stop>>

Settled(call) == calls' = calls \ {call} /\ drain' = drain \ {call}

(* The tracked dispatch begins, unless the session was fenced meanwhile.    *)
Dispatch(r) ==
    /\ pc[r] = "dispatch"
    /\ IF sess[r] \in fenced
         THEN Tell(r) /\ Settled(<<r, "http">>)
         ELSE Goto(r, "reading") /\ UNCHANGED <<calls, drain>>
    /\ UNCHANGED <<live, arms, slotClosed, fencing, initialized, tool, stop>>

(* The body is read: an initialize opens the session, a message of an open  *)
(* session goes to the SDK, which validates it before it calls a handler.   *)
Deliver(r) ==
    /\ pc[r] = "reading"
    /\ Goto(r, "responding")
    /\ IF asks[r] = "initialize"
         THEN initialized' = initialized \cup {sess[r]} /\ UNCHANGED tool
         ELSE /\ tool' = IF sess[r] \in initialized \ fenced
                           THEN [tool EXCEPT ![r] = "validating"] ELSE tool
              /\ UNCHANGED initialized
    /\ UNCHANGED <<live, arms, slotClosed, endings, calls, stop>>

(* The response exists, or the transport of a fenced session answers.       *)
Respond(r) ==
    /\ pc[r] = "responding"
    /\ Tell(r)
    /\ Settled(<<r, "http">>)
    /\ UNCHANGED <<live, arms, slotClosed, fencing, initialized, tool, stop>>

(* `runRequest` of a tool handler: tracked first, and started a turn later. *)
Track(r) ==
    /\ tool[r] = "validating"
    /\ tool' = [tool EXCEPT ![r] = "tracked"]
    /\ calls' = calls \cup {<<r, "tool">>}
    /\ UNCHANGED <<live, arms, slotClosed, endings, initialized, routed, stop>>

(* Variant: its signal is not looked at again.                              *)
NeverAborted(r) == FALSE

(* `throwIfAborted`: the transport of a fenced session has aborted it.      *)
Aborted(r) == sess[r] \in fenced

StartTool(r) ==
    /\ tool[r] = "tracked"
    /\ IF Aborted(r)
         THEN tool' = [tool EXCEPT ![r] = "aborted"] /\ Settled(<<r, "tool">>)
         ELSE tool' = [tool EXCEPT ![r] = "started"] /\ UNCHANGED <<calls, drain>>
    /\ UNCHANGED <<live, arms, slotClosed, fencing, initialized, routed, stop>>

ToolReturns(r) ==
    /\ tool[r] = "started"
    /\ tool' = [tool EXCEPT ![r] = "returned"]
    /\ Settled(<<r, "tool">>)
    /\ UNCHANGED <<live, arms, slotClosed, fencing, initialized, routed, stop>>

-----------------------------------------------------------------------------
(* Shutdown *)

(* `prepareShutdown` refuses requests from here on, and is tried again when *)
(* it failed.                                                               *)
PrepareShutdown ==
    /\ stop \in {"no", "failed"}
    /\ slotClosed' = TRUE
    /\ stop' = "prepare"
    /\ UNCHANGED <<live, arms, endings, work, routed>>

(* The session that is being armed is awaited first.                        *)
ArmingAwaited == (stop = "prepare" /\ arming = None) \/ stop = "retry"

(* A handover that the close joins may time out; its second try does not.   *)
CloseLive ==
    /\ ArmingAwaited
    /\ IF live = None
         THEN stop' = "drained" /\ UNCHANGED endings
         ELSE stop' = (IF stop = "retry" THEN "retried" ELSE "closing") /\ End
    /\ UNCHANGED <<live, arms, slotClosed, work, routed>>

(* `close`: the hook that closes the shared providers.                      *)
RunHook ==
    /\ stop = "drained"
    /\ stop' = "closed"
    /\ UNCHANGED <<live, arms, slotClosed, endings, work, routed>>

-----------------------------------------------------------------------------

RequestSteps(r) ==
    \/ Probed(r)
    \/ AfterDrain(r)
    \/ Current(r)
    \/ Given(r)
    \/ Dispatch(r)
    \/ Deliver(r)
    \/ Respond(r)

ToolSteps(r) == Track(r) \/ StartTool(r)

SlotSteps ==
    \/ TransportClosed
    \/ CloseFails
    \/ Drained
    \/ DrainTimesOut
    \/ Armed
    \/ ConnectFails
    \/ PrepareShutdown
    \/ CloseLive
    \/ RunHook

Next ==
    \/ \E r \in Requests : Arrive(r) \/ RequestSteps(r) \/ ToolSteps(r) \/ ToolReturns(r)
    \/ SlotSteps

Spec == Init /\ [][Next]_vars

-----------------------------------------------------------------------------

(* The slot and its requests stay within their ranges.                      *)
TypeOK ==
    /\ live \in Sessions \cup {None} /\ arming \in Sessions \cup {None}
    /\ used \in 0 .. MaxSessions
    /\ {slotClosed, draining, bounded} \subseteq BOOLEAN
    /\ ending \in {"none", "closing", "waiting"}
    /\ fenced \subseteq Sessions /\ initialized \subseteq Sessions
    /\ calls \subseteq Requests \X {"http", "tool"} /\ drain \subseteq calls
    /\ pc \in [Requests -> {"idle", "probe", "drain", "route", "evict", "current", "arming",
                            "given", "delete", "dispatch", "reading", "responding", "done"}]
    /\ asks \in Asks
    /\ sess \in [Requests -> Sessions \cup {None}]
    /\ tool \in [Requests -> {"none", "validating", "tracked", "started", "aborted", "returned"}]
    /\ stop \in {"no", "prepare", "closing", "retry", "retried", "drained", "closed", "failed"}

Working(r) == tool[r] = "started"

(* A handler that runs belongs to the session the slot owns: a next client  *)
(* never shares the server with the handlers of the one before, also after  *)
(* drains that timed out.                                                   *)
WorkKeepsItsSession == \A r \in Requests : Working(r) => live = sess[r]

(* The hook that closes the shared providers runs when no handler does, and *)
(* no session is left that could dispatch another.                          *)
ProvidersOutliveWork ==
    stop \in {"drained", "closed"} =>
        live = None /\ arming = None /\ \A r \in Requests : ~Working(r)
=============================================================================
