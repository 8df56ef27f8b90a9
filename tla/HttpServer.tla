------------------------------ MODULE HttpServer ------------------------------
(***************************************************************************)
(* The HTTP server of serveStreamableHttp.ts over its session slot:         *)
(* NodeHttpRequestOwner admits a bounded number of requests, the bridge     *)
(* writes their responses to clients that may leave, and the staged close   *)
(* stops the listener, drains the slot, joins every exchange and every      *)
(* cleanup of a response, and only then lets the shared providers close.    *)
(*                                                                          *)
(* A request is for the slot or "plain": for a route of the application, or *)
(* refused before it is routed.                                             *)
(***************************************************************************)
EXTENDS HttpSlot, FiniteSets

CONSTANTS
    Capacity,       \* maxConcurrentDispatches
    Uploads,        \* requests that may be answered before their body is read
    Heads,          \* those that, when they are plain, are HEAD requests
    Restless        \* requests whose client may leave while the server serves

ASSUME HttpServerAssumption ==
    /\ Capacity \in Nat \ {0}
    /\ Uploads \subseteq Requests /\ Heads \subseteq Requests /\ Restless \subseteq Requests

VARIABLES
    exchange,       \* how far each exchange is
    reserved,       \* those counted by #active
    held,           \* those whose admission lasts as long as their response
    uploading,      \* dispatched ones whose body has not ended
    left,           \* those whose client left before the response exists
    cleanups,       \* #bodyCleanups
    failed,         \* #cleanupFailures
    stage           \* the stage of the close

serverVars == <<exchange, reserved, held, uploading, left, cleanups, failed, stage>>
allVars == <<vars, serverVars>>

ServerTypeOK ==
    /\ TypeOK
    /\ exchange \in [Requests -> {"none", "serving", "writing", "over", "refused", "told"}]
    /\ {reserved, held, uploading, left, cleanups, failed} \subseteq SUBSET Requests
    /\ stage \in {"open", "closing", "slot", "blocked", "closed"}

ServerInit ==
    /\ Init
    /\ exchange = [r \in Requests |-> "none"]
    /\ held = {r \in Requests : asks[r] = "plain"}
    /\ reserved = {} /\ uploading = {} /\ left = {} /\ cleanups = {} /\ failed = {}
    /\ stage = "open"

Becomes(r, where) == exchange' = [exchange EXCEPT ![r] = where]

------------------------------------------------------------------------------
(* Admission *)

(* Variant: what is still to be cleaned up does not count.                  *)
FinishedDelivery(r) ==
    /\ exchange[r] \in {"writing", "over"}
    /\ r \notin uploading
    /\ r \in held => exchange[r] = "over"

(* `releaseIfReady`: dispatched, its body has ended and, unless only the    *)
(* dispatch was admitted, the response is over and cleaned up.              *)
Finished(r) ==
    /\ exchange[r] \in {"writing", "over"}
    /\ r \notin uploading
    /\ r \in held => exchange[r] = "over" /\ r \notin cleanups \cup failed

ReleaseIfReady == reserved' = {r \in reserved : ~Finished(r)'}

(* `handle`, and the turn after it in which the exchange begins unless its  *)
(* socket was destroyed meanwhile.                                          *)
Handle(r) ==
    /\ stage = "open" /\ exchange[r] = "none"
    /\ IF failed # {} \/ Cardinality(reserved) >= Capacity
         THEN Becomes(r, "refused") /\ UNCHANGED <<vars, reserved>>
         ELSE /\ Becomes(r, "serving")
              /\ reserved' = reserved \cup {r}
              /\ IF asks[r] = "plain" THEN UNCHANGED vars ELSE Arrive(r)
    /\ UNCHANGED <<held, uploading, left, cleanups, failed, stage>>

------------------------------------------------------------------------------
(* The response *)

(* A body of which a part is unread stays with its connection.              *)
Unread(r) == IF r \in Uploads /\ tool[r] = "none" THEN BOOLEAN ELSE {FALSE}

(* `onDispatchSettled`: the route has its response, or threw and is answered*)
(* with an error. A response nobody waits for is cancelled at once.         *)
DispatchSettled(r) ==
    /\ exchange[r] = "serving"
    /\ asks[r] # "plain" => pc[r] = "done"
    /\ Becomes(r, IF r \in left THEN "over" ELSE "writing")
    /\ left' = left \ {r}
    /\ cleanups' = IF r \in left THEN cleanups \cup {r} ELSE cleanups
    /\ \E unread \in Unread(r) :
          uploading' = IF unread /\ r \notin left THEN uploading \cup {r} ELSE uploading
    /\ UNCHANGED <<vars, held, failed, stage>>
    /\ ReleaseIfReady

(* The body of a stream ends with its handler, or with its session.         *)
BodyEnds(r) == tool[r] \in {"validating", "tracked", "started"} => sess[r] \in fenced

(* A reply to HEAD ends with its headers; a body that is attached to it is  *)
(* cancelled, and the delivery does not wait for that.                      *)
BodyCancelled(r) ==
    {cleanups} \cup (IF r \in Heads /\ asks[r] = "plain" THEN {cleanups \cup {r}} ELSE {})

Delivered(r) ==
    /\ exchange[r] = "writing" /\ BodyEnds(r)
    /\ Becomes(r, "over")
    /\ cleanups' \in BodyCancelled(r)
    /\ UNCHANGED <<vars, held, uploading, left, failed, stage>>
    /\ ReleaseIfReady

RefusalDelivered(r) ==
    /\ exchange[r] = "refused"
    /\ Becomes(r, "told")
    /\ cleanups' \in BodyCancelled(r)
    /\ UNCHANGED <<vars, reserved, held, uploading, left, failed, stage>>

(* Connections close: a response that is being written is cancelled, one    *)
(* that does not exist yet will be.                                         *)
Disconnect(gone) ==
    LET cut == {r \in gone : exchange[r] \in {"writing", "refused"}} IN
    /\ uploading' = uploading \ gone
    /\ left' = left \cup {r \in gone : exchange[r] = "serving"}
    /\ cleanups' = cleanups \cup cut
    /\ exchange' = [r \in Requests |->
          IF r \notin cut THEN exchange[r] ELSE IF exchange[r] = "writing" THEN "over" ELSE "told"]
    /\ UNCHANGED <<vars, held, failed>>
    /\ ReleaseIfReady

Leave(r) ==
    /\ r \in Restless
    /\ exchange[r] \in {"serving", "writing", "refused"} /\ r \notin left
    /\ Disconnect({r})
    /\ UNCHANGED stage

(* The upload ends, or its connection closes after the reply.               *)
UploadEnds(r) ==
    /\ r \in uploading
    /\ uploading' = uploading \ {r}
    /\ UNCHANGED <<vars, exchange, held, left, cleanups, failed, stage>>
    /\ ReleaseIfReady

(* `#trackBodyCleanup`: the source of a response was cancelled, or it could *)
(* not be; then the owner admits nobody any more.                           *)
CleanupSettles(r) ==
    /\ r \in cleanups
    /\ cleanups' = cleanups \ {r}
    /\ failed' \in {failed, failed \cup {r}}
    /\ UNCHANGED <<vars, exchange, held, uploading, left, stage>>
    /\ ReleaseIfReady

------------------------------------------------------------------------------
(* The slot, and the close of the server *)

SlotStep(A) ==
    /\ A
    /\ UNCHANGED <<exchange, reserved, held, uploading, left, cleanups, failed, stage>>

(* A request whose session could not be ended or armed throws: its admission*)
(* lasts until the error is delivered (the default of serveNodeRequest).    *)
EndFails ==
    /\ \/ CloseFails /\ held' = held \cup {r \in Requests : pc[r] \in {"drain", "evict", "delete"}}
       \/ ConnectFails /\ held' = held \cup {r \in Requests : pc[r] = "arming"}
    /\ UNCHANGED <<exchange, reserved, uploading, left, cleanups, failed, stage>>

(* The first stage: no request is accepted, every connection is destroyed.  *)
Stop ==
    /\ stage = "open"
    /\ stage' = "closing"
    /\ Disconnect(Requests)

(* The second stage, begun and after a failure repeated.                    *)
PrepareSlot ==
    /\ stage \in {"closing", "slot"}
    /\ stage' = "slot"
    /\ PrepareShutdown
    /\ UNCHANGED <<exchange, reserved, held, uploading, left, cleanups, failed>>

(* Variant: only the exchanges are joined.                                  *)
JoinedExchanges == \A r \in Requests : exchange[r] \in {"none", "over", "told"}

(* `drain`: every exchange, then every cleanup that one of them left.       *)
Joined ==
    /\ \A r \in Requests : exchange[r] \in {"none", "over", "told"}
    /\ cleanups = {}

(* The third stage and the last, or a failed cleanup blocks the close.      *)
Finish ==
    /\ stage = "slot" /\ stop = "drained" /\ Joined
    /\ IF failed = {} THEN stage' = "closed" /\ RunHook
                      ELSE stage' = "blocked" /\ UNCHANGED vars
    /\ UNCHANGED <<exchange, reserved, held, uploading, left, cleanups, failed>>

------------------------------------------------------------------------------

ExchangeSteps(r) ==
    \/ DispatchSettled(r)
    \/ Delivered(r)
    \/ RefusalDelivered(r)
    \/ CleanupSettles(r)

SlotRequestSteps(r) == SlotStep(RequestSteps(r)) \/ SlotStep(ToolSteps(r))

ServerNext ==
    \/ \E r \in Requests :
          \/ Handle(r) \/ Leave(r) \/ UploadEnds(r)
          \/ ExchangeSteps(r) \/ SlotRequestSteps(r) \/ SlotStep(ToolReturns(r))
    \/ SlotStep(TransportClosed) \/ SlotStep(Drained) \/ SlotStep(DrainTimesOut)
    \/ SlotStep(Armed) \/ SlotStep(CloseLive)
    \/ EndFails
    \/ Stop \/ PrepareSlot \/ Finish

(* Each request takes only finitely many of these steps, so that fairness of*)
(* all of them together is fairness of each.                                *)
Obligatory ==
    \E r \in Requests :
        \/ ExchangeSteps(r) \/ SlotRequestSteps(r)
        \/ exchange[r] = "over" /\ UploadEnds(r)
        \/ slotClosed /\ SlotStep(ToolReturns(r))

(* Awaits resolve and timers fire; routes answer, clients read or leave, and*)
(* the connection closes after an early reply; a failed shutdown is tried   *)
(* again, and a transport fails to close not for ever. A tool handler need  *)
(* not return before its server shuts down.                                 *)
ServerSpec ==
    /\ ServerInit /\ [][ServerNext]_allVars
    /\ WF_allVars(Obligatory)
    /\ SF_allVars(SlotStep(TransportClosed))
    /\ WF_allVars(SlotStep(Drained)) /\ WF_allVars(SlotStep(DrainTimesOut))
    /\ WF_allVars(SlotStep(Armed) \/ EndFails)
    /\ WF_allVars(SlotStep(CloseLive))
    /\ WF_allVars(PrepareSlot) /\ WF_allVars(Finish)

------------------------------------------------------------------------------
(* No more requests are worked on than the capacity allows: being routed,   *)
(* uploading what nobody reads, or, where the admission lasts that long,    *)
(* being delivered or cleaned up. However often `releaseIfReady` is called  *)
(* for one of them, no admission is given back before its work is over.     *)
Occupies(r) ==
    \/ exchange[r] = "serving" \/ r \in uploading
    \/ r \in held /\ exchange[r] = "writing"
    \/ r \in held /\ exchange[r] = "over" /\ r \in cleanups

CapacityIsKept == Cardinality({r \in Requests : Occupies(r)}) <= Capacity

(* The shared providers close only when nothing is left that could use them:*)
(* no handler, no exchange, and no response whose source is still being     *)
(* cancelled or could not be ("provider shutdown remains blocked",          *)
(* NodeHttpRequestOwner.ts:168).                                            *)
ProvidersOutliveExchanges ==
    stage = "closed" =>
        /\ ProvidersOutliveWork
        /\ \A r \in Requests : exchange[r] \in {"none", "over", "told"}
        /\ cleanups = {} /\ failed = {}

(* No admission is lost: whether its client leaves, its upload stalls, its  *)
(* session fails to end or another handler hangs, it is given back, unless  *)
(* the cleanup of its own response failed.                                  *)
EveryAdmissionIsReleased == \A r \in Requests : r \in reserved ~> r \notin reserved \/ r \in failed

(* The close completes, also when it joined a handover whose drain timed    *)
(* out, or is blocked by a failed cleanup.                                  *)
CloseCompletes == stage = "closing" ~> stage = "closed" \/ (stage = "blocked" /\ failed # {})
=============================================================================
