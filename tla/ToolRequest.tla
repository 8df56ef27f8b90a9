----------------------------- MODULE ToolRequest -----------------------------
(***************************************************************************)
(* MCP tool requests over the admission protocol of SessionLock: a request *)
(* that was admitted (McpToolRequest.admit) keeps its admission until its   *)
(* handler is done and its reply published; a failure that bypassed the     *)
(* application is published under an admission of its own                   *)
(* (ErrorEvidenceTransport.send); lifecycle tools request a transition from *)
(* their handler.  A request is a call of the lock.                         *)
(***************************************************************************)
EXTENDS SessionLock

VARIABLES
    progress,   \* per request: from "none" through its handler and its reply
    handled,    \* #handlerStarted
    op,         \* the admitted operation: none, waiting, running, returned or refused
    errored,     \* the handler's result is an error
    cancelled,  \* its cancellation signal is aborted
    released,   \* #publicationDone is resolved
    awaits,     \* the transition its handler requested, or 0
    shared      \* session state its reply refers to was taken under its admission

requestVars == <<progress, handled, op, errored, cancelled, released, awaits, shared>>
requestsVars == <<lockVars, requestVars>>

RequestsInit ==
    /\ LockInit
    /\ progress = [r \in Calls |-> "none"]
    /\ handled = [r \in Calls |-> FALSE]
    /\ op = [r \in Calls |-> "none"]
    /\ errored = [r \in Calls |-> FALSE]
    /\ cancelled = [r \in Calls |-> FALSE]
    /\ released = [r \in Calls |-> FALSE]
    /\ awaits = [r \in Calls |-> 0]
    /\ shared = [r \in Calls |-> FALSE]

Advance(r, where) == progress' = [progress EXCEPT ![r] = where]

-----------------------------------------------------------------------------
(* The handler *)

(* The SDK dispatches a request, or fails it before any handler runs.       *)
Receive(r) ==
    /\ progress[r] = "none"
    /\ \/ /\ Advance(r, "handling")
          /\ handled' = [handled EXCEPT ![r] = TRUE]
          /\ UNCHANGED errored
       \/ /\ Advance(r, "replying")
          /\ errored' = [errored EXCEPT ![r] = TRUE]
          /\ UNCHANGED handled
    /\ UNCHANGED <<lockVars, op, cancelled, released, awaits, shared>>

(* The first `admit` of a request registers it with the session.            *)
AdmitFirst(r) ==
    /\ progress[r] = "handling" /\ op[r] = "none" /\ awaits[r] = 0
    /\ Invoke(r)
    /\ op' = [op EXCEPT ![r] = "waiting"]
    /\ UNCHANGED <<progress, handled, errored, cancelled, released, awaits, shared>>

(* `resolveBinding`: the operation runs.                                    *)
Bind(r) ==
    /\ progress[r] = "handling" /\ op[r] = "waiting"
    /\ Admit(r)
    /\ op' = [op EXCEPT ![r] = "running"]
    /\ shared' = [shared EXCEPT ![r] = TRUE]
    /\ UNCHANGED <<progress, handled, errored, cancelled, released, awaits>>

(* Cancelled before it was admitted: the result is the refusal.             *)
Refuse(r) ==
    /\ progress[r] = "handling" /\ op[r] = "waiting" /\ cancelled[r]
    /\ CancelWait(r)
    /\ op' = [op EXCEPT ![r] = "refused"]
    /\ UNCHANGED <<progress, handled, errored, cancelled, released, awaits, shared>>

(* `resolveResult`: the handler goes on, the admission stays.               *)
OperationReturns(r) ==
    /\ progress[r] = "handling" /\ op[r] = "running" /\ callState[r] = "admitted"
    /\ op' = [op EXCEPT ![r] = "returned"]
    /\ UNCHANGED <<lockVars, progress, handled, errored, cancelled, released, awaits, shared>>

(* Variant: a second `admit` is a second call of the session.               *)
AdmitAfresh(r) ==
    /\ progress[r] = "handling" /\ op[r] = "returned" /\ ~cancelled[r]
    /\ callState[r] = "admitted"
    /\ callState' = [callState EXCEPT ![r] = "nested"]
    /\ barrier' = [barrier EXCEPT ![r] = generation]
    /\ UNCHANGED <<generation, settled, phase, drain, callGen, requestVars>>

(* A second `admit`, and each dispatch of an operation, reuse the binding.  *)
AdmitAgain(r) ==
    /\ progress[r] = "handling" /\ op[r] \in {"running", "returned"}
    /\ op[r] = "returned" => ~cancelled[r]
    /\ NestedInvoke(r)
    /\ UNCHANGED requestVars

AgainReturns(r) ==
    /\ progress[r] = "handling"
    /\ NestedReturn(r)
    /\ UNCHANGED requestVars

(* The handler of a lifecycle tool requests a transition and awaits it.     *)
RequestTransition(r) ==
    /\ progress[r] = "handling" /\ op[r] = "none" /\ awaits[r] = 0
    /\ Serialize
    /\ awaits' = [awaits EXCEPT ![r] = generation + 1]
    /\ UNCHANGED <<progress, handled, op, errored, cancelled, released, shared>>

(* `finishHandler`: nothing the handler awaits is outstanding.              *)
FinishHandler(r) ==
    /\ progress[r] = "handling"
    /\ op[r] \in {"none", "returned", "refused"} /\ callState[r] # "nested"
    /\ awaits[r] <= settled
    /\ Advance(r, "replying")
    /\ \E error \in BOOLEAN :
          /\ op[r] = "refused" => error
          /\ errored' = [errored EXCEPT ![r] = error]
    /\ UNCHANGED <<lockVars, handled, op, cancelled, released, awaits, shared>>

-----------------------------------------------------------------------------
(* The reply *)

(* The SDK drops the reply of a cancelled request.                          *)
Suppress(r) ==
    /\ progress[r] = "replying" /\ cancelled[r]
    /\ Advance(r, "suppressed")
    /\ UNCHANGED <<lockVars, handled, op, errored, cancelled, released, awaits, shared>>

HoldsAdmission(r) == callState[r] # "idle"

(* `send`: a failure without an admission asks for one, so that what it     *)
(* retains and what it publishes are one step for a reset.                  *)
SendReply(r) ==
    /\ progress[r] = "replying" /\ ~cancelled[r]
    /\ IF errored[r] /\ ~HoldsAdmission(r)
         THEN /\ Invoke(r)
              /\ op' = [op EXCEPT ![r] = "waiting"]
              /\ Advance(r, "sending")
         ELSE /\ Advance(r, "publishing")
              /\ UNCHANGED <<lockVars, op>>
    /\ UNCHANGED <<handled, errored, cancelled, released, awaits, shared>>

SendAdmitted(r) ==
    /\ progress[r] = "sending"
    /\ Admit(r)
    /\ op' = [op EXCEPT ![r] = "running"]
    /\ shared' = [shared EXCEPT ![r] = TRUE]
    /\ Advance(r, "publishing")
    /\ UNCHANGED <<handled, errored, cancelled, released, awaits>>

(* The refusal itself is published, and retains nothing.                    *)
SendRefused(r) ==
    /\ progress[r] = "sending" /\ cancelled[r]
    /\ CancelWait(r)
    /\ op' = [op EXCEPT ![r] = "refused"]
    /\ Advance(r, "publishing")
    /\ UNCHANGED <<handled, errored, cancelled, released, awaits, shared>>

(* The transport took the reply, or failed to.                              *)
Published(r) ==
    /\ progress[r] = "publishing"
    /\ Advance(r, "published")
    /\ released' = [released EXCEPT ![r] = TRUE]
    /\ op' = IF op[r] = "running" THEN [op EXCEPT ![r] = "returned"] ELSE op
    /\ UNCHANGED <<lockVars, handled, errored, cancelled, awaits, shared>>

HandlerDone(r) == progress[r] \notin {"none", "handling"}

(* `#settlePublication` of a returned operation.                            *)
PublicationSettles(r) == released[r] /\ (handled[r] => HandlerDone(r))

Release(r) ==
    /\ op[r] = "returned" /\ PublicationSettles(r)
    /\ Settle(r)
    /\ UNCHANGED requestVars

-----------------------------------------------------------------------------
(* Cancellation *)

PublicationStarted(r) == progress[r] \in {"publishing", "published"}

(* Variant: a cancellation also ends a reply that is being written.         *)
CancelAlways(rs) ==
    /\ cancelled' = [r \in Calls |-> cancelled[r] \/ r \in rs]
    /\ released' = [r \in Calls |-> released[r] \/ r \in rs]
    /\ op' = [r \in Calls |-> IF r \in rs /\ progress[r] = "publishing" /\ op[r] = "running"
                              THEN "returned" ELSE op[r]]
    /\ UNCHANGED <<lockVars, progress, handled, errored, awaits, shared>>

(* `cancel`: no reply will follow, unless it is being published already.    *)
Cancel(rs) ==
    /\ cancelled' = [r \in Calls |-> cancelled[r] \/ r \in rs]
    /\ released' = [r \in Calls |-> released[r] \/ (r \in rs /\ ~PublicationStarted(r))]
    /\ UNCHANGED <<lockVars, progress, handled, op, errored, awaits, shared>>

Pending == {r \in Calls : progress[r] \in {"handling", "replying", "sending", "publishing"}}

(* `notifications/cancelled`, and the close of the transport.               *)
CancelOne(r) == r \in Pending /\ Cancel({r})
CloseTransport == Pending # {} /\ Cancel(Pending)

-----------------------------------------------------------------------------

HandlerStep(r) ==
    \/ Bind(r)
    \/ Refuse(r)
    \/ OperationReturns(r)
    \/ AgainReturns(r)
    \/ FinishHandler(r)

ReplyStep(r) ==
    \/ Suppress(r)
    \/ SendReply(r)
    \/ SendAdmitted(r)
    \/ SendRefused(r)
    \/ Published(r)

RequestNext(r) ==
    \/ Receive(r)
    \/ AdmitFirst(r)
    \/ AdmitAgain(r)
    \/ RequestTransition(r)
    \/ HandlerStep(r)
    \/ ReplyStep(r)
    \/ Release(r)
    \/ CancelOne(r)

HeadNext ==
    \/ StartDrain
    \/ DrainDone
    \/ SettleEarly
    \/ SettleTransition

RequestsNext ==
    \/ \E r \in Calls : RequestNext(r)
    \/ HeadNext /\ UNCHANGED requestVars
    \/ CloseTransport

RequestsSpec == RequestsInit /\ [][RequestsNext]_requestsVars

(* Handlers return, the SDK replies, and the transport takes a reply or     *)
(* fails; nobody has to send, cancel or dispatch again.                     *)
RequestsFairSpec ==
    /\ RequestsSpec
    /\ \A r \in Calls :
          /\ WF_requestsVars(Bind(r) \/ Refuse(r)) /\ SF_requestsVars(OperationReturns(r))
          /\ WF_requestsVars(AgainReturns(r)) /\ SF_requestsVars(FinishHandler(r))
          /\ WF_requestsVars(ReplyStep(r)) /\ WF_requestsVars(Release(r))
    /\ WF_requestsVars((StartDrain \/ SettleEarly) /\ UNCHANGED requestVars)
    /\ WF_requestsVars(DrainDone /\ UNCHANGED requestVars)
    /\ WF_requestsVars(SettleTransition /\ UNCHANGED requestVars)

-----------------------------------------------------------------------------

(* Requests stay within their ranges.                                       *)
RequestTypeOK ==
    /\ LockTypeOK
    /\ progress \in [Calls -> {"none", "handling", "replying", "sending", "publishing",
                               "published", "suppressed"}]
    /\ op \in [Calls -> {"none", "waiting", "running", "returned", "refused"}]
    /\ {handled, errored, cancelled, released, shared} \subseteq [Calls -> BOOLEAN]
    /\ awaits \in [Calls -> 0 .. generation]

(* No transition runs between the first admission of a request and the end  *)
(* of its reply: what the reply refers to was not reset before the client   *)
(* has it. The cancellation of a request ends this only when no reply will  *)
(* be sent, and its handler is done.                                        *)
ReplyOutlivesNoReset ==
    phase = "running" =>
        \A r \in Calls : shared[r] =>
            \/ progress[r] \in {"published", "suppressed"}
            \/ progress[r] = "replying" /\ cancelled[r]

(* The inductive invariant: what a request has been granted, and who can    *)
(* have released its publication.                                           *)
RequestInvariant ==
    /\ RequestTypeOK
    /\ LockInvariant
    /\ \A r \in Calls :
          /\ op[r] \in {"none", "refused"} => callState[r] = "idle" /\ ~shared[r]
          /\ op[r] = "waiting" => callState[r] = "waiting" /\ ~shared[r]
          /\ op[r] = "running" => Inside(r)
          /\ op[r] = "returned" => Inside(r) \/ callState[r] = "idle"
          /\ progress[r] = "none" => op[r] = "none"
          /\ progress[r] = "handling" => handled[r]
          /\ progress[r] = "sending" => op[r] = "waiting"
          /\ released[r] => cancelled[r] \/ progress[r] = "published"
          /\ progress[r] = "publishing" /\ released[r] => op[r] \in {"running", "refused"}
          /\ shared[r] => \/ Inside(r)
                          \/ progress[r] \in {"published", "suppressed"}
                          \/ progress[r] = "replying" /\ cancelled[r]

(* Every transition settles and every request is over, with admissions held *)
(* through replies, second admissions behind a queued reset and failures    *)
(* that ask for an admission while their own handler's reset is over.       *)
EveryRequestEnds ==
    /\ \A n \in 1 .. MaxTransitions : generation >= n ~> settled >= n
    /\ \A r \in Calls : progress[r] # "none" ~>
          progress[r] \in {"published", "suppressed"} /\ callState[r] = "idle"
=============================================================================
