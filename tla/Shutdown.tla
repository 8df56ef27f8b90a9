------------------------------ MODULE Shutdown ------------------------------
(***************************************************************************)
(* The shutdown of the runtime (`createShutdown`, src/main/shutdown.ts)     *)
(* over the session it ends: the drain of the server handle, the close of   *)
(* every owner that is not closed yet, the session among them, and the      *)
(* disposal of the investigation after all of them.  An attempt that fails  *)
(* may be repeated; meanwhile tools still request transitions.              *)
(***************************************************************************)
EXTENDS BinarySession

CONSTANTS
    Owners,         \* the server handle and the providers beside the session
    MaxRequests,    \* bound: transitions requested by tools
    MaxAttempts     \* bound: attempts to shut down

ASSUME ShutdownAssumption ==
    /\ "session" \notin Owners
    /\ MaxRequests \in Nat /\ MaxAttempts \in Nat
    /\ MaxTransitions >= MaxRequests + 2 * MaxAttempts

AllOwners == Owners \cup {"session"}

VARIABLES
    attempt,        \* what the attempt in #shutdownAttempt is doing
    attempts,       \* attempts begun
    requests,       \* transitions requested by tools
    closing,        \* the owners this attempt asked to close, until they answer
    rejected,       \* whether one of them could not close
    closedOwners,   \* cleanupOwners with `closed`
    ticket,         \* the transition of the session the attempt waits for, or 0
    live            \* ghost: the owners that still hold something

shutdownVars == <<attempt, attempts, requests, closing, rejected, closedOwners, ticket, live>>
allVars == <<vars, shutdownVars>>

ShutdownTypeOK ==
    /\ TypeOK
    /\ attempt \in {"none", "preparing", "closing", "disposing", "done"}
    /\ attempts \in 0 .. MaxAttempts /\ requests \in 0 .. MaxRequests
    /\ closing \subseteq AllOwners /\ closedOwners \subseteq AllOwners
    /\ live \subseteq Owners
    /\ rejected \in BOOLEAN
    /\ ticket \in 0 .. MaxTransitions

ShutdownInit ==
    /\ Init
    /\ attempt = "none" /\ attempts = 0 /\ requests = 0
    /\ closing = {} /\ rejected = FALSE /\ closedOwners = {}
    /\ ticket = 0
    /\ live = Owners

(* A request of the session's transition that the attempt then waits for.   *)
Ask(kind) ==
    /\ Request(kind)
    /\ ticket' = generation + 1

-----------------------------------------------------------------------------
(* `shutdown()` while no attempt is pending; otherwise it joins the pending *)
(* one, and a completed one stays memoized.                                 *)
BeginAttempt ==
    /\ attempt = "none"
    /\ attempts < MaxAttempts
    /\ attempts' = attempts + 1
    /\ attempt' = "preparing"
    /\ BeginShutdown \/ (shutdown /\ UNCHANGED vars)
    /\ UNCHANGED <<requests, closing, rejected, closedOwners, ticket, live>>

(* `prepareShutdown` of the handle rejects: no owner was asked to close.    *)
PrepareFails ==
    /\ attempt = "preparing"
    /\ attempt' = "none"
    /\ UNCHANGED <<vars, attempts, requests, closing, rejected, closedOwners, ticket, live>>

(* The owners `pending` in this attempt.                                    *)
NotClosed == AllOwners \ closedOwners

(* The handle is drained: all pending owners are asked at once.             *)
CloseAll ==
    /\ attempt = "preparing"
    /\ attempt' = "closing"
    /\ closing' = NotClosed
    /\ rejected' = FALSE
    /\ IF "session" \in NotClosed THEN Ask("close") ELSE UNCHANGED <<vars, ticket>>
    /\ UNCHANGED <<attempts, requests, closedOwners, live>>

(* Variant: an owner counts as closed once it was asked.                    *)
ClosedAnyway(o, ok) == closedOwners \cup {o}

(* `closed` is set only after the close of the owner resolved.              *)
ClosedAfter(o, ok) == IF ok THEN closedOwners \cup {o} ELSE closedOwners

(* Variant: the first rejection is all that is noticed.                     *)
AnsweredIfOk(o, ok) ==
    /\ closing' = IF ok THEN closing \ {o} ELSE closing
    /\ closedOwners' = ClosedAfter(o, ok)
    /\ rejected' = (rejected \/ ~ok)

(* One of the promises of Promise.allSettled.                               *)
Answered(o, ok) ==
    /\ closing' = closing \ {o}
    /\ closedOwners' = ClosedAfter(o, ok)
    /\ rejected' = (rejected \/ ~ok)

OwnerAnswers(o) ==
    /\ o \in closing
    /\ \E ok \in BOOLEAN :
         /\ Answered(o, ok)
         /\ live' = IF ok THEN live \ {o} ELSE live
    /\ UNCHANGED <<vars, attempt, attempts, requests, ticket>>

(* The transition the attempt waits for settles: the close of the session   *)
(* as one of the owners, or the disposal, which ends the attempt.           *)
SessionAnswers ==
    /\ ticket # 0
    /\ settled' = ticket
    /\ ticket' = 0
    /\ IF attempt = "closing"
         THEN Answered("session", outcome' = "ok") /\ UNCHANGED attempt
         ELSE /\ attempt' = IF outcome' = "ok" THEN "done" ELSE "none"
              /\ UNCHANGED <<closing, closedOwners, rejected>>
    /\ UNCHANGED <<attempts, requests, live>>

(* Some owner failed: the attempt is rejected, the investigation is kept.   *)
Reject ==
    /\ attempt = "closing" /\ closing = {} /\ rejected
    /\ attempt' = "none"
    /\ UNCHANGED <<vars, attempts, requests, closing, rejected, closedOwners, ticket, live>>

(* Every owner of the attempt closed.                                       *)
MayDispose == closing = {} /\ ~rejected

Dispose ==
    /\ attempt = "closing" /\ MayDispose
    /\ attempt' = "disposing"
    /\ Ask("dispose")
    /\ UNCHANGED <<attempts, requests, closing, rejected, closedOwners, live>>

(* Tools go on requesting transitions of their own.                         *)
ToolRequests ==
    /\ requests < MaxRequests
    /\ requests' = requests + 1
    /\ \E kind \in Kinds \ {"dispose"} : Request(kind)
    /\ UNCHANGED <<attempt, attempts, closing, rejected, closedOwners, ticket, live>>

(* A step of the session; its answer reaches the attempt that waits for it. *)
SessionStep ==
    /\ \/ HeadSteps
       \/ \E c \in Calls : CallSteps(c)
       \/ MutationCleanupResolves
    /\ SessionAnswers \/ ((ticket = 0 \/ settled' # ticket) /\ UNCHANGED shutdownVars)

AttemptSteps ==
    \/ PrepareFails \/ CloseAll \/ Reject \/ Dispose
    \/ \E o \in Owners : OwnerAnswers(o)

ShutdownNext ==
    \/ BeginAttempt
    \/ AttemptSteps
    \/ ToolRequests
    \/ SessionStep

(* Promise reactions run, and providers, owners and the drain of the handle *)
(* answer, with success or not, by the deadlines they have; nobody has to   *)
(* shut down, to request, to cancel or to try again.                        *)
ShutdownSpec ==
    /\ ShutdownInit /\ [][ShutdownNext]_allVars
    /\ WF_allVars(AttemptSteps)
    /\ WF_allVars(SessionStep /\ HeadSteps)
    /\ \A c \in Calls :
        /\ WF_allVars(SessionStep /\ (AdmitCall(c) \/ AnswerRead(c) \/ AnswerMutation(c)))
        /\ SF_allVars(SessionStep /\ SettleCall(c))

-----------------------------------------------------------------------------
(* The investigation is disposed only when nothing is left that a retry     *)
(* could need it for: "Preserve investigation records until every owner has *)
(* confirmed completion" (shutdown.ts:74), across any number of attempts    *)
(* and whatever tools request meanwhile.                                    *)
InvestigationOutlivesOwners == disposed => live = {} /\ open = {}

(* Every attempt comes to an end, so a failed one can be repeated: the      *)
(* session close it waits for is never stuck behind tool requests.          *)
EveryAttemptSettles == attempt \in {"preparing", "closing", "disposing"} ~>
                       attempt \in {"none", "done"}

=============================================================================
