---------------------------- MODULE GhidraSession ----------------------------
(***************************************************************************)
(* GhidraClient with its GhidraRequestQueue: tool calls share one startup, *)
(* queue for the one Program of the bridge, and are cancelled; a close     *)
(* saves the checkpoint, stops the process and removes its private files.  *)
(*                                                                         *)
(* Each request is one `callTool`: `start`, then `run` of the queue.       *)
(***************************************************************************)
EXTENDS SequencesExt

CONSTANTS
    Requests,
    Checkpoint,     \* checkpoints are configured
    None

ASSUME GhidraAssumption ==
    /\ None \notin Requests
    /\ IsFiniteSet(Requests)
    /\ Checkpoint \in BOOLEAN

VARIABLES
    attempt,    \* #startupAttempt: "none", "starting", "ready" or "owed" (cleanup failed)
    stopped,    \* its signal is aborted
    phase,      \* where #start is: "none", "acquire", "connect" or "failing"
    process,    \* "none", "live" or "exited"
    socket,     \* "none", "open" or "destroyed"
    files,      \* private files, roots or checkpoint leases are owned
    queue,      \* requests admitted and not dispatched
    active,     \* the request at the bridge, or None
    refused,    \* #closedFailure of the queue is set
    wire,       \* its reply: "none", "sent", "answered" or "failed"
    cancel,     \* its cancellation: "none", "requested", "joined", "released" or "failed"
    close,      \* where #closePromise is, or "none"
    force,      \* it was requested by a cancellation
    call, gone, answer,     \* per request: progress, signal, what it was told
    bridge      \* requests the bridge process works on

startup == <<attempt, stopped, phase>>
owned == <<process, socket, files>>
queueing == <<queue, active, refused, wire, cancel>>
closer == <<close, force>>
calls == <<call, gone, answer>>
vars == <<startup, owned, queueing, closer, calls, bridge>>

Init ==
    /\ attempt = "none" /\ stopped = FALSE /\ phase = "none"
    /\ process = "none" /\ socket = "none" /\ files = FALSE
    /\ queue = <<>> /\ active = None /\ refused = FALSE /\ wire = "none" /\ cancel = "none"
    /\ close = "none" /\ force = FALSE
    /\ call = [r \in Requests |-> "idle"]
    /\ gone = [r \in Requests |-> FALSE]
    /\ answer = [r \in Requests |-> "none"]
    /\ bridge = {}

(* `isReady`.                                                               *)
IsReady == attempt = "ready" /\ socket = "open" /\ close = "none"

(* `#hasOwnedResources`.                                                    *)
HasOwnedResources == process # "none" \/ socket # "none" \/ files

Tell(rs, what) ==
    /\ call' = [r \in Requests |-> IF r \in rs THEN "done" ELSE call[r]]
    /\ answer' = [r \in Requests |-> IF r \in rs THEN what ELSE answer[r]]
    /\ UNCHANGED gone

(* With whatever failure: of the process, the startup, the cleanup it owes. *)
Fail(rs) == Tell(rs, "failed")

Move(r, where) ==
    /\ call' = [call EXCEPT ![r] = where]
    /\ UNCHANGED <<gone, answer>>

-----------------------------------------------------------------------------
(* The queue *)

(* `#drain` towards r, which becomes the request at the bridge.             *)
Dispatch(r) ==
    /\ active' = r
    /\ wire' = IF socket = "open" THEN "sent" ELSE "failed"
    /\ bridge' = IF socket = "open" THEN bridge \cup {r} ELSE bridge
    /\ cancel' = "none"

(* `run`: refused after a close or a cancellation, otherwise queued.        *)
Run(r) ==
    /\ UNCHANGED refused
    /\ IF refused
         THEN Fail({r}) /\ UNCHANGED <<queue, active, wire, cancel, bridge>>
         ELSE IF gone[r]
         THEN Tell({r}, "cancelled") /\ UNCHANGED <<queue, active, wire, cancel, bridge>>
         ELSE IF active = None
         THEN Move(r, "active") /\ Dispatch(r) /\ UNCHANGED queue
         ELSE /\ Move(r, "queued") /\ queue' = Append(queue, r)
              /\ UNCHANGED <<active, wire, cancel, bridge>>

Queued == {r \in Requests : call[r] = "queued"}

(* The bridge replies to the active request.                                *)
Reply ==
    /\ wire = "sent"
    /\ wire' = "answered"
    /\ bridge' = bridge \ {active}
    /\ UNCHANGED <<startup, owned, queue, active, refused, cancel, closer, calls>>

(* It completes a request nobody waits for.                                 *)
LateReply(r) ==
    /\ r \in bridge /\ (r # active \/ wire # "sent")
    /\ bridge' = bridge \ {r}
    /\ UNCHANGED <<startup, owned, queueing, closer, calls>>

(* The process exits by itself: its socket closes, what is pending fails.   *)
ProcessExits ==
    /\ process = "live" /\ phase # "failing"
    /\ process' = "exited"
    /\ socket' = IF socket = "open" THEN "destroyed" ELSE socket
    /\ bridge' = {}
    /\ wire' = IF wire = "sent" THEN "failed" ELSE wire
    /\ UNCHANGED <<startup, files, queue, active, refused, cancel, closer, calls>>

(* The socket fails, or is destroyed after a protocol error.                *)
SocketBreaks ==
    /\ socket = "open" /\ phase = "none"
    /\ socket' = "destroyed"
    /\ wire' = IF wire = "sent" THEN "failed" ELSE wire
    /\ UNCHANGED <<startup, process, files, queue, active, refused, cancel, closer, calls, bridge>>

(* The request times out; the bridge goes on with it.                       *)
TimeOut ==
    /\ wire = "sent"
    /\ wire' = "failed"
    /\ UNCHANGED <<startup, owned, queue, active, refused, cancel, closer, calls, bridge>>

(* Variant: a cancellation settles before its cleanup.                      *)
SettleActiveEarly ==
    /\ active # None /\ wire \in {"answered", "failed"}
    /\ Tell({active}, IF cancel # "none" THEN "cancelled"
                      ELSE IF wire = "answered" THEN "ok" ELSE "failed")
    /\ active' = None /\ wire' = "none" /\ cancel' = "none"
    /\ UNCHANGED <<startup, owned, queue, refused, closer, bridge>>

(* Variant: the next request is not dispatched.                             *)
SettleActiveOnly ==
    /\ active # None /\ wire \in {"answered", "failed"} /\ cancel \in {"none", "released", "failed"}
    /\ Fail({active})
    /\ active' = None /\ wire' = "none" /\ cancel' = "none"
    /\ UNCHANGED <<startup, owned, queue, refused, closer, bridge>>

(* `#executeEntry` settles: with its reply, or once the cleanup of its      *)
(* cancellation has; then the next request is dispatched.                   *)
SettleActive ==
    /\ active # None /\ wire \in {"answered", "failed"} /\ cancel \in {"none", "released", "failed"}
    /\ LET what == CASE cancel = "released" -> "cancelled"
                     [] cancel = "failed" -> "failed"
                     [] OTHER -> IF wire = "answered" THEN "ok" ELSE "failed"
           next == IF queue = <<>> \/ refused THEN None ELSE Head(queue)
       IN /\ answer' = [answer EXCEPT ![active] = what]
          /\ IF next = None
               THEN /\ call' = [call EXCEPT ![active] = "done"]
                    /\ active' = None /\ wire' = "none" /\ cancel' = "none"
                    /\ UNCHANGED <<queue, bridge>>
               ELSE /\ call' = [call EXCEPT ![active] = "done", ![next] = "active"]
                    /\ queue' = Tail(queue)
                    /\ Dispatch(next)
    /\ UNCHANGED <<startup, owned, refused, closer, gone>>

-----------------------------------------------------------------------------
(* `start` *)

(* Variant: a new startup does not look at what is still owned.             *)
BeginAnyway(r) ==
    /\ attempt' = "starting" /\ stopped' = FALSE /\ phase' = "acquire"
    /\ Move(r, "starting")

(* `#start` refuses while anything of an earlier process is owned.          *)
Begin(r) ==
    IF HasOwnedResources
      THEN Fail({r}) /\ UNCHANGED startup
      ELSE /\ attempt' = "starting" /\ stopped' = FALSE /\ phase' = "acquire"
           /\ Move(r, "starting")

(* A close, an abandoned startup and a startup under way are awaited.       *)
Start(r) ==
    /\ call[r] \in {"idle", "again"}
    /\ IF gone[r] THEN Tell({r}, "cancelled") /\ UNCHANGED startup
       ELSE IF close # "none" THEN Move(r, "closing") /\ UNCHANGED startup
       ELSE CASE attempt = "none" -> Begin(r)
              [] attempt = "starting" ->
                   Move(r, IF stopped THEN "abandoned" ELSE "starting") /\ UNCHANGED startup
              [] attempt = "ready" -> Move(r, "started") /\ UNCHANGED startup
              [] attempt = "owed" -> Fail({r}) /\ UNCHANGED startup
    /\ UNCHANGED <<owned, queueing, closer, bridge>>

Proceed(r) ==
    /\ call[r] = "started"
    /\ Run(r)
    /\ UNCHANGED <<startup, owned, closer>>

(* `callToolIfReady` never starts anything.                                 *)
CallIfReady(r) ==
    /\ call[r] = "idle"
    /\ IF IsReady THEN Run(r)
       ELSE Fail({r}) /\ UNCHANGED <<queue, active, refused, wire, cancel, bridge>>
    /\ UNCHANGED <<startup, owned, closer>>

(* The producer: files, then the process, then its socket.                  *)
Acquire ==
    /\ phase = "acquire"
    /\ files' = TRUE
    /\ \/ process' = "live" /\ phase' = "connect"
       \/ process' \in {"none", "live"} /\ phase' = "failing"
    /\ UNCHANGED <<attempt, stopped, socket, queueing, closer, calls, bridge>>

ConnectFails ==
    /\ phase = "connect"
    /\ socket' \in {"none", "open"}
    /\ phase' = "failing"
    /\ UNCHANGED <<attempt, stopped, process, files, queueing, closer, calls, bridge>>

Awaiting == {r \in Requests : call[r] \in {"starting", "stopping"}}

(* Handshake and first checkpoint succeed, and nobody stopped them.         *)
Ready ==
    /\ phase = "connect" /\ process = "live" /\ ~stopped
    /\ socket' = "open"
    /\ attempt' = "ready" /\ phase' = "none"
    /\ refused' = FALSE
    /\ call' = [r \in Requests |-> IF r \in Awaiting THEN "started" ELSE call[r]]
    /\ UNCHANGED <<stopped, process, files, queue, active, wire, cancel, closer, gone, answer,
                   bridge>>

(* What `#cleanup` leaves behind: all is released, the process could not    *)
(* be stopped, or it was but some file could not be removed.                *)
Released == process' = "none" /\ files' = FALSE
Unstopped == process \in {"live", "exited"} /\ UNCHANGED <<process, files>>
Unremoved == process' = "none" /\ files' = TRUE

(* `failQueued` refuses the requests that have not been dispatched.         *)
FailQueued ==
    /\ refused' = TRUE /\ queue' = <<>>

(* `#startupFailure`: cleanup, and then those who wait are told.            *)
StartFails ==
    /\ phase = "failing"
    /\ phase' = "none" /\ socket' = "none"
    /\ FailQueued
    /\ UNCHANGED <<active, wire, cancel>>
    /\ \/ /\ Released
          /\ attempt' = "none"
          /\ call' = [r \in Requests |->
               IF r \in Awaiting THEN "done" ELSE IF call[r] = "abandoned" THEN "again" ELSE call[r]]
          /\ answer' = [r \in Requests |-> IF r \in Awaiting THEN "failed" ELSE answer[r]]
          /\ UNCHANGED gone
       \/ /\ Unstopped \/ Unremoved
          /\ attempt' = "owed"
          /\ Fail(Awaiting \cup {r \in Requests : call[r] = "abandoned"})
    /\ bridge' = IF process' = "none" THEN {} ELSE bridge
    /\ UNCHANGED <<stopped, closer>>

-----------------------------------------------------------------------------
(* Signals of callers *)

Leave(r) ==
    /\ gone' = [gone EXCEPT ![r] = TRUE]
    /\ call' = [call EXCEPT ![r] = "done"]
    /\ answer' = [answer EXCEPT ![r] = "cancelled"]

(* Waiting for a startup: the last one to leave stops it and stays.         *)
LeaveStartup(r) ==
    /\ call[r] = "starting"
    /\ IF Cardinality(Awaiting) > 1
         THEN Leave(r) /\ UNCHANGED stopped
         ELSE /\ stopped' = TRUE
              /\ gone' = [gone EXCEPT ![r] = TRUE]
              /\ call' = [call EXCEPT ![r] = "stopping"]
              /\ UNCHANGED answer
    /\ UNCHANGED <<attempt, phase, owned, queueing, closer, bridge>>

LeaveWait(r) ==
    /\ call[r] \in {"abandoned", "closing"}
    /\ Leave(r)
    /\ UNCHANGED <<startup, owned, queueing, closer, bridge>>

LeaveLater(r) ==
    /\ call[r] \in {"started", "again"} /\ ~gone[r]
    /\ gone' = [gone EXCEPT ![r] = TRUE]
    /\ UNCHANGED <<startup, owned, queueing, closer, call, answer, bridge>>

(* Queued: it never reaches the bridge.                                     *)
LeaveQueue(r) ==
    /\ call[r] = "queued"
    /\ Leave(r)
    /\ \E i \in 1 .. Len(queue) : queue[i] = r /\ queue' = RemoveAt(queue, i)
    /\ UNCHANGED <<startup, owned, active, refused, wire, cancel, closer, bridge>>

(* Variant: requests behind a cancelled one stay queued.                    *)
CancelActiveOnly(r) ==
    /\ call[r] = "active" /\ cancel = "none" /\ ~gone[r]
    /\ gone' = [gone EXCEPT ![r] = TRUE]
    /\ refused' = TRUE
    /\ cancel' = "requested"
    /\ wire' = IF wire = "sent" THEN "failed" ELSE wire
    /\ UNCHANGED <<startup, owned, queue, active, closer, call, answer, bridge>>

(* At the bridge: the queue is refused, and the session is to be stopped.   *)
CancelActive(r) ==
    /\ call[r] = "active" /\ cancel = "none" /\ ~gone[r]
    /\ FailQueued
    /\ cancel' = "requested"
    /\ wire' = IF wire = "sent" THEN "failed" ELSE wire
    /\ gone' = [gone EXCEPT ![r] = TRUE]
    /\ call' = [q \in Requests |-> IF q \in Queued THEN "done" ELSE call[q]]
    /\ answer' = [q \in Requests |-> IF q \in Queued THEN "failed" ELSE answer[q]]
    /\ UNCHANGED <<startup, owned, active, closer, bridge>>

-----------------------------------------------------------------------------
(* `close` and the stop after a cancellation *)

(* `#requestClose` joins the close that is under way, whatever it was       *)
(* requested for.                                                           *)
RequestClose(forceStop) ==
    /\ stopped' = (stopped \/ attempt = "starting")
    /\ IF close = "none"
         THEN close' = "waiting" /\ force' = forceStop
         ELSE UNCHANGED closer
    /\ UNCHANGED <<attempt, phase>>

Close ==
    /\ RequestClose(FALSE)
    /\ UNCHANGED <<owned, queueing, calls, bridge>>

StopAfterCancellation ==
    /\ cancel = "requested"
    /\ RequestClose(TRUE)
    /\ cancel' = "joined"
    /\ UNCHANGED <<owned, queue, active, refused, wire, calls, bridge>>

(* After the startup it waits for: save the checkpoint of a live session,   *)
(* unless a cancellation stops it.                                          *)
CloseBegins ==
    /\ close = "waiting" /\ attempt # "starting"
    /\ FailQueued
    /\ close' = IF ~force /\ attempt = "ready" /\ Checkpoint /\ socket = "open"
                  THEN "saving" ELSE "shutdown"
    /\ Fail(Queued)
    /\ UNCHANGED <<startup, owned, active, wire, cancel, force, bridge>>

SaveSucceeds ==
    /\ close = "saving" /\ socket = "open"
    /\ close' = "shutdown"
    /\ UNCHANGED <<startup, owned, queueing, force, calls, bridge>>

(* Variant: the startup is forgotten only after a cancellation.             *)
ForgetsCancelled == force

(* A startup that has lost its socket, or was stopped by a cancellation, is *)
(* forgotten.                                                               *)
Forgets == force \/ socket' # "open"

(* `#close` settles, and whoever waits for it is told.                      *)
CloseSettles(released) ==
    /\ close' = "none"
    /\ attempt' = IF attempt \in {"ready", "owed"} /\ Forgets THEN "none" ELSE attempt
    /\ cancel' = IF cancel # "joined" THEN cancel ELSE IF released THEN "released" ELSE "failed"
    /\ LET waiting == {r \in Requests : call[r] = "closing"}
       IN IF released
            THEN /\ call' = [r \in Requests |-> IF r \in waiting THEN "again" ELSE call[r]]
                 /\ UNCHANGED <<gone, answer>>
            ELSE Fail(waiting)
    /\ UNCHANGED <<stopped, phase, force>>

(* A checkpoint that cannot be saved keeps the session, and reopens it.     *)
SaveFails ==
    /\ close = "saving"
    /\ refused' = FALSE
    /\ UNCHANGED <<owned, queue, active, wire, bridge>>
    /\ CloseSettles(FALSE)

(* The bridge is told to shut down, and its socket closed.                  *)
Shutdown ==
    /\ close = "shutdown"
    /\ socket' = "none"
    /\ wire' = IF wire = "sent" THEN "failed" ELSE wire
    /\ close' = "stopping"
    /\ UNCHANGED <<startup, process, files, queue, active, refused, cancel, force, calls, bridge>>

(* The process is stopped and its files are removed, as far as possible.    *)
Stop ==
    /\ close = "stopping"
    /\ Released \/ Unstopped \/ (Unremoved /\ files)
    /\ bridge' = IF process' = "none" THEN {} ELSE bridge
    /\ UNCHANGED <<socket, queue, active, refused, wire>>
    /\ CloseSettles(process' = "none" /\ ~files')

-----------------------------------------------------------------------------

RequestSteps(r) ==
    \/ call[r] = "again" /\ Start(r)
    \/ Proceed(r)

SessionSteps ==
    \/ Acquire
    \/ ConnectFails
    \/ Ready
    \/ StartFails
    \/ Reply
    \/ SettleActive
    \/ StopAfterCancellation
    \/ CloseBegins
    \/ SaveSucceeds
    \/ SaveFails
    \/ Shutdown
    \/ Stop

Next ==
    \/ \E r \in Requests :
          \/ Start(r)
          \/ Proceed(r)
          \/ CallIfReady(r)
          \/ LeaveStartup(r)
          \/ LeaveWait(r)
          \/ LeaveLater(r)
          \/ LeaveQueue(r)
          \/ CancelActive(r)
          \/ LateReply(r)
    \/ SessionSteps
    \/ ProcessExits
    \/ SocketBreaks
    \/ TimeOut
    \/ Close

Spec == Init /\ [][Next]_vars

(* Startup, shutdown and stop have deadlines, promises resolve, and the     *)
(* bridge replies to a request or to the save of a checkpoint. The owner of *)
(* the session does not close it for ever.                                  *)
FairSpec ==
    /\ Spec
    /\ WF_vars(Acquire) /\ WF_vars(ConnectFails \/ Ready) /\ WF_vars(StartFails)
    /\ WF_vars(Reply) /\ WF_vars(SettleActive)
    /\ WF_vars(StopAfterCancellation)
    /\ WF_vars(CloseBegins) /\ WF_vars(SaveSucceeds \/ SaveFails) /\ WF_vars(Shutdown)
    /\ WF_vars(Stop)
    /\ \A r \in Requests : WF_vars(RequestSteps(r))
    /\ <>[][~Close]_vars

-----------------------------------------------------------------------------

(* The session and its requests stay within their ranges.                   *)
TypeOK ==
    /\ attempt \in {"none", "starting", "ready", "owed"}
    /\ phase \in {"none", "acquire", "connect", "failing"}
    /\ process \in {"none", "live", "exited"}
    /\ socket \in {"none", "open", "destroyed"}
    /\ {stopped, files, refused, force} \subseteq BOOLEAN
    /\ queue \in Seq(Requests)
    /\ active \in Requests \cup {None}
    /\ wire \in {"none", "sent", "answered", "failed"}
    /\ cancel \in {"none", "requested", "joined", "released", "failed"}
    /\ close \in {"none", "waiting", "saving", "shutdown", "stopping"}
    /\ call \in [Requests -> {"idle", "again", "starting", "stopping", "abandoned", "closing",
                              "started", "queued", "active", "done"}]
    /\ gone \in [Requests -> BOOLEAN]
    /\ answer \in [Requests -> {"none", "ok", "cancelled", "failed"}]
    /\ bridge \subseteq Requests

(* No request is stranded: the queue holds exactly the requests that wait,  *)
(* and only behind one that is at the bridge; and after every failed save,  *)
(* stop or startup a session that says it is ready admits requests, unless  *)
(* a cancellation is about to stop it.                                      *)
QueueIsSound ==
    /\ queue # <<>> => active # None /\ ~refused
    /\ \A r \in Requests :
          call[r] = "queued" <=> \E i \in 1 .. Len(queue) : queue[i] = r
    /\ \A r \in Requests : call[r] = "active" <=> active = r
    /\ \A i, j \in 1 .. Len(queue) : queue[i] = queue[j] => i = j
    /\ IsReady => ~refused \/ cancel = "requested"

(* No second Ghidra is started beside an unreleased one.                    *)
StartsFromNothing == phase = "acquire" => process = "none" /\ ~files /\ socket = "none"

(* A request that was answered, or cancelled without a remark on cleanup,   *)
(* is not worked on any more.                                               *)
SettledIsOver ==
    \A r \in Requests : answer[r] \in {"ok", "cancelled"} => r \notin bridge

(* A close that succeeds leaves nothing, and nothing waiting in the queue.  *)
CloseReleasesAll ==
    [][(close = "stopping" /\ close' = "none" /\ process' = "none" /\ ~files')
         => /\ attempt' = "none" /\ socket' = "none" /\ bridge' = {} /\ queue' = <<>>]_vars

(* Every call settles, whichever startup, close or cancellation it waits    *)
(* for.                                                                     *)
EveryCallSettles == \A r \in Requests : call[r] # "idle" ~> call[r] = "done"

=============================================================================
