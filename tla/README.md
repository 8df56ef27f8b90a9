# Verification of the rea analysis runtime

`rea` (npm package `rea-agents`) is an MCP server and command line for reverse engineering. It
puts Ghidra, Hopper, IDA, Kuna, Rizin, GDB, Frida and other tools behind one *session* that a
coding agent drives with concurrent requests. Its own core logic is therefore a concurrent owner
of external resources: child processes, leases, staged files and cached observations, in an
event loop in which every `await` is a point where something else may happen.

This directory holds TLA+ models of that core, the TLC configurations that check them on small
instances, and machine-checked proofs of the properties that matter most. Paths below are
relative to the repository.

## 1. Inventory

Layers, after `docs/architecture.mermaid`: entry points (`src/main.ts`, `src/cli`, `src/main/`),
MCP adapters (`src/server`), application (`src/application`), providers (`src/ghidra`,
`src/hopper`, ...), process foundation (`src/process`), files (`src/filesystem`), contracts and
pure domain code (`src/contracts`, `src/domain`).

| Component | State | Operations | What is hard | Correct when |
|---|---|---|---|---|
| Session admission (`BinarySession.#serialize`, `#drainCalls`, `execute`, ...) | promise chain of transitions, `#transitionGeneration`, `#calls` | invoke, cancel, nested execute, serialize, drain | which calls a transition waits for; nested dispatch while drained | calls and transitions exclude each other, nothing overtakes, nothing is stuck |
| Session lifecycle (`BinarySession`) | `#active`, `#pendingCleanup`, app resources, pending app resources, mutation failure, shutdown | open, open resources, external mutation, close, save and close, dispose, reset | seven failure points after the old selection is gone; cleanup that fails and is retried by a later transition | no provider client is lost, one selection, disposal final |
| Replay cache (`AnalysisSnapshotCache`, `BinarySessionRecords`) | staged target, entries, invalidated flag | select, record, lookup, import, invalidate, clear | observations in flight while metadata changes | never replays an outdated observation or one of another target |
| Tool request (`McpToolRequest`) | admission per session, handler and publication promises | admit, admit again, publish, cancel | admission is held until the reply is published; a reset queues behind it | every admission is released |
| Provider client creation (`AnalysisClientCreation`, `SharedStartupAttempt`) | closed flag, attempt, lease, waiters | acquire, abort, close, release | a close racing a start shared by several waiters | a child that was started is closed |
| Ghidra session (`GhidraClient`, `GhidraRequestQueue`) | startup attempt, socket, process, private files, FIFO of requests, close under way | start, call, cancel, close, stop | a cancellation racing an answer, a start after a failed cleanup, a close that keeps the session | each request settles, at most one is at the bridge, nothing is launched over leftovers |
| Hopper session (`HopperClient`, `HopperRequestQueue`) | the same with its own cancellation | enqueue, abort, dispatch, answer | as above | as above |
| Run slots (`KunaRunSlots`, `KunaQueryWork`, `KunaTargetCommands`) | slots in use, FIFO waiters, runs that cannot be proven stopped | acquire, release, abort, retain, close | a slot handed to a waiter that gave up | at most the limit runs, no slot is lost |
| Runtime shutdown (`src/main/shutdown.ts`) | attempt memo, list of owners not closed yet | shutdown, retry | an owner fails while others close; a second signal | the session is disposed only after every owner closed |
| Provider routing (`SessionProviderRouter`, `AnalysisProviderRegistry`, `CompositeProvider`) | profiles, candidate resources | resolve, refresh, create, close | lazily started children, discovery that owns resources | disjoint routing, candidates closed |
| Leases and owned processes (`OwnedLease`, `ProcessOwnership`, `ProviderProcess`) | lease socket and its `.recovery` reservation, marker of the owner, process groups | claim, release, terminate, recover a stale socket | a death between two operations, two recoverers, pid reuse | at most one owner, orphans are recovered, never a stranger killed |
| Client configuration publication (`ClientConfigurationPublication`, `SetupRecoveryBackup`, `OwnedStagedOutput`) | staged file, backups, published file | read, back up, stage, publish, read back, restore | crash, second process or edit of the user between two file operations | what the user wrote and the original are in the file or a backup |
| Ghidra checkpoint (`GhidraCheckpoint`) | packed programs, the manifest that names the current one | select, admit, publish, remove the replaced one, close | sessions of several processes that die between two file operations | the current program is there and complete, no publication is overwritten |
| Debugger managers (`GdbSessionManager`, `RizinDebugSessionManager`, `FridaInstrumentationManager`) | sessions with state, owners, timeouts | start, continue, interrupt, stop | asynchronous stops and timeouts while a command is answered | one command at a time, every inferior released |
| HTTP session slot (`McpSessionSlot` in `serveStreamableHttp.ts`, `RequestTrackingMcpServer`) | the live session, the one being armed, its end under way, the calls of the server | route a request, arm, end with a bounded drain, prepare the shutdown | a handler of the old client that starts after the server was given to the next one; a drain that times out | work runs only under the session that asked for it; providers close after the last handler |
| HTTP request owner (`NodeHttpRequestOwner`, `nodeHttpBridge`) | admitted requests, exchanges, cleanups of responses and their failures | admit, settle a dispatch, deliver, cancel, drain | an admission ends with the last of four events in any order | the limit holds, no admission is lost, nothing is left when providers close |
| Kuna project cache (`KunaProjectCache`) | staged and published exports, builds under way, processes that did not stop | reuse, join, build, publish, sweep, discard, close | crash between staging and the rename that publishes, a build everybody left, a Kuna that does not stop | nothing that is written to is removed, one build per key, no Kuna left by a closed session |
| CLI, setup, contracts, domain analysis, artifact readers, Python/Java bridges, website | mostly pure or one-shot | parse, format, validate | data, not control | unit tests |

How they interact: a tool request enters through the MCP server, takes an admission of the
session (`McpToolRequest.admit` calls `withAdmittedAnalysis`) and executes operations on the
session's active client. The client is created by the route the provider router resolved; it
queues requests to one child process, which the process foundation owns. Transitions (open,
close, reset, external mutation) are requested by other tool calls of the same server and by the
runtime shutdown; they drain the admitted calls first.

## 2. Plan

Written, in this order (each module only depends on those before it):

1. `SessionExclusion`, `SessionLock`, `SessionLockProofs`: admission, its abstract contract, and
   proofs of safety and refinement (later also of the tool requests over it).
2. `BinarySession`, `BinarySessionProofs`: every transition over that lock, the clients it owns
   and the replay cache.
3. `ClientCreation` and its proofs: deferred creation of a client for several callers.
4. `Lists`, `RunSlots`, `KunaAdmission`: the slot counter and the runs that share two pools.
5. `GhidraSession` and its proofs: startup, queue, cancellation, checkpoint and close.
6. `ToolRequest`: MCP requests over the lock, proved about in `SessionLockProofs`.
7. `HttpSlot`: one MCP server serving HTTP clients in turn; `HttpServer`: the request owner and
   the staged close around it; `HttpServerProofs` for both.
8. `Shutdown`: the shutdown of the runtime composed with the whole of `BinarySession`, and proved
   about with it in `BinarySessionProofs`.
9. `LeaseExclusion`, `OwnedLease`, `GhidraCheckpoint`, `GhidraCheckpointProofs`: the lease of a
   directory, its abstract contract (a mutex with crashes), and the checkpoint sessions keep under
   it.
10. `KunaProjectCache`: shared builds, the cache directory of several servers, and its closes;
    `KunaProofs` for it and for `KunaAdmission`.
11. `ConfigurationPublication` and its proofs: how setup and uninstall edit a file its user edits
    too.

Next, the most important first:

1. The debugger managers (`GdbSessionManager`, ...), then `HopperClient` with its queue.
2. `ProcessOwnership` (markers of child processes, orphans), `ArtifactResourceScope`,
   `SkillFilePublication`, the capacity of `AnalysisSnapshotCache`.

## 3. Modules

The common convention: the program is one event loop, so one TLA+ step is one run of that loop
between two awaits. Whatever a function does before its next `await` (reading, deciding,
changing, notifying) is one action; whatever may run meanwhile is another action. A signal
(`AbortSignal`) is a choice at the places where the code looks at it, or a set of aborted
callers where the listener itself acts. A provider call that may fail has one disjunct or action
per outcome. Results, messages and bytes are left out. Operators commented "Variant:" are not
used by any specification: each is the form a plausible bug would give the definition that
follows it, and serves to test that the properties notice it.

### SessionExclusion and SessionLock (`src/application/binary/BinarySession.ts`)

`SessionExclusion` is the promise: calls that read the selection, or one transition that
replaces it. `SessionLock` is how `#serialize`, `#drainCalls`, `execute`,
`executeIfProviderReady`, `withAdmittedAnalysis` and `#waitForTransition` keep it:

| Variable | Code |
|---|---|
| `generation`, `settled` | `#transitionGeneration`, and how many of these have settled; `#transitionPending` is their difference |
| `phase`, `drain` | where the head of the promise chain is, and the promises `#drainCalls` awaits |
| `callState`, `callGen`, `barrier` | per call: progress, the generation in `#calls`, the transition it waits for |

`Invoke` / `InvokeReady` register a call, `Admit` ends its wait, `CancelWait` is
the abort of a waiter, `NestedInvoke` the dispatch of a call within an admitted one (which does
not wait), `Serialize` requests a transition, `StartDrain` / `DrainDone` / `SettleTransition`
are its life, and `SettleEarly` a transition refused before its drain.

### BinarySession

Extends the lock with what transitions do. `client`, `target` are `#active`; `resource` the
client of the app resources; `pending`, `pendingRes` the cleanups that failed; `open` (ghost)
the clients that were created and not closed; `staged`, `entries`, `invalidated` the replay
cache, where an entry is `fresh` or `stale` against the metadata it was read under; `ops` the
kinds of the queued transitions; `step` and its locals the await the head transition is at.
Every transition but a close first retries pending cleanups (`RetryPending`, `RetryResources`),
then
- an open takes the selection away, retires the old client, creates a candidate, and commits, or
  falls back through `RetireCandidate` and `Restore` (`#failedOpen`, `#restoreAfterFailedOpen`);
- an open of app resources creates and admits a client for them;
- a close (also save-and-close, shutdown and dispose) releases every owner and reports what it
  could not;
- an external mutation retires the selection, and keeps a failure while its own cleanup is
  incomplete;
- a reset only clears the investigation's records.

Calls (`Dispatch...`, `Answer...`) use the client that was selected when they were sent, and
record into the cache what they observed.

### ClientCreation (`DeferredAnalysisClient`, `AnalysisClientCreation`, `SharedStartupAttempt`)

The producer of a shared attempt (`BeginCreate`, `Create`, `CleanPrerequisites`, `ReleaseCreated`,
`ReleaseClient`), its callers (`AcquireWaits`, `Depart`, `Dispatch`, ...), and the close that
joins it (`Close`, `CloseJoins`, `CloseCleans`, `CloseReleases`). `open` (ghost) counts native
clients; `lease`, `client`, `retained`, `owes` are what the code remembers of them.

### RunSlots and KunaAdmission (`KunaRunSlots`, `KunaSessionClient`, `KunaQueryWork`, `KunaTargetCommands`)

`RunSlots` is `KunaRunSlots` as a data type with operators `Acquired`, `Aborted`, `Released`;
`Lists` is the splice by value that it and the cache use on their arrays.
`KunaAdmission` runs lookups and queries of several sessions over one foreground pool and one
native slot per session. `Yield` is a finished project export that answers a lookup while it
waits, `Throw` and `Catch` the two places where a failing query gives its slots back, `Retain` a
process that cannot be proven stopped, `ProveStopped` and `CloseSucceeds` what frees its slots.

### GhidraSession (`GhidraClient`, `GhidraRequestQueue`)

`attempt`, `stopped`, `phase` are the shared startup; `process`, `socket`, `files` what it owns;
`queue`, `active`, `refused`, `wire`, `cancel` the request queue; `close`, `force` the close
under way. The environment may exit the process, break the socket, let the active request time
out, let a reply come late, and fail each of connecting, saving, stopping and removing.

### ToolRequest (`McpToolRequest`, `EvidenceMcpServerCore`, `ErrorEvidenceTransport`)

A request is a call of `SessionLock`. It is received, admitted, bound or refused, may dispatch
again under its admission, may request a transition and wait for it, finishes its handler, and
is published by the transport or suppressed by a cancellation; `released` is `#publicationDone`.
Errors the SDK makes itself are published under an admission of their own (`SendAdmitted`).

### HttpSlot (`serveStreamableHttp.ts`, `RequestTrackingMcpServer.ts`)

The live session and its end (`End`, `TransportClosed`, `Drained`, `DrainTimesOut`), the route
of each request (`Route`, `Probed`, `AfterDrain`, `Current`, `Armed`), the work it starts
(`Dispatch`, `Track`, `StartTool`, `ToolReturns`), and `PrepareShutdown` with its retries.

### HttpServer (`NodeHttpRequestOwner.ts`, `nodeHttpBridge.ts`, the close of `serveStreamableHttp.ts`)

Extends the slot with the exchange around each request, and with requests the slot never sees.
`Handle` admits or refuses, `DispatchSettled` is `onDispatchSettled`, `Finished` the condition of
`releaseIfReady`; `held` are the admissions that last as long as their response (plain routes,
and requests whose route threw, `EndFails`). `Leave` is a client that closes its connection,
`Disconnect` what that does to a response, `BodyCancelled` the body of a reply to HEAD, which is
cancelled after its headers, `CleanupSettles` the cancellation of a source.
`Stop`, `PrepareSlot` and `Finish` are the stages of the close. Steps of the slot leave the
exchanges alone (`SlotStep`), except that a throw extends an admission.

### Shutdown (`src/main/shutdown.ts`)

Extends `BinarySession`: the session's own transitions and those the shutdown requests of it are
one queue. `attempt` is the memo, `closing` / `rejected` the owners of this attempt, `closedOwners`
those that need not be closed again, `ticket` the transition it waits for.

### LeaseExclusion and OwnedLease (`src/process/OwnedLease.ts`)

`LeaseExclusion` is the promise: at most one process has the lease. In `OwnedLease` one step is
one system call of one process: `bind`, `connect` to find out whether the owner lives, `mkdir` of
the `.recovery` reservation, `unlink`, `rmdir`; `Die` may come between any two of them and leaves
`Dead` files behind. `owes` is what a release could not give back.

### GhidraCheckpoint (`src/ghidra/GhidraCheckpoint.ts`)

Extends the lease with the directory it protects: the `manifest`, the packed programs on `disk`,
and of each process what it selected (`state`), under its lease opened or published last (`source`),
writes (`fresh`) and still has to remove (`pending`). Selection needs no lease and may be outdated
when `Admit` checks it. `source` is reset when a lease is obtained, not when it is given back.

### KunaProjectCache (`src/kuna/KunaProjectCache.ts`, its use in `KunaSessionClient.ts`)

`entry`, `staging`, `trash` are the directory that servers share; `inflight`, `verified`,
`retained` what a server remembers; `build` an export under way with its waiters, `look` a lookup.
Servers crash, Kuna processes refuse to stop, files are changed from outside. `OneCloseAtATime`
says whether two sessions of a server may close concurrently. A build looks twice: before it
stages, where what it finds ends it, and after another process won the publication, where it
still has to retire its staging (`BuildGoesOn`). A lookup of an entry nobody verified yet reads its
manifest before it is admitted to the files (`ReadManifest`) and goes on with whatever is published
under its name then. An eviction spares the builds it saw when it began, and those in flight when
it picks a victim (`Held`).

### ConfigurationPublication (`src/application/ClientConfigurationPublication.ts` and callers)

One file (`node`s that the path names in turn), two kinds of transaction that edit it, and its
user. A file is the user's text and whether REA is registered. Each transaction reads, backs up
(`OpenCopy`, `FinishCopy`, `FailCopy`), stages, compares, publishes by link or rename, reads
back, and restores when the readback differs. `late` (ghost) marks the one window the code leaves
open: a change after the last comparison of a rename or a restore, which take no precondition.

## 4. Runs

| Run | Question | Instance | Properties |
|---|---|---|---|
| `session` | Does a session keep hold of every client, its selection and its cache through every failure, over an admission in which nobody overtakes? | 2 calls, 3 clients, 2 targets (one with a profile), 4 transitions of which 2 queue; calls and clients symmetric | `NoClientLost`, `CallsKeepTheirClient`, `ReplayIsFresh`, `CacheMatchesSelection`, `NothingSelectedUnderMutation`, `DisposedIsFinal`, `NoOvertaking`, `CloseReleasesEverything`, `ImplementsExclusion` (refinement) |
| `session_staged` | *violation*: does a failed open retire the cache? | 1 call, 3 transitions | `FailedOpenRetiresCache` |
| `shutdown` | Is the investigation kept until every owner has closed, over retries and whatever tools request, and does every attempt and every request settle? | 1 call, 2 clients, an owner beside the session, 2 attempts, 2 requests, fair | `InvestigationOutlivesOwners`, `EveryAttemptSettles`, `EveryRequestSettles` |
| `creation` | Is a shared creation neither lost, abandoned nor handed out after a close? | 3 callers, 2 native clients, fair | `NoClientOrphaned`, `NoProducerAbandoned`, `CloseReleasesAll`, `EveryCallerIsTold` |
| `kuna` | Do slots and native runs stay in step, and is every run that waits served although queries hold one slot while they wait for another? | 2 queries of one session, a lookup of another, foreground budget 1, fair | `PoolsAreSound`, `SlotsFollowRuns`, `EveryWaiterIsServed` |
| `ghidra` | Does the session serve one request at a time, start from nothing and settle everybody? | 3 requests with checkpoints, fair | `QueueIsSound`, `StartsFromNothing`, `SettledIsOver`, `CloseReleasesAll`, `EveryCallSettles` |
| `tool_requests` | Does no reset clear what an unpublished reply offers, and does every request end? | 2 requests, 2 transitions, fair | `ReplyOutlivesNoReset`, `EveryRequestEnds` |
| `http_server` | Does work run only under its own session, is the request limit kept without losing a place, and do providers outlive everything that uses them? | 3 requests in three mixes of initializes, a message, a DELETE and plain requests, limit 2, one client that may leave (a HEAD in the third mix), one upload that may stay unread, fair | `WorkKeepsItsSession`, `ProvidersOutliveExchanges`, `CapacityIsKept`, `EveryAdmissionIsReleased`, `CloseCompletes` |
| `lease` | Do the lease and the checkpoint under it survive deaths between any two operations? | 3 processes, 3 packed programs, symmetric | `CurrentIsIntact`, `NoLostPublication`, `ImplementsLease` (refinement) |
| `kuna_cache` | Is nothing removed that is written to, is a key built once, and is no Kuna left behind? | 2 servers, 2 sessions, 2 keys, 2 builds, 1 fault, closes one after another; symmetric | `WritersKeepTheirStaging`, `NoWaiterIsAborted`, `OneRunPerKey`, `ClosedSessionsLeaveNoKuna` |
| `kuna_cache_close` | *violation*: is no Kuna left behind when sessions close concurrently? | the same with one key in use and 2 faults | `ClosedSessionsLeaveNoKuna` |
| `publication` | Do the user's text and the originals survive two transactions? | 2 transactions of either kind, 2 edits of the user, 1 crash or failure, symmetric | `UserTextSurvives`, `OriginalsAreKept` |

The type invariants of the lock, the session, the tool requests, the Kuna admission and the Kuna
cache are theorems of their own (section 6); in the other components they are a part of the
inductive invariant that is proved, but for `ShutdownTypeOK`, which documents the ranges.

Bounds, and why they are enough:
- `MaxTransitions` bounds how many transitions are ever requested. With three the lock has one
  running, one draining behind it and one more that a call may be registered before or after.
  With four the session can open, switch with a failure, retry what it left and close.
  Identities of calls and clients are reused after they settle, so calls are not bounded. In
  `shutdown` six: two of the tools and the close and dispose of each of the two attempts, so that
  the bound never binds.
- `MaxQueued` bounds the transitions queued at once (two: the running one and one that was
  requested before it settled, which is what an open queued before a shutdown needs).
- Clients: three, so that a selection or candidate, a client whose cleanup is owed and a client
  of app resources exist at once.
- `Budget` is 1 so that two sessions compete for one foreground slot while others hold a native
  slot; tickets are used once.
- Ghidra requests: one at the bridge, one queued, one starting or leaving.
- HTTP: `MaxSessions` equals the requests: each arms one session at most, so the bound never
  binds. Two requests are worked on and a third is refused or comes after them, beside a tool
  handler, whose request may be over. `Restless` and `Uploads` are one request each, and `Heads`
  is the one whose client may leave, among the plain requests; at the close every connection is
  closed anyway.
- Lease: an owner, and two processes that recover it at once; processes are reused after a death,
  and so are the names of programs that are gone.
- Kuna cache: one build that everybody left beside its successor of the same key; a second server
  that sweeps. `MaxFaults` counts crashes, processes that do not stop and changes from outside;
  the lost record needs two.
- Publication: `MaxEdits` two, one before and one after a transaction read the file; names of
  backups are the contents they hold.

`CHECK_DEADLOCK FALSE` is set for the runs in which requests, attempts, transactions or faults are
used once and the instance is finished when all are done (`shutdown`, `kuna`, `tool_requests`,
`http_server`, `kuna_cache`, `kuna_cache_close`, `publication`); where something must not stop
earlier, a liveness property says so. In the others a deadlock is an error.

Fairness, and why the code justifies it:
- Promise reactions and timers run: weak fairness of the steps that only wait for the event
  loop.
- Provider calls, startups, stops and saves settle: each has a deadline in the code. Their
  outcome stays open.
- `SF` of `SettleCall` / `OperationReturns` / `FinishHandler`: a nested dispatch may disable the
  return of a handler for a while, but a handler does not dispatch for ever.
- Ghidra: `<>[][~Close]_vars`, the owner does not request closes for ever.
- HTTP: a transport fails to close not for ever (`SF`), a failed shutdown is retried, clients
  read their response or leave, the connection is closed after a reply to an unread upload, and a
  tool handler must return only once the slot is closed (closing its transport aborts its
  signal); before that it may hang, which is what the bounded drain is for.
- Kuna: a process that cannot be proven stopped need not stop; who waits for its slot is then
  refused by a close, not served.
- Nobody is obliged to call, cancel, open, close, export or fail, nor to shut down again after a
  failure. The lease, the cache and the publication have safety properties only: processes may
  die at every step.

## 5. Findings

- `session_staged` (code): an open that fails, cannot close its candidate and cannot restore the
  previous target leaves nothing selected, with the previous target still staged in the replay
  cache; the comment at `BinarySession.ts:649` says a failed open retires the provider cache.
  Until a close, opens of another target are refused.
- `kuna_cache_close` (code): `#retryProcesses` iterates over a copy of `#retainedProcesses` and
  removes by `indexOf` after an await. Two closes that overlap stop the same process, and the
  second removes the last record of the list instead, which may be another Kuna that still runs:
  both closes succeed. The session closes its clients one after another, so this needs two
  sessions of one provider that close concurrently; `kuna_cache` shows that without the overlap
  nothing is left behind.

Met while modelling, and smaller: `acquire` joins an attempt its last caller aborted, and then
receives a cancellation that is not its own (against `docs/ghidra-provider.md:238`); the close of
a Ghidra session forgets the error of a startup whose cleanup failed while directories are still
owned (against `docs/ghidra-provider.md:240`); and the comment in `Uninstall.ts:236`, that a
concurrent change is never overwritten, holds up to the last comparison before a rename, which
`UserTextSurvives` states (`late`).

## 6. Proofs

All theorems hold for every value of the constants under the named assumptions of the modules,
which only type the constants (`MaxTransitions \in Nat`, `None` is not a client, ...). They are
safety properties; each follows the same argument: an invariant that is inductive, one lemma per
group of actions, and a temporal step.

- `SessionLockProofs`. `LockInvariant` is the type invariant with `TransitionIsAlone` (no call
  is inside past the drain), `DrainIsExact` (while it drains, the snapshot is exactly the
  registered calls of earlier generations) and `NoOvertaking`. Mutual exclusion is not inductive
  alone: that the drain is empty only implies that nobody is inside because the drain is exact
  and nobody later than the head has been admitted. `LockImplementsExclusion` is the refinement
  of `SessionExclusion`: `DrainDone` is `BeginTransition`, `SettleTransition` is
  `EndTransition`, everything else begins or ends calls or stutters.
  Then for `ToolRequest`: requests obey the lock (`RequestsObeyTheLock`), so its invariant holds
  under them; `RequestInvariant` says which stages of a request hold an admission, and in
  particular that a release before publication only follows a cancellation;
  `ReplyOutlivesNoReset` follows.
- `BinarySessionProofs`. `SessionImplementsLock`: each step of the session is a step of the
  lock, so `LockInvariant` carries over. `SessionInvariant` adds `NoClientLost`,
  `StepInvariant`, `OneSelection`, `CallsKeepTheirClient` and `DisposedIsFinal`. `StepInvariant`
  is the strengthening: it says for each await which locals are set and which owners are empty;
  without it nothing forbids that a retirement overwrites an occupied `#pendingCleanup`, the one
  way to lose a client. `DisposedIsFinal` needs that a dispose in the queue implies that
  shutdown began, and that nothing is open once it settled.
  On it rest three more. For `ReplayIsFresh`: an observation that a change outdated, or may still
  outdate, was begun under an invalidated cache, and an invalidated cache is empty and records
  nothing. For `CacheMatchesSelection`: while an open may still restore the previous target, what
  is staged is of that target. For `NothingSelectedUnderMutation`: a mutation begins without app
  resources and ends without a client, and only an open that found no mutation unfinished selects
  again. The action property `CloseReleasesEverything` follows from `StepInvariant`: the steps that
  report a close or disposal as successful leave every owner empty.
  `Shutdown` extends the session, and `ShutdownRunsItsSession` shows that it takes only the
  session's steps, so all of the above holds under it. `ShutdownInvariant` says what a confirmed
  owner is, and that a disposal is queued only when all are; `InvestigationOutlivesOwners`
  needs it together with `DisposedIsFinal`.
- `GhidraCheckpointProofs`, first for the lease. The invariant has `OwnerKeepsPath` and
  `OnlyStaleIsRemoved`, which need
  each other: a recovery removes only a dead owner's file, since it holds the reservation and the
  file cannot change hands meanwhile; so a live owner keeps its path, so the next process that
  asks finds it. `FileIsBound` and `OwesWhenDone` strengthen it for the failures of a release.
  `LeaseIsExclusive` is the refinement of `LeaseExclusion`, for any number of processes.
  Then for the checkpoint, every step of which is a step of the lease or leaves it
  alone, so its invariant carries over. On top: only holders of the lease work on the directory,
  the `source` of a holder is what the manifest names, a program being written is `pending`, and
  what is pending is not what the manifest names. The last three are what makes removal after a
  death harmless (`CurrentStaysIntact`) and a publication never lost (`PublicationsAreNeverLost`).
- `ClientCreationProofs`. `CreationInvariant` says for every stage of the attempt and of the close
  what exists and what is owed: an attempt begins with nothing, what it made before it failed is
  unreleased, a close is past its wait only when no producer runs. `NoClientOrphaned` follows;
  `NoProducerAbandoned` is a part of the invariant; `CloseReleasesAll` follows from what
  is owed (`RetainedIsOwed`) and from that a successful close is the end (`ClosedIsOver`).
- `HttpServerProofs`. The steps of the server are steps of the slot or leave it alone
  (`ServerRunsItsSlot`), so the invariant of the slot carries over: a session is fenced before its
  end begins, and a handler is tracked before it starts, so `WorkKeepsItsSession` holds also after
  a drain that timed out or a close that failed. The invariant of the server ties admissions to
  exchanges and work; `ProvidersOutliveExchanges` and `CapacityIsKept` (for any capacity, by the
  cardinality of the set of admissions) follow.
- `ConfigurationPublicationProofs`. `PublicationInvariant` follows each transaction through its
  awaits while others, the user and crashes interfere. `BackupInvariant`: a backup that is being
  copied is nobody else's, and what a transaction verified is in a backup before it stages a file,
  from which `OriginalsAreKept` follows. `Knows`: a file whose stamp has not moved still has the
  content it had, so what a transaction overwrites is what it compared, as long as nobody touched
  the file since; so `UserTextSurvives` has to exclude only edits after the last comparison
  (`late`).
- `GhidraSessionProofs`. Neither the queue nor the answers are inductive alone. `StepsAreExclusive`
  says where the startup and the close are: a close works on the session only when no startup
  does, and has refused the queue. `NobodyIsEarly` says that a queue which admits requests while
  there is no session has nobody in it or on the way to it, which is why a startup that fails may
  drop the queue without telling anyone in it. `AnswersAreFinal` says that a request has an answer
  exactly when it is done, and when the bridge no longer works on the active one. The queue is a
  sequence of any length: `RemovalProperties` is the lemma on taking an element out of the middle,
  as a caller that leaves does. `CloseReleasesAll` follows as an action property.

- `KunaProofs`, first for arrays of any length: what taking an element out by value keeps
  (`Without`, a recursive function) is proved by induction over its prefixes, and the induction
  from the well-foundedness of `<` on the naturals (`IntervalInduction`).
  For admission: `PoolsAreSound` is kept by each of `Acquired`, `Aborted` and `Released` for a pool
  of any capacity; a release hands its slot to the first waiter, so the count stays the number of
  holders (a cardinality). `AdmissionInvariant` adds `TicketsFollowRun`, which determines from where
  a run is in its acquisition what its tickets may be, and `ClosedSessionsAreOver`.
  `SlotsFollowRuns` follows.
  For the cache the invariant has two halves. `FlowInvariant` is about sessions and builds:
  `WaitersFollow` (a waiting session waits for a running build of its process and key that is not
  aborted), `LookupsFollow` (who may be in a lookup, and for whom a process evicts),
  `RunsAreRegistered` (a build that is not winding down is the one `inflight` names, and what is
  named runs) and `RunsAreWanted` (a running build has a waiter, or was aborted and has a closing
  session that waits for its end). `NoWaiterIsAborted` is a part of it, and `OneRunPerKey` follows
  because a registration names one build. `StorageInvariant` is about the disk and the lists:
  `DiskOf` says where a build may be (a Kuna that may be writing has its staging, and its build is
  exporting, over or lost with its process; what is in the trash or owed as a file is over),
  `RetainedAreAnswered` that a retained process has an open session, `ListsAreSets` that no list
  repeats. `WritersKeepTheirStaging` follows. The steps of a lookup, which both sessions and
  builds take, and of the sweep and eviction, which reach other processes' builds, are lemmas of
  their own: they only shrink what is on the disk.
  `ClosesLeaveNoKuna` (for `ClosedSessionsLeaveNoKuna`) has the hypothesis `OneCloseAtATime`. Under
  it `CloseInvariant` is inductive too: a Kuna that outlives its build is retained, what a close
  still has to stop is retained, and one session of a process closes. Without the hypothesis the
  second part fails, and `kuna_cache_close` shows how.

Every invariant and every action property of a passing run is a theorem. The other invariants
(`TypeOK`, `LockInvariant`, `TransitionIsAlone`, `DrainIsExact`, `StepInvariant`, `OneSelection`,
`SessionInvariant`, `ShutdownInvariant`, `RequestInvariant`, `LeaseInvariant`, `CInv`,
`CreationInvariant`, `ServerInvariant`, `PublicationInvariant`, `GhidraInvariant`,
`AdmissionInvariant`, `CacheInvariant`, `CloseInvariant`) are strengthenings and parts of them;
each was model-checked on a small instance before it was proved.

Two assumptions on constants exist for the proofs of the cache, and hold by what the names are:
builds, keys, callers and processes are none of the values `None` and `"maintenance"`, and callers
are not builds.

Only model-checked: all liveness (out of the prover's reach, as is ENABLED):
`EveryCallerIsTold`, `EveryWaiterIsServed`, `EveryCallSettles`, `EveryRequestEnds`,
`EveryAdmissionIsReleased`, `CloseCompletes`, `EveryAttemptSettles`, `EveryRequestSettles`. No
module uses a RECURSIVE operator, and the induction theorems of the library, which take an operator, are not
used: but for `Without`, sequences are reasoned about by the theorems of the library, counters by
the cardinality of the set they count.

## 7. Not modelled

The debugger managers (GDB, Rizin, Frida); Hopper, whose queue is a variation of Ghidra's; the
other providers' clients and bridges, whose parts are protocol and data conversion; provider
routing (one client stands for what discovery creates); the ownership markers and the termination
of process trees; the CLI, setup and update commands but for their publication (sequential, one
shot); contracts, domain analysis and artifact readers (pure data).

Within the modelled components: the content of results and evidence; the capacity of the replay
cache; timeouts as durations (they are events); the operating system below `ProviderProcess` (a
process runs, has exited, or cannot be proven stopped); named pipes of Windows, where a lease has
no recovery; in the Kuna cache retained hash descriptors, the close of the whole cache (which
repeats that of a session for every key), and the sizes and times that order an eviction; in the
publication symbolic links, retargeted parent directories, owner and mode, and tampering with the
staging directory; in the HTTP server the allowlist, the parsing of requests, backpressure,
the start of the listener, a HEAD for the slot, and the GET stream a client keeps open on its session
(its admission is that of a dispatch, like a message's; its response lasts until the client leaves
or the session ends); the signal handlers of the shutdown.
