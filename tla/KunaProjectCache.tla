--------------------------- MODULE KunaProjectCache ---------------------------
(***************************************************************************)
(* The cache of Kuna exports of src/kuna/KunaProjectCache.ts, and of each    *)
(* session in src/kuna/KunaSessionClient.ts what uses it.  Server processes  *)
(* share one directory: projects/<key> holds a published export, staging/    *)
(* the builds whose Kuna may still be writing, trash/ what is being removed. *)
(* Within a process the sessions that want one key share one build.          *)
(*                                                                          *)
(* Every await that another caller or process can act in is a step of its    *)
(* own.  A build stands for the content it exports; Builds bounds how many   *)
(* there are at a time, and MaxFaults what goes wrong or comes from outside. *)
(*                                                                          *)
(* Left out: an unconfirmed close of a file that was hashed, and the errors  *)
(* of the file system other than that a file is missing, or that what is to  *)
(* be retired can be neither moved nor removed.                              *)
(***************************************************************************)
EXTENDS Lists, FiniteSets, SequencesExt

CONSTANTS
    Processes,          \* servers that share the cache directory
    Callers,            \* names of sessions (KunaSessionClient)
    Keys,               \* content addresses
    Asks,               \* the keys that sessions may ask for in each process
    Builds,             \* names of builds
    OneCloseAtATime,    \* sessions of a process do not close concurrently
    MaxFaults,          \* bounds the crashes, failures and changes from outside
    None

ASSUME CacheAssumption ==
    /\ OneCloseAtATime \in BOOLEAN
    /\ Asks \subseteq [Processes -> SUBSET Keys]
    /\ MaxFaults \in Nat
    /\ {None, "maintenance"} \cap (Processes \cup Builds \cup Keys \cup Callers) = {}
    /\ Callers \cap Builds = {}

VARIABLES
    entry,              \* projects/: the export under each key
    tampered,           \* published exports whose files were changed
    staging,            \* builds with a directory in staging/
    trash,              \* what was moved to trash/ and is still there
    live,               \* builds whose Kuna process runs
    build,              \* each build: its process, key, progress and result
    look,               \* the lookup a session or a build is in
    inflight,           \* #inflight of each process
    verified,           \* #verified: the export whose digests were checked
    retained,           \* #retainedProcesses
    files,              \* #retainedFiles, and whether a key is known
    caller,             \* each session: its process, key, build, project, close
    evictor,            \* the #eviction that runs in each process
    asks,               \* the member of Asks that a behaviour is about
    faults              \* how much went wrong so far

disk == <<entry, tampered, staging, trash, live>>
memory == <<inflight, verified, retained, files, evictor>>
vars == <<disk, memory, build, look, caller, asks, faults>>

NoBuild == [home |-> None, key |-> None, phase |-> "none", aborted |-> FALSE,
            project |-> None]
NoSession == [state |-> "closed", home |-> None, key |-> None, build |-> None,
              project |-> None, closing |-> FALSE, awaited |-> {}, todo |-> <<>>]
NoLookup == [at |-> "none", seen |-> None, memo |-> FALSE, replaced |-> FALSE]
NoEviction == [by |-> None, keep |-> None, building |-> {}, victim |-> None]

Init ==
    /\ entry = [k \in Keys |-> None]
    /\ tampered = {} /\ staging = {} /\ trash = {} /\ live = {}
    /\ build = [b \in Builds |-> NoBuild]
    /\ look = [a \in Callers \cup Builds |-> NoLookup]
    /\ inflight = [p \in Processes |-> [k \in Keys |-> None]]
    /\ verified = [p \in Processes |-> [k \in Keys |-> None]]
    /\ retained = [p \in Processes |-> <<>>]
    /\ files = [p \in Processes |-> {}]
    /\ caller = [c \in Callers |-> NoSession]
    /\ evictor = [p \in Processes |-> NoEviction]
    /\ asks \in Asks
    /\ faults = 0

(* What goes wrong, and what must not.                                      *)
Fault == faults < MaxFaults /\ faults' = faults + 1 /\ UNCHANGED asks
NoFault == UNCHANGED <<asks, faults>>
FaultIf(wrong) == IF wrong THEN Fault ELSE NoFault

ProcessOf(a) == IF a \in Callers THEN caller[a].home ELSE build[a].home
KeyOf(a) == IF a \in Callers THEN caller[a].key ELSE build[a].key

Waits(c, b) == caller[c].state = "waiting" /\ caller[c].build = b

(* #unfinished: builds whose promise has not settled.                       *)
Unfinished(p) ==
    {b \in Builds : build[b].home = p /\ build[b].phase \notin {"none", "done", "lost"}}

(* A session pins the project it adopted until it is invalidated or closed. *)
Pinned(p, k) == \E c \in Callers :
    caller[c].home = p /\ caller[c].key = k /\ caller[c].project # None

(* A retired export or build directory: what trash/ and #retainedFiles hold.*)
Retired(kind, b) == <<kind, b>>

(* Nothing is left of a build, so that its name may stand for another one.  *)
Unused(b) ==
    /\ build[b].phase \in {"none", "done", "lost"}
    /\ b \notin live \cup staging
    /\ \A k \in Keys : entry[k] # b /\ \A p \in Processes : verified[p][k] # b
    /\ \A c \in Callers : caller[c].project # b
    /\ \A a \in Callers \cup Builds : look[a].seen # b
    /\ \A kind \in {"entry", "staging"} :
         /\ Retired(kind, b) \notin trash
         /\ \A p \in Processes : \A f \in files[p] : f.item # Retired(kind, b)
    /\ \A p \in Processes : b \notin ToSet(retained[p])
    /\ \A c \in Callers : b \notin ToSet(caller[c].todo) \cup caller[c].awaited

Kept(item) == [item |-> item, keyed |-> TRUE]

-----------------------------------------------------------------------------
(* Results of a build, and of a lookup.                                     *)

(* Variant: the registration of a newer build goes too.                     *)
InflightAlways(b) == [inflight EXCEPT ![build[b].home][build[b].key] = None]

(* A settled build leaves #inflight unless a newer one has replaced it.     *)
InflightWithout(b) ==
    IF inflight[build[b].home][build[b].key] = b
    THEN [inflight EXCEPT ![build[b].home][build[b].key] = None]
    ELSE inflight

(* The promise of a build settles: every session that waits adopts the       *)
(* project or records the failure, in the same turn.                         *)
Finish(b, project) ==
    /\ build' = [build EXCEPT ![b].phase = "done", ![b].aborted = FALSE,
                               ![b].project = None]
    /\ inflight' = InflightWithout(b)
    /\ caller' = [c \in Callers |->
         IF ~Waits(c, b) THEN caller[c]
         ELSE [caller[c] EXCEPT !.state = IF project = None THEN "failed" ELSE "serving",
                                !.build = None, !.project = project]]

Phase(b, phase, project) ==
    build' = [build EXCEPT ![b].phase = phase, ![b].project = project]

(* Variant: a build that is winding down is joined.                         *)
JoinableAny(c, b) == b # None

(* A build whose waiters all left is winding down; it is not joined.        *)
Joinable(c, b) == b # None /\ ~build[b].aborted

(* `build`: join the build in flight or start one.                          *)
JoinOrBuild(c) ==
    LET p == caller[c].home
        k == caller[c].key
        Wait(b) == caller' = [caller EXCEPT ![c].state = "waiting", ![c].build = b]
    IN  \/ /\ caller[c].closing
           /\ caller' = [caller EXCEPT ![c].state = "failed"]
           /\ look' = [look EXCEPT ![c] = NoLookup]
           /\ UNCHANGED <<build, inflight>>
        \/ /\ ~caller[c].closing
           /\ Joinable(c, inflight[p][k])
           /\ Wait(inflight[p][k])
           /\ look' = [look EXCEPT ![c] = NoLookup]
           /\ UNCHANGED <<build, inflight>>
        \/ /\ ~caller[c].closing
           /\ ~Joinable(c, inflight[p][k])
           /\ \E b \in Builds :
                /\ Unused(b)
                /\ build' = [build EXCEPT ![b] = [NoBuild EXCEPT !.home = p, !.key = k,
                                                                 !.phase = "lookup"]]
                /\ inflight' = [inflight EXCEPT ![p][k] = b]
                /\ Wait(b)
                /\ look' = [look EXCEPT ![c] = NoLookup, ![b].at = "admit"]

(* A session goes on with what its lookup found.                            *)
SessionGoesOn(c, found) ==
    IF found # None
    THEN /\ caller' = [caller EXCEPT ![c].state = "serving", ![c].project = found]
         /\ look' = [look EXCEPT ![c] = NoLookup]
         /\ UNCHANGED <<build, inflight>>
    ELSE JoinOrBuild(c)

(* #produce and the loser of a publication go on with theirs.               *)
BuildGoesOn(b, found) ==
    /\ look' = [look EXCEPT ![b] = NoLookup]
    /\ CASE build[b].phase = "winner" ->
              Phase(b, "retire", found) /\ UNCHANGED <<inflight, caller>>
         [] build[b].phase # "winner" /\ found # None -> Finish(b, found)
         [] OTHER -> Phase(b, "stage", None) /\ UNCHANGED <<inflight, caller>>

GoesOn(a, found) ==
    IF a \in Callers THEN SessionGoesOn(a, found) ELSE BuildGoesOn(a, found)

(* A lookup that throws fails the request, or the build.                    *)
Throws(a) ==
    /\ look' = [look EXCEPT ![a] = NoLookup]
    /\ CASE a \in Callers -> caller' = [caller EXCEPT ![a].state = "idle"]
                             /\ UNCHANGED <<build, inflight>>
         [] a \notin Callers /\ build[a].phase = "winner" ->
                             Phase(a, "retire", None) /\ UNCHANGED <<inflight, caller>>
         [] OTHER -> Finish(a, None)

-----------------------------------------------------------------------------
(* lookup, step by step, for a session or a build.                          *)

Verify(p, k, b) == verified' = [verified EXCEPT ![p][k] = b]

(* #startProject: the first request of a session looks for a published      *)
(* export.                                                                   *)
OpenSession(c, p, k) ==
    /\ caller[c].state = "closed"
    /\ caller' = [caller EXCEPT ![c] = [NoSession EXCEPT !.state = "looking",
                                                        !.home = p, !.key = k]]
    /\ look' = [look EXCEPT ![c].at = "admit"]
    /\ NoFault
    /\ UNCHANGED <<disk, memory, build>>

(* Or a request after one whose lookup failed.                              *)
AskAgain(c) ==
    /\ caller[c].state = "idle" /\ ~caller[c].closing
    /\ caller' = [caller EXCEPT ![c].state = "looking"]
    /\ look' = [look EXCEPT ![c].at = "admit"]
    /\ NoFault
    /\ UNCHANGED <<disk, memory, build>>

(* The entry and its manifest are found; what was verified before is        *)
(* forgotten when the manifest is another one, and only what was not is read *)
(* afresh.  A missing entry is discarded.                                    *)
Admit(a) ==
    LET p == ProcessOf(a)
        k == KeyOf(a)
        b == entry[k]
        memo == b # None /\ verified[p][k] = b
    IN  /\ look[a].at = "admit"
        /\ look' = [look EXCEPT ![a] =
                      [NoLookup EXCEPT !.at = IF b = None THEN "discard"
                                              ELSE IF memo THEN "read" ELSE "manifest",
                                       !.seen = b, !.memo = memo]]
        /\ Verify(p, k, IF memo THEN b ELSE None)
        /\ NoFault
        /\ UNCHANGED <<disk, inflight, retained, files, evictor, build, caller>>

(* The manifest is read after the entry was admitted: an entry that is gone  *)
(* by now is not discarded, and one published meanwhile is read in its place.*)
ReadManifest(a) ==
    LET b == entry[KeyOf(a)]
    IN  /\ look[a].at = "manifest"
        /\ IF b = None
           THEN GoesOn(a, None)
           ELSE /\ look' = [look EXCEPT ![a] = [@ EXCEPT !.at = "read", !.seen = b,
                                            !.replaced = (b # look[a].seen)]]
                /\ UNCHANGED <<build, inflight, caller>>
        /\ NoFault
        /\ UNCHANGED <<disk, retained, files, evictor, verified>>

(* What the files under a key hold: None when they are missing or changed.  *)
Content(k) == IF entry[k] \in tampered THEN None ELSE entry[k]

(* The digests, or for a verified project the file states, are as recorded. *)
FilesMatch(a) == Content(KeyOf(a)) = look[a].seen

ReadFiles(a) ==
    /\ look[a].at = "read"
    /\ look' = [look EXCEPT ![a].at = IF FilesMatch(a) THEN "touch" ELSE "discard"]
    /\ IF FilesMatch(a) THEN UNCHANGED verified ELSE Verify(ProcessOf(a), KeyOf(a), None)
    /\ NoFault
    /\ UNCHANGED <<disk, inflight, retained, files, evictor, build, caller>>

(* #touch: false when the entry is gone by now, whichever export is there.  *)
(* What was read afresh is recorded with the manifest that was admitted; the *)
(* record of another one than was read is dropped by the lookup that meets it.*)
Touch(a) ==
    /\ look[a].at = "touch"
    /\ LET p == ProcessOf(a)
           k == KeyOf(a)
       IN  IF entry[k] = None
           THEN /\ IF look[a].memo THEN Verify(p, k, None) ELSE UNCHANGED verified
                /\ GoesOn(a, None)
           ELSE /\ IF look[a].memo THEN UNCHANGED verified
                   ELSE Verify(p, k, IF look[a].replaced THEN None ELSE look[a].seen)
                /\ GoesOn(a, look[a].seen)
    /\ NoFault
    /\ UNCHANGED <<disk, retained, files, evictor>>

(* The owner's signal ends a read; nothing is discarded.                    *)
ReadCancelled(a) ==
    /\ look[a].at = "read"
    /\ IF a \in Callers THEN caller[a].closing ELSE build[a].aborted
    /\ Throws(a)
    /\ NoFault
    /\ UNCHANGED <<disk, retained, files, evictor, verified>>

(* #discard: one rename takes whatever is published under the key.          *)
DiscardRemoved(a) ==
    /\ look[a].at = "discard"
    /\ entry' = [entry EXCEPT ![KeyOf(a)] = None]
    /\ tampered' = tampered \ {entry[KeyOf(a)]}
    /\ GoesOn(a, None)
    /\ NoFault
    /\ UNCHANGED <<staging, trash, live, retained, files, evictor, verified>>

(* The export was moved to trash/, and there it cannot be removed.          *)
DiscardKept(a) ==
    LET p == ProcessOf(a)
        item == Retired("entry", entry[KeyOf(a)])
    IN  /\ Fault
        /\ look[a].at = "discard"
        /\ entry[KeyOf(a)] # None
        /\ entry' = [entry EXCEPT ![KeyOf(a)] = None]
        /\ tampered' = tampered \ {entry[KeyOf(a)]}
        /\ trash' = trash \cup {item}
        /\ files' = [files EXCEPT ![p] = @ \cup {Kept(item)}]
        /\ Throws(a)
        /\ UNCHANGED <<staging, live, retained, evictor, verified>>

Lookup(a) == \/ Admit(a) \/ ReadManifest(a) \/ ReadFiles(a) \/ Touch(a)
             \/ ReadCancelled(a) \/ DiscardRemoved(a) \/ DiscardKept(a)

-----------------------------------------------------------------------------
(* #produce: sweep, stage, export, publish, retire the staging and evict.   *)

(* Variant: staging that no build of this process owns is swept as well.    *)
SweptByAge(b) ==
    trash \cup {Retired("staging", x) : x \in staging \ Unfinished(build[b].home)}

(* #sweep removes retired resources only.                                   *)
Swept(b) == trash

(* What cannot be removed is retained, without a key unless one was known.  *)
(* Then exportKunaProject runs Kuna in the staging, unless it was cancelled. *)
Stage(b) ==
    LET p == build[b].home
    IN  /\ build[b].phase = "stage"
        /\ ~(build[b].aborted /\ trash # {})
        /\ \E left \in SUBSET Swept(b) :
             LET gone == Swept(b) \ left
                 owned == {f \in files[p] : f.item \notin gone}
             IN  /\ FaultIf(left # {})
                 /\ trash' = trash \ gone
                 /\ staging' = {x \in staging : Retired("staging", x) \notin gone} \cup {b}
                 /\ files' = [files EXCEPT ![p] = owned \cup
                      {[item |-> i, keyed |-> FALSE] : i \in left \ {f.item : f \in owned}}]
        /\ live' = IF build[b].aborted THEN live ELSE live \cup {b}
        /\ Phase(b, "export", None)
        /\ UNCHANGED <<entry, tampered, inflight, verified, retained, evictor,
                       look, caller>>

(* The sweep is interrupted before the staging is made.                     *)
StageAborted(b) ==
    /\ build[b].phase = "stage"
    /\ build[b].aborted /\ trash # {}
    /\ Finish(b, None)
    /\ NoFault
    /\ UNCHANGED <<disk, verified, retained, files, evictor, look>>

(* Kuna is over and its export is sealed.                                   *)
Exported(b) ==
    /\ build[b].phase = "export" /\ b \in live
    /\ live' = live \ {b}
    /\ Phase(b, "publish", None)
    /\ NoFault
    /\ UNCHANGED <<entry, tampered, staging, trash, memory, look, caller>>

(* The export failed, was cancelled or never started; no Kuna is left.      *)
ExportFails(b) ==
    /\ build[b].phase = "export"
    /\ live' = live \ {b}
    /\ Phase(b, "retire", None)
    /\ NoFault
    /\ UNCHANGED <<entry, tampered, staging, trash, memory, look, caller>>

(* Kuna cannot be proven stopped: its owner and its staging are retained.   *)
ExportRetained(b) ==
    /\ Fault
    /\ build[b].phase = "export" /\ b \in live
    /\ retained' = [retained EXCEPT ![build[b].home] = Append(@, b)]
    /\ Finish(b, None)
    /\ UNCHANGED <<disk, verified, files, evictor, look>>

(* The one rename that publishes; another publication of the key wins.      *)
Publish(b) ==
    LET k == build[b].key
    IN  /\ build[b].phase = "publish"
        /\ IF entry[k] = None
           THEN /\ entry' = [entry EXCEPT ![k] = b]
                /\ Verify(build[b].home, k, b)
                /\ Phase(b, "retire", b)
                /\ UNCHANGED look
           ELSE /\ Phase(b, "winner", None)
                /\ look' = [look EXCEPT ![b].at = "admit"]
                /\ UNCHANGED <<entry, verified>>
        /\ NoFault
        /\ UNCHANGED <<tampered, staging, trash, live, inflight, retained, files,
                       evictor, caller>>

(* The export is larger than the cache, or its manifest cannot be written.  *)
PublishFails(b) ==
    /\ Fault
    /\ build[b].phase = "publish"
    /\ Phase(b, "retire", None)
    /\ UNCHANGED <<disk, memory, look, caller>>

(* #retireStaging: the staging is gone; a published export is then evicted  *)
(* around.                                                                  *)
RetireStaging(b) ==
    /\ build[b].phase = "retire"
    /\ staging' = staging \ {b}
    /\ IF build[b].project = None THEN Finish(b, None)
       ELSE Phase(b, "evict", build[b].project) /\ UNCHANGED <<inflight, caller>>
    /\ NoFault
    /\ UNCHANGED <<entry, tampered, trash, live, verified, retained, files, evictor, look>>

(* It cannot be moved, or not removed from trash/; the project, if there is *)
(* one, is still handed out (KunaPublishedProjectCleanupError).             *)
RetireFails(b) ==
    /\ Fault
    /\ build[b].phase = "retire"
    /\ \/ /\ staging' = staging \ {b}
          /\ trash' = trash \cup {Retired("staging", b)}
       \/ UNCHANGED <<staging, trash>>
    /\ files' = [files EXCEPT ![build[b].home] = @ \cup {Kept(Retired("staging", b))}]
    /\ Finish(b, build[b].project)
    /\ UNCHANGED <<entry, tampered, live, verified, retained, evictor, look>>

Produce(b) == \/ Stage(b) \/ StageAborted(b) \/ Exported(b)
              \/ ExportFails(b) \/ ExportRetained(b) \/ Publish(b) \/ PublishFails(b)
              \/ RetireStaging(b) \/ RetireFails(b)

-----------------------------------------------------------------------------
(* Eviction: one decision at a time in a process (#eviction).  The sizes    *)
(* and times of use that decide which entries go, and how many, are left     *)
(* open: any that nothing holds may be taken.                                *)

(* The eviction takes down the keys of the builds that are unfinished when  *)
(* it begins.                                                               *)
BeginEviction(p, by, keep) ==
    /\ evictor[p].by = None
    /\ evictor' = [evictor EXCEPT ![p] =
         [by |-> by, keep |-> keep, building |-> {build[b].key : b \in Unfinished(p)},
          victim |-> None]]

(* One of those, a build in flight by now, the build that evicts, or a pin  *)
(* holds the entry.                                                         *)
Held(p, k) ==
    \/ k \in evictor[p].building
    \/ inflight[p][k] # None
    \/ k = evictor[p].keep
    \/ Pinned(p, k)

(* A build that published evicts around its own entry.                      *)
EvictAround(b) ==
    /\ build[b].phase = "evict"
    /\ BeginEviction(build[b].home, b, build[b].key)
    /\ Phase(b, "evicting", build[b].project)
    /\ NoFault
    /\ UNCHANGED <<disk, inflight, verified, retained, files, look, caller>>

(* #scheduleEviction: an eviction that was deferred because pins or builds   *)
(* held what it would have taken runs some time after they are released.     *)
Maintain(p) ==
    /\ Fault
    /\ \E c \in Callers : caller[c].home = p
    /\ BeginEviction(p, "maintenance", None)
    /\ UNCHANGED <<disk, inflight, verified, retained, files, build, look, caller>>

(* #evictUnpinned settles on an entry; #discard forgets that it was verified.*)
ChooseVictim(p, k) ==
    /\ evictor[p].by # None /\ evictor[p].victim = None
    /\ entry[k] # None /\ ~Held(p, k)
    /\ evictor' = [evictor EXCEPT ![p].victim = k]
    /\ Verify(p, k, None)
    /\ NoFault
    /\ UNCHANGED <<disk, inflight, retained, files, build, look, caller>>

(* The eviction is over, and with it the build that asked for it.           *)
EvictionEnds(p) ==
    /\ evictor' = [evictor EXCEPT ![p] = NoEviction]
    /\ IF evictor[p].by \in Builds
       THEN Finish(evictor[p].by, build[evictor[p].by].project)
       ELSE UNCHANGED <<build, inflight, caller>>

EvictionDone(p) ==
    /\ evictor[p].by # None /\ evictor[p].victim = None
    /\ EvictionEnds(p)
    /\ NoFault
    /\ UNCHANGED <<disk, verified, retained, files, look>>

(* #discard of the victim, after the awaits that precede its rename.        *)
EvictVictim(p) ==
    LET k == evictor[p].victim
    IN  /\ k # None
        /\ entry' = [entry EXCEPT ![k] = None]
        /\ tampered' = tampered \ {entry[k]}
        /\ evictor' = [evictor EXCEPT ![p].victim = None]
        /\ NoFault
        /\ UNCHANGED <<staging, trash, live, inflight, verified, retained, files,
                       build, look, caller>>

(* What was moved to trash/ cannot be removed, and the eviction fails.      *)
EvictionFails(p) ==
    LET k == evictor[p].victim
        item == Retired("entry", entry[k])
    IN  /\ Fault
        /\ k # None /\ entry[k] # None
        /\ entry' = [entry EXCEPT ![k] = None]
        /\ tampered' = tampered \ {entry[k]}
        /\ trash' = trash \cup {item}
        /\ files' = [files EXCEPT ![p] = @ \cup {Kept(item)}]
        /\ EvictionEnds(p)
        /\ UNCHANGED <<staging, live, verified, retained, look>>

Evict(p) == \/ Maintain(p) \/ \E k \in Keys : ChooseVictim(p, k)
            \/ EvictVictim(p) \/ EvictionFails(p) \/ EvictionDone(p)

-----------------------------------------------------------------------------
(* A session: its reads, and its close.                                     *)

(* #withProject: a read finds its immutable project gone and starts again.  *)
Invalidate(c) ==
    /\ caller[c].state = "serving" /\ ~caller[c].closing
    /\ entry[caller[c].key] # caller[c].project
    /\ caller' = [caller EXCEPT ![c].state = "looking", ![c].project = None]
    /\ look' = [look EXCEPT ![c].at = "admit"]
    /\ NoFault
    /\ UNCHANGED <<disk, memory, build>>

(* The last waiter that leaves aborts the build.                            *)
LastWaiter(c, b) == ~\E d \in Callers \ {c} : Waits(d, b)

(* The close begins: the session's signal makes it leave its build.         *)
BeginClose(c) ==
    /\ caller[c].state # "closed" /\ ~caller[c].closing
    /\ caller' = [caller EXCEPT ![c].closing = TRUE, ![c].build = None,
                                ![c].state = IF @ = "waiting" THEN "failed" ELSE @]
    /\ LET b == caller[c].build
       IN  build' = IF b # None /\ LastWaiter(c, b)
                    THEN [build EXCEPT ![b].aborted = TRUE] ELSE build
    /\ NoFault
    /\ UNCHANGED <<disk, memory, look>>

CloseStates == {"settling", "retrying"}
Closing(p) == {c \in Callers : caller[c].home = p /\ caller[c].state \in CloseStates}

(* Variant: only the build registered last is waited for.                   *)
AwaitRegistered(c) ==
    {b \in Builds : b = inflight[caller[c].home][caller[c].key] /\ build[b].aborted}

(* `settled`: the unfinished builds of the key that everyone abandoned.     *)
Awaited(c) ==
    {b \in Unfinished(caller[c].home) : build[b].key = caller[c].key /\ build[b].aborted}

(* No request of the session is active any more.  A failed close is repeated.*)
Settle(c) ==
    /\ caller[c].closing /\ caller[c].state \in {"idle", "serving", "failed"}
    /\ OneCloseAtATime => Closing(caller[c].home) = {}
    /\ caller' = [caller EXCEPT ![c].state = "settling", ![c].awaited = Awaited(c)]
    /\ NoFault
    /\ UNCHANGED <<disk, memory, build, look>>

(* #retryProcesses takes the processes retained for the key as they are now.*)
Settled(c) ==
    /\ caller[c].state = "settling"
    /\ \A b \in caller[c].awaited : build[b].phase = "done"
    /\ caller' = [caller EXCEPT ![c].state = "retrying", ![c].awaited = {},
         ![c].todo = Without(retained[caller[c].home],
                             {b \in Builds : build[b].key # caller[c].key})]
    /\ NoFault
    /\ UNCHANGED <<disk, memory, build, look>>

(* splice(indexOf(b), 1): when b is gone the index is -1, the last one.     *)
Spliced(list, b) ==
    IF b \in ToSet(list) THEN Without(list, {b})
    ELSE IF list = <<>> THEN list ELSE Front(list)

(* One retained process is asked to stop again, and remains.                *)
StopIncomplete(c) ==
    /\ NoFault
    /\ caller[c].state = "retrying" /\ caller[c].todo # <<>>
    /\ caller' = [caller EXCEPT ![c].todo = Tail(@)]
    /\ UNCHANGED <<disk, memory, build, look>>

(* Or is proven stopped: it is forgotten and its staging retired.  Staging  *)
(* that is gone already cannot be moved, which is retained like any failure.*)
StopComplete(c) ==
    LET p == caller[c].home
        b == Head(caller[c].todo)
    IN  /\ caller[c].state = "retrying" /\ caller[c].todo # <<>>
        /\ caller' = [caller EXCEPT ![c].todo = Tail(@)]
        /\ live' = live \ {b}
        /\ retained' = [retained EXCEPT ![p] = Spliced(@, b)]
        /\ \/ /\ b \in staging
              /\ staging' = staging \ {b}
              /\ NoFault
              /\ UNCHANGED files
           \/ /\ FaultIf(b \in staging)
              /\ files' = [files EXCEPT ![p] = @ \cup {Kept(Retired("staging", b))}]
              /\ UNCHANGED staging
        /\ UNCHANGED <<entry, tampered, trash, inflight, verified, evictor, build, look>>

(* What is left for a key when its processes and files were retried.        *)
Owed(c, kept) ==
    \/ \E b \in ToSet(retained[caller[c].home]) : build[b].key = caller[c].key
    \/ kept # {}

(* #retryFiles removes the files retained for the key; then `settled` tells *)
(* the session whether it is closed.                                        *)
RetryFiles(c) ==
    LET p == caller[c].home
        mine == {f \in files[p] : f.keyed /\ build[f.item[2]].key = caller[c].key}
    IN  /\ caller[c].state = "retrying" /\ caller[c].todo = <<>>
        /\ \E kept \in SUBSET mine :
             LET gone == {f.item : f \in mine \ kept}
             IN  /\ NoFault
                 /\ files' = [files EXCEPT ![p] = @ \ (mine \ kept)]
                 /\ trash' = trash \ gone
                 /\ staging' = {x \in staging : Retired("staging", x) \notin gone}
                 /\ caller' = [caller EXCEPT ![c] =
                      IF Owed(c, kept) THEN [@ EXCEPT !.state = "failed"] ELSE NoSession]
        /\ UNCHANGED <<entry, tampered, live, inflight, verified, retained, evictor,
                       build, look>>

Session(c) == \/ \E p \in Processes : \E k \in asks[p] : OpenSession(c, p, k)
              \/ AskAgain(c) \/ Invalidate(c) \/ BeginClose(c) \/ Settle(c) \/ Settled(c)
              \/ StopIncomplete(c) \/ StopComplete(c) \/ RetryFiles(c)

-----------------------------------------------------------------------------
(* What the cache does not decide.                                          *)

(* A published file is changed by someone else.                             *)
Tamper(k) ==
    /\ Fault
    /\ Content(k) # None
    /\ tampered' = tampered \cup {entry[k]}
    /\ UNCHANGED <<entry, staging, trash, live, memory, build, look, caller>>

(* A server dies.  Its Kuna has a process group of its own and goes on.     *)
Crash(p) ==
    /\ Fault
    /\ \E c \in Callers : caller[c].home = p
    /\ build' = [b \in Builds |-> IF build[b].home = p
                                  THEN [build[b] EXCEPT !.phase = "lost"] ELSE build[b]]
    /\ caller' = [c \in Callers |-> IF caller[c].home = p THEN NoSession ELSE caller[c]]
    /\ look' = [a \in Callers \cup Builds |->
                  IF ProcessOf(a) = p THEN NoLookup ELSE look[a]]
    /\ inflight' = [inflight EXCEPT ![p] = [k \in Keys |-> None]]
    /\ verified' = [verified EXCEPT ![p] = [k \in Keys |-> None]]
    /\ retained' = [retained EXCEPT ![p] = <<>>]
    /\ files' = [files EXCEPT ![p] = {}]
    /\ evictor' = [evictor EXCEPT ![p] = NoEviction]
    /\ UNCHANGED disk

Next ==
    \/ \E a \in Callers \cup Builds : Lookup(a)
    \/ \E b \in Builds : Produce(b) \/ EvictAround(b)
    \/ \E p \in Processes : Evict(p) \/ Crash(p)
    \/ \E c \in Callers : Session(c)
    \/ \E k \in Keys : Tamper(k)

Spec == Init /\ [][Next]_vars

-----------------------------------------------------------------------------
(* Properties.                                                              *)

TypeOK ==
    /\ entry \in [Keys -> Builds \cup {None}]
    /\ tampered \subseteq Builds /\ staging \subseteq Builds /\ live \subseteq Builds
    /\ inflight \in [Processes -> [Keys -> Builds \cup {None}]]
    /\ verified \in [Processes -> [Keys -> Builds \cup {None}]]
    /\ \A p \in Processes : ToSet(retained[p]) \subseteq Builds

(* A published export has no writer, and a Kuna that may still be writing   *)
(* keeps its staging, whichever process cleans up, evicts, sweeps or dies   *)
(* ("staging/ holds builds whose processes may still be live").             *)
WritersKeepTheirStaging ==
    \A b \in live : b \in staging /\ \A k \in Keys : entry[k] # b

(* The run of a build is cancelled only when every waiting request has been *)
(* cancelled; no request waits for one that is winding down.                *)
NoWaiterIsAborted == \A c \in Callers, b \in Builds : Waits(c, b) => ~build[b].aborted

(* Concurrent requests for one key share one Kuna run: a process never has  *)
(* two builds of a key that are not winding down.                           *)
OneRunPerKey ==
    \A p \in Processes : \A b1, b2 \in Unfinished(p) :
        build[b1].key = build[b2].key /\ b1 # b2 => build[b1].aborted \/ build[b2].aborted

(* A session that is closed left no Kuna behind that only it had asked for: *)
(* "an export no other session wants must stop before this session reports  *)
(* itself closed".                                                          *)
ClosedSessionsLeaveNoKuna ==
    \A b \in live : build[b].phase # "lost" =>
        \E c \in Callers : /\ caller[c].home = build[b].home
                           /\ caller[c].key = build[b].key
=============================================================================
