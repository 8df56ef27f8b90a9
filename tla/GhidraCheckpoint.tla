-------------------------- MODULE GhidraCheckpoint --------------------------
(***************************************************************************)
(* The Ghidra checkpoint of src/ghidra/GhidraCheckpoint.ts: one directory   *)
(* with immutable packed programs and a manifest that names the current     *)
(* one, shared by REA processes that select it without the lease, open and  *)
(* publish under the lease, and may die between any two file operations.    *)
(*                                                                          *)
(* A blob is a fresh name (`randomUUID`) and stands for its digest.  The    *)
(* temporary manifest shares the fate of the blob it is written for.        *)
(* Reading the manifest and hashing the blob it names is one step: when     *)
(* they do not fit the read fails, and nothing is selected or admitted.     *)
(***************************************************************************)
EXTENDS OwnedLease

CONSTANTS
    Blob,               \* names of packed programs
    Initial             \* the generation of the first analysis

ASSUME CheckpointAssumption == Nothing \notin Blob /\ Initial \notin Blob

VARIABLES
    manifest,           \* current.json: the blob it names and its kind
    disk,               \* what is in the directory under each name
    step,               \* what the GhidraCheckpoint of each process is doing
    state,              \* #state: the generation that was selected or published
    source,             \* #source: the blob opened or published, once verified
    fresh,              \* the blob a publication is writing
    pending             \* #pendingRemoval

checkpointVars == <<manifest, disk, step, state, source, fresh, pending>>
vars == <<leaseVars, checkpointVars>>

NoManifest == [blob |-> Nothing, kind |-> "initial"]

(* checkpointState: stable through the first save.                          *)
Generation(m) == IF m.kind = "initial" THEN Initial ELSE m.blob

TypeOK ==
    /\ LeaseTypeOK
    /\ manifest \in {NoManifest} \cup [blob : Blob, kind : {"initial", "retained"}]
    /\ disk \in [Blob -> {"absent", "partial", "intact"}]
    /\ step \in [Process -> {"closed", "selected", "open", "ready", "copying",
                             "written", "cleaning", "closing", "releasing"}]
    /\ state \in [Process -> Blob \cup {Initial}]
    /\ source \in [Process -> Blob \cup {Nothing}]
    /\ fresh \in [Process -> Blob \cup {Nothing}]
    /\ pending \in [Process -> SUBSET Blob]

Init ==
    /\ LeaseInit
    /\ manifest = NoManifest
    /\ disk = [b \in Blob |-> "absent"]
    /\ step = [p \in Process |-> "closed"]
    /\ state = [p \in Process |-> Initial]
    /\ source = [p \in Process |-> Nothing]
    /\ fresh = [p \in Process |-> Nothing]
    /\ pending = [p \in Process |-> {}]

Then(p, s) == step' = [step EXCEPT ![p] = s]

(* readSource fails unless the named blob has the digest of the manifest.   *)
Readable == manifest.blob # Nothing => disk[manifest.blob] = "intact"

-----------------------------------------------------------------------------
(* resolveGhidraCheckpoint selects the generation, without the lease.       *)
Select(p) ==
    /\ step[p] = "closed"
    /\ at[p] = "idle" /\ owes[p] = {}
    /\ Readable
    /\ state' = [state EXCEPT ![p] = Generation(manifest)]
    /\ Then(p, "selected")
    /\ UNCHANGED <<leaseVars, manifest, disk, source, fresh, pending>>

(* `acquire` asks for the lease, at the start or after a close.             *)
Open(p) ==
    /\ step[p] = "selected"
    /\ Acquire(p)
    /\ Then(p, "open")
    /\ UNCHANGED <<manifest, disk, state, source, fresh, pending>>

(* One step of acquireOwnedLease; the acquisition may end in a failure.     *)
(* With the lease, what was opened or published before a close is forgotten. *)
Acquiring(p) ==
    /\ step[p] = "open"
    /\ Recover(p)
    /\ ~RetryOwed(p)
    /\ Then(p, IF at'[p] = "idle" THEN "selected" ELSE "open")
    /\ source' = IF at'[p] = "held" THEN [source EXCEPT ![p] = Nothing] ELSE source
    /\ UNCHANGED <<manifest, disk, state, fresh, pending>>

(* The generation on disk is still the one the session was opened for.      *)
Aligned(p) == Generation(manifest) = state[p]

(* Variant: what was selected is taken for what is there.                   *)
AdmitUnread(p) ==
    /\ step[p] = "open"
    /\ at[p] = "held"
    /\ source' = [source EXCEPT ![p] = IF state[p] = Initial THEN Nothing ELSE state[p]]
    /\ Then(p, "ready")
    /\ UNCHANGED <<leaseVars, manifest, disk, state, fresh, pending>>

(* The lease was acquired: the manifest is read again under it.             *)
Admit(p) ==
    /\ step[p] = "open"
    /\ at[p] = "held"
    /\ Readable
    /\ Aligned(p)
    /\ source' = [source EXCEPT ![p] = manifest.blob]
    /\ Then(p, "ready")
    /\ UNCHANGED <<leaseVars, manifest, disk, state, fresh, pending>>

(* The checkpoint changed, cannot be read, or the start was interrupted:    *)
(* the client closes the checkpoint it could not open.                      *)
AdmissionFails(p) ==
    /\ step[p] = "open"
    /\ at[p] = "held"
    /\ Then(p, "closing")
    /\ UNCHANGED <<leaseVars, manifest, disk, state, source, fresh, pending>>

(* One removal of retryCleanup.                                             *)
RemovePending(p) ==
    /\ step[p] \in {"cleaning", "closing"}
    /\ \E b \in pending[p] :
         /\ disk' = [disk EXCEPT ![b] = "absent"]
         /\ pending' = [pending EXCEPT ![p] = @ \ {b}]
    /\ UNCHANGED <<leaseVars, manifest, step, state, source, fresh>>

(* A removal fails: what is left stays pending for the next publication or  *)
(* close, which first retries it.                                           *)
RemovalFails(p) ==
    /\ step[p] \in {"cleaning", "closing"}
    /\ pending[p] # {}
    /\ Then(p, IF step[p] = "cleaning" THEN "ready" ELSE "releasing")
    /\ UNCHANGED <<leaseVars, manifest, disk, state, source, fresh, pending>>

(* The cleanup after a publication is complete.                             *)
Cleaned(p) ==
    /\ step[p] = "cleaning"
    /\ pending[p] = {}
    /\ Then(p, "ready")
    /\ UNCHANGED <<leaseVars, manifest, disk, state, source, fresh, pending>>

(* publish, up to its first await after the cleanup it starts with: the new *)
(* blob is owned before it exists.                                          *)
StartPublish(p) ==
    /\ step[p] = "ready"
    /\ pending[p] = {}
    /\ \E b \in Blob :
         /\ disk[b] = "absent"
         /\ \A q \in Process : b \notin pending[q] \cup {state[q], source[q]}
         /\ fresh' = [fresh EXCEPT ![p] = b]
         /\ pending' = [pending EXCEPT ![p] = {b}]
    /\ Then(p, "copying")
    /\ UNCHANGED <<leaseVars, manifest, disk, state, source>>

(* A publication retries what the last one could not remove.  One whose     *)
(* input is the #publishedInput ends with this cleanup and writes nothing.  *)
RetryPending(p) ==
    /\ step[p] = "ready"
    /\ pending[p] # {}
    /\ Then(p, "cleaning")
    /\ UNCHANGED <<leaseVars, manifest, disk, state, source, fresh, pending>>

(* The copy goes on, is complete, hashed and synced with its manifest.      *)
Copy(p) ==
    /\ step[p] = "copying"
    /\ \/ /\ disk[fresh[p]] = "absent"
          /\ disk' = [disk EXCEPT ![fresh[p]] = "partial"]
          /\ UNCHANGED step
       \/ /\ disk[fresh[p]] = "partial"
          /\ disk' = [disk EXCEPT ![fresh[p]] = "intact"]
          /\ Then(p, "written")
    /\ UNCHANGED <<leaseVars, manifest, state, source, fresh, pending>>

(* Variant: the manifest is replaced while the copy is under way.           *)
CanReplaceEarly(p) == step[p] \in {"copying", "written"}

CanReplace(p) == step[p] = "written"

(* The blob that was replaced is the one to remove.                         *)
PendingAfterReplace(p) == (pending[p] \ {fresh[p]}) \cup ({source[p]} \ {Nothing})

(* The rename over current.json, and the bookkeeping that follows it.       *)
Replace(p) ==
    /\ CanReplace(p)
    /\ LET m == [blob |-> fresh[p],
                 kind |-> IF source[p] = Nothing THEN "initial" ELSE "retained"]
       IN  /\ manifest' = m
           /\ state' = [state EXCEPT ![p] = Generation(m)]
    /\ source' = [source EXCEPT ![p] = fresh[p]]
    /\ pending' = [pending EXCEPT ![p] = PendingAfterReplace(p)]
    /\ fresh' = [fresh EXCEPT ![p] = Nothing]
    /\ Then(p, "cleaning")
    /\ UNCHANGED <<leaseVars, disk>>

(* Any step of a publication fails: its files are removed instead.          *)
PublishFails(p) ==
    /\ step[p] \in {"copying", "written"}
    /\ fresh' = [fresh EXCEPT ![p] = Nothing]
    /\ Then(p, "cleaning")
    /\ UNCHANGED <<leaseVars, manifest, disk, state, source, pending>>

(* The client closes its checkpoint; a close whose cleanup failed, or whose *)
(* lease was not released, is requested again.                              *)
Close(p) ==
    /\ step[p] \in {"ready", "releasing"}
    /\ Then(p, "closing")
    /\ UNCHANGED <<leaseVars, manifest, disk, state, source, fresh, pending>>

NothingPending(p) == pending[p] = {}

(* close: only after the cleanup, the lease is released.                    *)
CloseReleases(p) ==
    /\ step[p] = "closing"
    /\ NothingPending(p)
    /\ \/ Release(p) /\ Then(p, "selected")
       \/ UNCHANGED leaseVars /\ Then(p, "releasing")
    /\ UNCHANGED <<manifest, disk, state, source, fresh, pending>>

(* The owner of a session drops it, and what it remembers, for good.        *)
Drop(p) ==
    /\ step[p] = "selected"
    /\ at[p] = "idle"
    /\ Then(p, "closed")
    /\ state' = [state EXCEPT ![p] = Initial]
    /\ source' = [source EXCEPT ![p] = Nothing]
    /\ UNCHANGED <<leaseVars, manifest, disk, fresh, pending>>

(* What a failed acquisition still owes is retried at any time.             *)
Retry(p) ==
    /\ RetryOwed(p)
    /\ UNCHANGED checkpointVars

(* The process dies, leaving whatever is on the disk.                       *)
Crash(p) ==
    /\ Die(p)
    /\ Then(p, "closed")
    /\ state' = [state EXCEPT ![p] = Initial]
    /\ source' = [source EXCEPT ![p] = Nothing]
    /\ fresh' = [fresh EXCEPT ![p] = Nothing]
    /\ pending' = [pending EXCEPT ![p] = {}]
    /\ UNCHANGED <<manifest, disk>>

Step(p) ==
    \/ Select(p) \/ Open(p) \/ Acquiring(p) \/ Admit(p) \/ AdmissionFails(p)
    \/ RemovePending(p) \/ RemovalFails(p) \/ Cleaned(p)
    \/ StartPublish(p) \/ RetryPending(p) \/ Copy(p) \/ Replace(p) \/ PublishFails(p)
    \/ Close(p) \/ CloseReleases(p) \/ Drop(p) \/ Retry(p) \/ Crash(p)

Next ==
    \/ \E p \in Process : Step(p)
    \/ UserRemovesReservation /\ UNCHANGED checkpointVars

Spec == Init /\ [][Next]_vars

-----------------------------------------------------------------------------
(* Whatever dies when, the manifest names a packed program that is there    *)
(* and complete ("Publish a new immutable blob, then atomically replace its *)
(* manifest", GhidraCheckpoint.ts:307).                                     *)
CurrentIsIntact == manifest.blob # Nothing => disk[manifest.blob] = "intact"

(* A publication replaces exactly what its session opened or published      *)
(* last: no process overwrites the work of another (#state, #source and the *)
(* lease together).                                                         *)
NoLostPublication ==
    [][manifest' # manifest =>
         \E p \in Process : at[p] = "held" /\ source[p] = manifest.blob]_vars

(* The lease of the checkpoint is used as OwnedLease allows.                *)
ImplementsOwnedLease == LeaseSpec
=============================================================================
