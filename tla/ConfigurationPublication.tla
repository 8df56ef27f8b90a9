---------------------- MODULE ConfigurationPublication ----------------------
(***************************************************************************)
(* How setup and uninstall edit the configuration of a client               *)
(* (src/application/ClientConfigurationPublication.ts and its callers       *)
(* persistClientConfiguration and removeClient), with the recovery backups  *)
(* of SetupRecoveryBackup.ts and the staging of OwnedStagedOutput.ts.       *)
(* Several REA processes edit one file while its user edits, replaces or    *)
(* removes it, and each may die between any two file operations.            *)
(*                                                                          *)
(* A file has the user's text and whether REA is registered; REA's edit     *)
(* keeps the text.  A stat is the node and the stamp of its last change.    *)
(* Not modelled: symbolic links and the retargeting of parent directories,  *)
(* owner and mode, and tampering with the staging directory.                *)
(***************************************************************************)
EXTENDS Integers, Sequences

CONSTANTS
    Transaction,        \* processes that edit the configuration once
    Missing, Torn,      \* no file; a file of which only a part is written
    First,              \* the name of the first backup
    MaxEdits,           \* bound: changes of the user
    MaxFaults           \* bound: crashes and failing file operations

Text == 1..(MaxEdits + 1)
Whole == [text : Text \cup {0}, registered : BOOLEAN]
Content == Whole \cup {Torn}
Backup == {First} \cup Whole

ASSUME PublicationAssumption ==
    /\ Torn \notin Whole /\ First \notin Whole
    /\ Missing \notin Content \cup Transaction
    /\ MaxEdits \in Nat /\ MaxFaults \in Nat

VARIABLES
    file,               \* the node the path of the configuration names, or 0
    node,               \* each node: its content and its stamp
    backup,             \* the first backup, and the recovery of each content
    kind,               \* what each came for, setup or uninstall; fixed
    pc,                 \* the await a transaction is at
    original,           \* the content it read and edits, or Missing
    input,              \* the stat it selected
    chosen,             \* the backup it selected
    staged,             \* its staged file, once published also its file
    before,             \* the stat an observation of its own file began with
    outcome,            \* what it reports
    userText,           \* the last text of the user; 0 when there is none
    touched,            \* who had the file changed since its last comparison
    late,               \* a change after the last comparison was overwritten
    edits, faults       \* bounded

vars == <<file, node, backup, kind, pc, original, input, chosen, staged, before,
          outcome, userText, touched, late, edits, faults>>

Steps == {"start", "select_backup", "copy", "copying", "verify_backup",
          "select", "stage", "compare", "publish", "readback", "owned", "named",
          "restore", "bytes", "recheck", "write", "truncate", "confirm",
          "release", "done", "dead"}

NoStat == <<0, 0>>
Stat(n) == IF n = 0 THEN NoStat ELSE <<n, node[n].stamp>>
ContentOf(n) == IF n = 0 THEN Missing ELSE node[n].content

TypeOK ==
    /\ node \in Seq([content : Content, stamp : Nat])
    /\ file \in 0..Len(node)
    /\ backup \in [Backup -> Content \cup {Missing}]
    /\ kind \in [Transaction -> {"setup", "uninstall"}]
    /\ pc \in [Transaction -> Steps]
    /\ original \in [Transaction -> Content \cup {Missing}]
    /\ input \in [Transaction -> (0..Len(node)) \X Nat]
    /\ chosen \in [Transaction -> Backup]
    /\ staged \in [Transaction -> 0..Len(node)]
    /\ before \in [Transaction -> (0..Len(node)) \X Nat]
    /\ userText \in Text \cup {0}
    /\ touched \subseteq Transaction /\ late \in BOOLEAN
    /\ edits \in 0..MaxEdits /\ faults \in 0..MaxFaults

(* The configuration exists with a text of the user, or does not yet.       *)
Init ==
    /\ \/ /\ file = 1 /\ userText = 1
          /\ \E r \in BOOLEAN :
               node = <<[content |-> [text |-> 1, registered |-> r], stamp |-> 0]>>
       \/ file = 0 /\ userText = 0 /\ node = <<>>
    /\ backup = [b \in Backup |-> Missing]
    /\ kind \in [Transaction -> {"setup", "uninstall"}]
    /\ pc = [t \in Transaction |-> "start"]
    /\ original = [t \in Transaction |-> Missing]
    /\ input = [t \in Transaction |-> NoStat]
    /\ chosen = [t \in Transaction |-> First]
    /\ staged = [t \in Transaction |-> 0]
    /\ before = [t \in Transaction |-> NoStat]
    /\ outcome = [t \in Transaction |-> "none"]
    /\ touched = {} /\ late = FALSE
    /\ edits = 0 /\ faults = 0

(* Everything a step of a transaction changes in the shared files and what  *)
(* it has learnt; a step names what it leaves alone.                        *)
shared == <<file, node, userText, touched, late>>
learnt == <<original, input, chosen, staged, before>>

Registers(t) == kind[t] = "setup"
Goto(t, s) == pc' = [pc EXCEPT ![t] = s] /\ UNCHANGED kind
Report(t, s, o) == Goto(t, s) /\ outcome' = [outcome EXCEPT ![t] = o]
Continue(t, s) == Goto(t, s) /\ UNCHANGED outcome

(* The file changed under everyone who has already compared it.             *)
Touch(t) ==
    touched' = touched \cup
        {s \in Transaction \ {t} : pc[s] \in {"publish", "write", "truncate"}}

-----------------------------------------------------------------------------
(* configureClientDocument and removeClient read the file; a registration   *)
(* that is as wanted ends it.                                               *)
AsWanted(t, c) ==
    IF Registers(t) THEN c # Missing /\ c.registered
                   ELSE c = Missing \/ ~c.registered

Read(t) ==
    /\ pc[t] = "start"
    /\ LET c == ContentOf(file) IN
         /\ original' = [original EXCEPT ![t] = c]
         /\ input' = [input EXCEPT ![t] = Stat(file)]
         /\ IF c = Torn THEN Report(t, "done", "malformed")
            ELSE IF AsWanted(t, c) THEN Report(t, "done", "unchanged")
            ELSE Continue(t, IF c = Missing THEN "select" ELSE "select_backup")
    /\ UNCHANGED <<shared, backup, chosen, staged, before, edits, faults>>

(* selectCurrentRecoveryBackup: the first backup when it is free or has the *)
(* original, otherwise the one addressed by the original's digest.          *)
Selected(t) ==
    IF backup[First] \in {Missing, original[t]} THEN First ELSE original[t]

Occupied(t) == backup[Selected(t)] \notin {Missing, original[t]}

SelectBackup(t) ==
    /\ pc[t] = "select_backup"
    /\ chosen' = [chosen EXCEPT ![t] = Selected(t)]
    /\ IF Occupied(t) THEN Report(t, "done", "backup")
       ELSE Continue(t, IF backup[Selected(t)] = Missing
                        THEN "copy" ELSE "verify_backup")
    /\ UNCHANGED <<shared, backup, original, input, staged, before, edits, faults>>

(* copyFile with COPYFILE_EXCL: it opens the file that is there now and     *)
(* never replaces a backup; EEXIST leaves the decision to the verification. *)
OpenCopy(t) ==
    /\ pc[t] = "copy"
    /\ IF backup[chosen[t]] # Missing
       THEN Continue(t, "verify_backup") /\ UNCHANGED <<backup, before>>
       ELSE IF file = 0
       THEN Report(t, "done", "backup") /\ UNCHANGED <<backup, before>>
       ELSE /\ Continue(t, "copying")
            /\ backup' = [backup EXCEPT ![chosen[t]] = Torn]
            /\ before' = [before EXCEPT ![t] = Stat(file)]
    /\ UNCHANGED <<shared, original, input, chosen, staged, edits, faults>>

(* The bytes are those of the opened node, whatever the path names by now.  *)
FinishCopy(t) ==
    /\ pc[t] = "copying"
    /\ Continue(t, "verify_backup")
    /\ backup' = [backup EXCEPT ![chosen[t]] = ContentOf(before[t][1])]
    /\ UNCHANGED <<shared, learnt, edits, faults>>

(* A copy that fails removes what it wrote.                                 *)
FailCopy(t) ==
    /\ pc[t] = "copying" /\ faults < MaxFaults
    /\ Report(t, "done", "backup")
    /\ backup' = [backup EXCEPT ![chosen[t]] = Missing]
    /\ faults' = faults + 1
    /\ UNCHANGED <<shared, learnt, edits>>

(* Variant: the backup is there, whatever it holds.                         *)
BackupExists(t) == backup[chosen[t]] # Missing

(* preserveCurrentRecoveryBackup selects again and wants the same backup,   *)
(* present and with the original.                                           *)
BackupVerified(t) ==
    Selected(t) = chosen[t] /\ backup[chosen[t]] = original[t]

VerifyBackup(t) ==
    /\ pc[t] = "verify_backup"
    /\ IF BackupVerified(t) THEN Continue(t, "select") ELSE Report(t, "done", "backup")
    /\ UNCHANGED <<shared, backup, learnt, edits, faults>>

-----------------------------------------------------------------------------
(* selectedConfiguration reads the file again: its text is the original,    *)
(* and for setup its state the one of the first read.                       *)
Select(t) ==
    /\ pc[t] = "select"
    /\ input' = [input EXCEPT ![t] = Stat(file)]
    /\ IF /\ ContentOf(file) = original[t]
          /\ Registers(t) => Stat(file) = input[t]
       THEN Continue(t, "stage") ELSE Report(t, "done", "conflict")
    /\ UNCHANGED <<shared, backup, original, chosen, staged, before, edits, faults>>

(* The edit of REA: the text stays, the registration changes.               *)
Edited(t) == [text |-> IF original[t] = Missing THEN 0 ELSE original[t].text,
              registered |-> Registers(t)]

Append1(c) == Append(node, [content |-> c, stamp |-> 0])

(* mkdtemp, the exclusive staged file, its attributes and its sync.         *)
Stage(t) ==
    /\ pc[t] = "stage"
    /\ node' = Append1(Edited(t))
    /\ staged' = [staged EXCEPT ![t] = Len(node) + 1]
    /\ Continue(t, "compare")
    /\ UNCHANGED <<file, userText, touched, late, backup, original, input, chosen,
                   before, edits, faults>>

(* Variant: the name still means the node, whatever was written to it.      *)
SameNode(s) == Stat(file)[1] = s[1]

(* sameRegularFileState, and absence when there was none.                   *)
SameState(s) == Stat(file) = s

(* assertSelectedConfiguration, the last comparison before the publication. *)
Compare(t) ==
    /\ pc[t] = "compare"
    /\ IF SameState(input[t])
       THEN Continue(t, "publish") /\ touched' = touched \ {t}
       ELSE Report(t, "release", "conflict") /\ UNCHANGED touched
    /\ UNCHANGED <<file, node, userText, late, backup, learnt, edits, faults>>

(* An exclusive link publishes a first configuration: never over a file.    *)
MayReplace(t) == input[t] = NoStat => file = 0

(* rename replaces whatever the path names by now.                          *)
Publish(t) ==
    /\ pc[t] = "publish"
    /\ IF MayReplace(t)
       THEN /\ file' = staged[t]
            /\ late' = (late \/ (t \in touched /\ input[t] # NoStat))
            /\ Touch(t)
            /\ Continue(t, "readback")
       ELSE /\ Report(t, "release", "conflict")
            /\ UNCHANGED <<file, touched, late>>
    /\ UNCHANGED <<node, userText, backup, learnt, edits, faults>>

-----------------------------------------------------------------------------
(* What a caller does when the readback is not its own: setup reports the   *)
(* conflict, uninstall tries to restore and then asks for manual recovery.  *)
NotCurrent(t) == IF Registers(t) THEN Report(t, "release", "conflict")
                                ELSE Continue(t, "restore")

(* readRegularFileText of the published path.                               *)
Readback(t) ==
    /\ pc[t] = "readback"
    /\ IF ContentOf(file) = Edited(t) THEN Continue(t, "owned") ELSE NotCurrent(t)
    /\ UNCHANGED <<shared, backup, learnt, edits, faults>>

(* The readback fails, or the registration in it is not the one desired.    *)
FailReadback(t) ==
    /\ pc[t] \in {"readback", "named"} /\ faults < MaxFaults
    /\ Continue(t, "restore")
    /\ faults' = faults + 1
    /\ UNCHANGED <<shared, backup, learnt, edits>>

(* assertCurrent: the stat of the descriptor, then that of the name.        *)
StatOwned(t) ==
    /\ pc[t] = "owned"
    /\ before' = [before EXCEPT ![t] = Stat(staged[t])]
    /\ Continue(t, "named")
    /\ UNCHANGED <<shared, backup, original, input, chosen, staged, edits, faults>>

StatNamed(t) ==
    /\ pc[t] = "named"
    /\ IF SameState(before[t]) THEN Report(t, "release", "written") ELSE NotCurrent(t)
    /\ UNCHANGED <<shared, backup, learnt, edits, faults>>

-----------------------------------------------------------------------------
(* restore: the state of the own file, that the path names it, its bytes,   *)
(* and the state again; a first configuration is left to its user.          *)
Restore(t) ==
    /\ pc[t] = "restore"
    /\ before' = [before EXCEPT ![t] = Stat(staged[t])]
    /\ IF file = staged[t] THEN Continue(t, "bytes")
                           ELSE Report(t, "release", "conflict")
    /\ UNCHANGED <<shared, backup, original, input, chosen, staged, edits, faults>>

OwnBytes(t) == ContentOf(staged[t]) = Edited(t)

MatchBytes(t) ==
    /\ pc[t] = "bytes"
    /\ IF OwnBytes(t) THEN Continue(t, "recheck") ELSE Report(t, "release", "conflict")
    /\ UNCHANGED <<shared, backup, learnt, edits, faults>>

Recheck(t) ==
    /\ pc[t] = "recheck"
    /\ IF ~SameState(before[t])
       THEN Report(t, "release", "conflict") /\ UNCHANGED touched
       ELSE IF original[t] = Missing
       THEN Report(t, "release", "manual") /\ UNCHANGED touched
       ELSE Continue(t, "write") /\ touched' = touched \ {t}
    /\ UNCHANGED <<file, node, userText, late, backup, learnt, edits, faults>>

(* The descriptor is written in place, whatever the path names by now.      *)
Overwrite(t, c) ==
    /\ node' = [node EXCEPT ![staged[t]] = [content |-> c, stamp |-> @.stamp + 1]]
    /\ late' = (late \/ t \in touched)
    /\ Touch(t)

WriteBack(t) ==
    /\ pc[t] = "write"
    /\ Overwrite(t, Torn)
    /\ Continue(t, "truncate")
    /\ UNCHANGED <<file, userText, backup, learnt, edits, faults>>

Truncate(t) ==
    /\ pc[t] = "truncate"
    /\ Overwrite(t, original[t])
    /\ Continue(t, "confirm")
    /\ UNCHANGED <<file, userText, backup, learnt, edits, faults>>

ConfirmRestore(t) ==
    /\ pc[t] = "confirm"
    /\ Report(t, "release", IF file = staged[t] THEN "restored" ELSE "conflict")
    /\ UNCHANGED <<shared, backup, learnt, edits, faults>>

(* releaseStaging: close the descriptor and unlink the staged name, which   *)
(* after a link is a second name of the published file: its ctime changes.  *)
Release(t) ==
    /\ pc[t] = "release"
    /\ Continue(t, "done")
    /\ node' = IF original[t] = Missing /\ file = staged[t]
               THEN [node EXCEPT ![file].stamp = @ + 1] ELSE node
    /\ UNCHANGED <<file, userText, touched, late, backup, learnt, edits, faults>>

(* A failed write of the staged file or of its attributes.                  *)
FailStage(t) ==
    /\ pc[t] = "compare" /\ faults < MaxFaults
    /\ Report(t, "release", "failed")
    /\ faults' = faults + 1
    /\ UNCHANGED <<shared, backup, learnt, edits>>

(* The process dies; the operating system closes the descriptor.            *)
Crash(t) ==
    /\ pc[t] \notin {"start", "done", "dead"} /\ faults < MaxFaults
    /\ Continue(t, "dead")
    /\ touched' = touched \ {t}
    /\ faults' = faults + 1
    /\ UNCHANGED <<file, node, userText, late, backup, learnt, edits>>

-----------------------------------------------------------------------------
(* The user: a new text written in place or to a new file that replaces the *)
(* old one, or the removal of the file.                                     *)
NewText(c) == [text |-> edits + 2, registered |-> c \notin {Missing, Torn} /\ c.registered]

Act ==
    /\ edits < MaxEdits /\ edits' = edits + 1
    /\ Touch(Missing)
    /\ UNCHANGED <<backup, kind, pc, learnt, outcome, late, faults>>

EditInPlace ==
    /\ Act /\ file # 0
    /\ node' = [node EXCEPT ![file] =
                  [content |-> NewText(@.content), stamp |-> @.stamp + 1]]
    /\ userText' = edits + 2
    /\ UNCHANGED file

EditByReplacing ==
    /\ Act
    /\ node' = Append1(NewText(ContentOf(file)))
    /\ file' = Len(node) + 1
    /\ userText' = edits + 2

Remove ==
    /\ Act /\ file # 0
    /\ file' = 0
    /\ userText' = 0
    /\ UNCHANGED node

User == EditInPlace \/ EditByReplacing \/ Remove

Work(t) ==
    \/ Read(t) \/ SelectBackup(t) \/ OpenCopy(t) \/ FinishCopy(t) \/ FailCopy(t)
    \/ VerifyBackup(t) \/ Select(t) \/ Stage(t) \/ Compare(t) \/ Publish(t)
    \/ Readback(t) \/ FailReadback(t) \/ StatOwned(t) \/ StatNamed(t)
    \/ Restore(t) \/ MatchBytes(t) \/ Recheck(t) \/ WriteBack(t) \/ Truncate(t)
    \/ ConfirmRestore(t) \/ Release(t) \/ FailStage(t) \/ Crash(t)

Next == User \/ \E t \in Transaction : Work(t)

Spec == Init /\ [][Next]_vars

-----------------------------------------------------------------------------
(* The text the user wrote last is in the file, or in a backup while REA is *)
(* writing it back, whoever else edits the file and wherever a process      *)
(* dies.  It can be lost only when it was written after the last comparison *)
(* of the transaction that overwrote it: rename and the write of restore    *)
(* take no precondition.                                                    *)
Holds(c) == c \in Whole /\ c.text = userText

UserTextSurvives ==
    \/ late \/ userText = 0
    \/ Holds(ContentOf(file))
    \/ \E b \in Backup : Holds(backup[b])

(* While a transaction may have replaced the file, or died having done so,  *)
(* the exact original it replaced is in a backup, although transactions     *)
(* share the backups and copy the path rather than what they read.          *)
Published(t) == staged[t] # 0 /\ pc[t] \notin {"compare", "publish"}

OriginalsAreKept ==
    \A t \in Transaction :
        Published(t) /\ original[t] # Missing =>
            \E b \in Backup : backup[b] = original[t]
=============================================================================
