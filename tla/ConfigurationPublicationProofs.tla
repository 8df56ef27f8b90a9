-------------------- MODULE ConfigurationPublicationProofs --------------------
(***************************************************************************)
(* How configurations are published, for any number of processes, edits    *)
(* and crashes: the backups hold what a transaction replaced, and no text  *)
(* of the user is lost but one written after the last comparison.          *)
(***************************************************************************)
EXTENDS ConfigurationPublication, SequenceTheorems, TLAPS

Node == [content : Content, stamp : Nat]

(* The steps at which a transaction may still need a backup.                *)
Preserving == {"select_backup", "copy", "copying", "verify_backup"}

(* The steps at which it has a staged file of its own.                      *)
Staging == {"compare", "publish", "readback", "owned", "named", "restore", "bytes", "recheck",
            "write", "truncate", "confirm"}

IsKept(t) == \E b \in Backup : backup[b] = original[t]

(* A backup that is being copied is nobody else's, and what was verified    *)
(* before a file is staged is in a backup.                                  *)
BackupInvariant ==
    /\ \A t \in Transaction :
         /\ pc[t] \in Preserving => original[t] \in Whole
         /\ pc[t] = "copying" => backup[chosen[t]] = Torn
         /\ pc[t] = "start" => staged[t] = 0
         /\ pc[t] \in {"select", "stage"} \/ staged[t] # 0 =>
              original[t] = Missing \/ (original[t] \in Whole /\ IsKept(t))
    /\ \A s, t \in Transaction :
         s # t /\ pc[s] = "copying" /\ pc[t] = "copying" => chosen[s] # chosen[t]

(* The node of a stat still has the content c, unless its stamp has moved.  *)
Unmoved(stat, c) ==
    /\ stat[1] # 0 /\ stat[2] <= node[stat[1]].stamp
    /\ node[stat[1]].stamp = stat[2] => node[stat[1]].content = c

(* What a transaction knows of the file: what it selected, what it has      *)
(* staged, and, as long as nobody touched the file, what it overwrites.     *)
Knows(t) ==
    /\ pc[t] \in Staging => staged[t] # 0
    /\ pc[t] \in {"stage", "compare", "publish"} =>
         \/ input[t] = NoStat /\ original[t] = Missing
         \/ Unmoved(input[t], original[t])
    /\ pc[t] = "publish" /\ t \notin touched /\ input[t] # NoStat => ContentOf(file) = original[t]
    /\ pc[t] = "bytes" => before[t][1] = staged[t] /\ before[t][2] <= node[staged[t]].stamp
    /\ pc[t] = "recheck" => before[t][1] = staged[t] /\ Unmoved(before[t], Edited(t))
    /\ pc[t] \in {"write", "truncate"} => original[t] # Missing
    /\ pc[t] = "write" /\ t \notin touched =>
         file = staged[t] /\ node[staged[t]].content = Edited(t)
    /\ pc[t] = "truncate" /\ t \notin touched => node[staged[t]].content = Torn

PublicationInvariant ==
    /\ TypeOK
    /\ BackupInvariant
    /\ \A t \in Transaction : Knows(t)
    /\ file = 0 => userText = 0

-----------------------------------------------------------------------------
(* What the files are                                                       *)

LEMMA FileTypes ==
    ASSUME TypeOK
    PROVE  /\ Len(node) \in Nat
           /\ \A n \in 1..Len(node) : node[n].content \in Content /\ node[n].stamp \in Nat
           /\ ContentOf(file) \in Content \cup {Missing}
           /\ \A n \in 0..Len(node) : ContentOf(n) \in Content \cup {Missing}
           /\ \A n \in 0..Len(node) : Stat(n) \in (0..Len(node)) \X Nat
<1>1. Len(node) \in Nat /\ node \in Seq(Node)
  BY LenProperties DEF TypeOK, Node
<1>2. ASSUME NEW n \in 1..Len(node)
      PROVE  node[n].content \in Content /\ node[n].stamp \in Nat
  <2>1. node[n] \in Node
    BY <1>1, ElementOfSeq
  <2>2. QED
    BY <2>1 DEF Node
<1>3. QED
  BY <1>1, <1>2 DEF TypeOK, ContentOf, Stat, NoStat

(* What REA and the user write is whole.                                    *)
LEMMA WritesAreWhole ==
    ASSUME TypeOK
    PROVE  /\ \A t \in Transaction :
                original[t] \in Whole \cup {Missing} => Edited(t) \in Whole
           /\ edits < MaxEdits =>
                \A c \in Content \cup {Missing} : NewText(c) \in Whole
<1> USE PublicationAssumption
<1>1. ASSUME NEW t \in Transaction, original[t] \in Whole \cup {Missing}
      PROVE  Edited(t) \in Whole
  <2>1. (IF original[t] = Missing THEN 0 ELSE original[t].text) \in Text \cup {0}
    BY <1>1 DEF Whole
  <2>2. Registers(t) \in BOOLEAN
    BY DEF Registers
  <2>3. QED
    BY <2>1, <2>2 DEF Edited, Whole
<1>2. ASSUME edits < MaxEdits, NEW c \in Content \cup {Missing}
      PROVE  NewText(c) \in Whole
  <2>1. edits + 2 \in Text
    BY <1>2 DEF TypeOK, Text
  <2>2. (c \notin {Missing, Torn} /\ c.registered) \in BOOLEAN
    BY <1>2 DEF Content, Whole
  <2>3. QED
    BY <2>1, <2>2 DEF NewText, Whole
<1>3. QED
  BY <1>1, <1>2

(* Nodes are never removed, and their content changes with their stamp.     *)
FilesChange ==
    /\ node' \in Seq(Node) /\ Len(node) <= Len(node')
    /\ \A n \in 1..Len(node) :
         /\ node[n].stamp <= node'[n].stamp
         /\ node'[n].stamp = node[n].stamp => node'[n].content = node[n].content

LEMMA NodeAppended ==
    ASSUME TypeOK, NEW c \in Content, node' = Append1(c)
    PROVE  /\ FilesChange /\ Len(node') = Len(node) + 1 /\ node'[Len(node) + 1].content = c
           /\ \A n \in 1..Len(node) : node'[n] = node[n]
<1> DEFINE e == [content |-> c, stamp |-> 0]
<1>1. node \in Seq(Node) /\ e \in Node
  BY DEF TypeOK, Node
<1>2. node' = Append(node, e)
  BY DEF Append1
<1>3. /\ node' \in Seq(Node) /\ Len(node') = Len(node) + 1
      /\ \A n \in 1..Len(node) : node'[n] = node[n]
      /\ node'[Len(node) + 1] = e
  BY <1>1, <1>2, AppendProperties
<1>4. Len(node) <= Len(node') /\ node'[Len(node) + 1].content = c
  BY <1>3, FileTypes
<1>5. ASSUME NEW n \in 1..Len(node) PROVE node[n].stamp <= node'[n].stamp
  <2>1. node[n].stamp \in Nat /\ node'[n] = node[n]
    BY <1>3, FileTypes
  <2>2. QED
    BY <2>1
<1>6. QED
  BY <1>3, <1>4, <1>5 DEF FilesChange

LEMMA NodeChanged ==
    ASSUME TypeOK, NEW n \in 1..Len(node), NEW c \in Content,
           node' = [node EXCEPT ![n] = [content |-> c, stamp |-> node[n].stamp + 1]]
    PROVE  /\ FilesChange /\ Len(node') = Len(node) /\ node'[n].content = c
           /\ \A m \in 1..Len(node) : m # n => node'[m] = node[m]
<1> DEFINE e == [content |-> c, stamp |-> node[n].stamp + 1]
<1>1. node \in Seq(Node) /\ e \in Node /\ node[n].stamp \in Nat
  <2>1. node[n].stamp \in Nat
    BY FileTypes
  <2>2. node[n].stamp + 1 \in Nat
    BY <2>1
  <2>3. QED
    BY <2>1, <2>2 DEF TypeOK, Node
<1>2. /\ node' \in Seq(Node) /\ Len(node') = Len(node)
      /\ \A m \in 1..Len(node) : node'[m] = IF m = n THEN e ELSE node[m]
  BY <1>1, ExceptSeq
<1>3. node'[n].content = c /\ node'[n].stamp = node[n].stamp + 1
  BY <1>2
<1>4. ASSUME NEW m \in 1..Len(node)
      PROVE  /\ node[m].stamp <= node'[m].stamp
             /\ node'[m].stamp = node[m].stamp => node'[m].content = node[m].content
  <2>1. node[m].stamp \in Nat /\ (m # n => node'[m] = node[m])
    BY <1>2, FileTypes
  <2>2. QED
    BY <1>1, <1>3, <2>1
<1>5. QED
  BY <1>2, <1>3, <1>4, FileTypes DEF FilesChange

LEMMA UnchangedFiles ==
    ASSUME TypeOK, UNCHANGED node
    PROVE  FilesChange
<1>1. ASSUME NEW n \in 1..Len(node) PROVE node[n].stamp <= node'[n].stamp
  <2>1. node[n].stamp \in Nat
    BY FileTypes
  <2>2. QED
    BY <2>1
<1>2. Len(node) <= Len(node')
  BY FileTypes
<1>3. QED
  BY <1>1, <1>2 DEF FilesChange, TypeOK, Node

(* The steps of a transaction that leave the configuration and all nodes    *)
(* alone, and the ones that do not.                                         *)
Reading(t) ==
    \/ Read(t) \/ SelectBackup(t) \/ OpenCopy(t) \/ FinishCopy(t) \/ FailCopy(t)
    \/ VerifyBackup(t) \/ Select(t) \/ Compare(t) \/ Readback(t) \/ FailReadback(t)
    \/ StatOwned(t) \/ StatNamed(t) \/ Restore(t) \/ MatchBytes(t) \/ Recheck(t)
    \/ ConfirmRestore(t) \/ FailStage(t) \/ Crash(t)

Writing(t) == Stage(t) \/ Publish(t) \/ WriteBack(t) \/ Truncate(t) \/ Release(t)

LEMMA ReadingChangesNoFile ==
    ASSUME NEW t \in Transaction, Reading(t)
    PROVE  UNCHANGED <<file, node, userText>>
  BY DEF Reading, Read, SelectBackup, OpenCopy, FinishCopy, FailCopy, VerifyBackup, Select,
         Compare, Readback, FailReadback, StatOwned, StatNamed, Restore, MatchBytes, Recheck,
         ConfirmRestore, FailStage, Crash, shared

(* What a transaction writes, it stages or writes back.                     *)
LEMMA WritingChangesFiles ==
    ASSUME PublicationInvariant, NEW t \in Transaction, Writing(t)
    PROVE  /\ FilesChange /\ file' \in 0..Len(node')
           /\ UNCHANGED userText
<1> USE DEF PublicationInvariant
<1>1. UNCHANGED node => FilesChange
  BY UnchangedFiles
<1>2. original[t] = Missing \/ original[t] \in Whole \/ pc[t] \notin Staging \cup {"stage"}
  BY DEF BackupInvariant, Knows
<1>3. CASE Stage(t)
  <2>1. Edited(t) \in Content
    BY <1>2, <1>3, WritesAreWhole DEF Stage, Content
  <2>2. FilesChange /\ Len(node') = Len(node) + 1
    BY <1>3, <2>1, NodeAppended DEF Stage
  <2>3. QED
    BY <1>3, <2>2, FileTypes DEF Stage, TypeOK
<1>4. CASE Publish(t)
  BY <1>1, <1>4 DEF Publish, TypeOK
<1>5. CASE WriteBack(t) \/ Truncate(t)
  <2>1. staged[t] \in 1..Len(node) /\ original[t] \in Whole
    <3>1. Knows(t) /\ pc[t] \in {"write", "truncate"}
      BY <1>5 DEF WriteBack, Truncate
    <3>2. staged[t] # 0 /\ original[t] \in Whole
      BY <1>2, <3>1 DEF Knows, Staging
    <3>3. QED
      BY <3>2, FileTypes DEF TypeOK
  <2>2. PICK c \in Content :
          node' = [node EXCEPT ![staged[t]] = [content |-> c, stamp |-> node[staged[t]].stamp + 1]]
    BY <1>5, <2>1 DEF WriteBack, Truncate, Overwrite, Content
  <2>3. FilesChange /\ Len(node') = Len(node)
    BY <2>1, <2>2, NodeChanged
  <2>4. QED
    BY <1>5, <2>3 DEF WriteBack, Truncate, TypeOK
<1>6. CASE Release(t)
  <2>1. CASE UNCHANGED node
    BY <1>1, <1>6, <2>1 DEF Release, TypeOK
  <2>2. CASE node' = [node EXCEPT ![file].stamp = @ + 1] /\ original[t] = Missing /\ file = staged[t]
    <3>1. CASE file = 0
      BY <1>1, <1>6, <2>2, <3>1 DEF Release, TypeOK
    <3>2. CASE file # 0
      <4>1. file \in 1..Len(node)
        BY <3>2, FileTypes DEF TypeOK
      <4>2. node[file] \in Node /\ node[file].content \in Content
        BY <4>1, ElementOfSeq, FileTypes DEF TypeOK, Node
      <4>3. node' = [node EXCEPT ![file] =
                       [content |-> node[file].content, stamp |-> node[file].stamp + 1]]
        <5>1. node' = [node EXCEPT ![file] = [node[file] EXCEPT !.stamp = node[file].stamp + 1]]
          BY <2>2
        <5>2. [node[file] EXCEPT !.stamp = node[file].stamp + 1]
                = [content |-> node[file].content, stamp |-> node[file].stamp + 1]
          BY <4>2 DEF Node
        <5>3. QED
          BY <5>1, <5>2
      <4>4. FilesChange /\ Len(node') = Len(node)
        BY <4>1, <4>2, <4>3, NodeChanged
      <4>5. QED
        BY <1>6, <4>4 DEF Release, TypeOK
    <3>3. QED
      BY <3>1, <3>2
  <2>3. QED
    BY <1>6, <2>1, <2>2 DEF Release
<1>7. QED
  BY <1>3, <1>4, <1>5, <1>6 DEF Writing

LEMMA UserChangesFiles ==
    ASSUME TypeOK, User
    PROVE  /\ FilesChange /\ file' \in 0..Len(node')
           /\ userText' \in Text \cup {0} /\ (file' = 0 => userText' = 0)
           /\ userText' = 0 \/ Holds(ContentOf(file))'
<1>1. edits < MaxEdits => edits + 2 \in Text
  BY PublicationAssumption DEF TypeOK, Text
<1>2. CASE EditInPlace
  <2>1. /\ file \in 1..Len(node) /\ edits < MaxEdits /\ userText' = edits + 2 /\ file' = file
        /\ node' = [node EXCEPT ![file] =
                       [content |-> NewText(node[file].content), stamp |-> node[file].stamp + 1]]
    BY <1>2, FileTypes DEF EditInPlace, Act, TypeOK
  <2>2. NewText(node[file].content) \in Whole
    BY <2>1, FileTypes, WritesAreWhole
  <2>3. FilesChange /\ Len(node') = Len(node) /\ node'[file].content = NewText(node[file].content)
    BY <2>1, <2>2, NodeChanged DEF Content
  <2>4. QED
    BY <1>1, <2>1, <2>2, <2>3 DEF Holds, ContentOf, NewText
<1>3. CASE EditByReplacing
  <2>1. /\ edits < MaxEdits /\ userText' = edits + 2 /\ file' = Len(node) + 1
        /\ node' = Append1(NewText(ContentOf(file)))
    BY <1>3 DEF EditByReplacing, Act
  <2>2. NewText(ContentOf(file)) \in Whole
    BY <2>1, FileTypes, WritesAreWhole
  <2>3. /\ FilesChange /\ Len(node') = Len(node) + 1
        /\ node'[Len(node) + 1].content = NewText(ContentOf(file))
    BY <2>1, <2>2, NodeAppended DEF Content
  <2>4. file' # 0 /\ file' \in 0..Len(node') /\ node'[file'].content = NewText(ContentOf(file))
    BY <2>1, <2>3, FileTypes
  <2>5. QED
    BY <1>1, <2>1, <2>2, <2>3, <2>4 DEF Holds, ContentOf, NewText
<1>4. CASE Remove
  <2>1. FilesChange
    BY <1>4, UnchangedFiles DEF Remove
  <2>2. QED
    BY <1>4, <2>1, FileTypes DEF Remove
<1>5. QED
  BY <1>2, <1>3, <1>4 DEF User

(* Stats that were in range stay so when nodes are added.                   *)
LEMMA StatsStayInRange ==
    ASSUME TypeOK, FilesChange
    PROVE  /\ [Transaction -> 0..Len(node)] \subseteq [Transaction -> 0..Len(node')]
           /\ [Transaction -> (0..Len(node)) \X Nat]
                \subseteq [Transaction -> (0..Len(node')) \X Nat]
<1>1. Len(node') \in Nat /\ Len(node) \in Nat /\ Len(node) <= Len(node')
  BY FileTypes, LenProperties DEF FilesChange
<1>2. 0..Len(node) \subseteq 0..Len(node')
  BY <1>1
<1>3. QED
  BY <1>2

LEMMA ReadingKeepsTypes ==
    ASSUME TypeOK, BackupInvariant, NEW t \in Transaction, Reading(t)
    PROVE  TypeOK'
<1> USE DEF TypeOK, Continue, Report, Goto, Steps, shared, learnt
<1>1. CASE Read(t)
  BY <1>1, FileTypes DEF Read
<1>2. CASE SelectBackup(t)
  <2>1. Selected(t) \in Backup
    BY <1>2 DEF SelectBackup, BackupInvariant, Preserving, Selected, Backup
  <2>2. QED
    BY <1>2, <2>1 DEF SelectBackup
<1>3. CASE OpenCopy(t)
  BY ZenonT(40), <1>3, FileTypes DEF OpenCopy, Content
<1>4. CASE FinishCopy(t)
  <2>1. ContentOf(before[t][1]) \in Content \cup {Missing}
    <3>1. before[t][1] \in 0..Len(node)
      OBVIOUS
    <3>2. QED
      BY <3>1, FileTypes
  <2>2. QED
    BY <1>4, <2>1 DEF FinishCopy
<1>5. CASE FailCopy(t)
  BY <1>5, PublicationAssumption DEF FailCopy
<1>6. CASE VerifyBackup(t) \/ Readback(t) \/ StatNamed(t) \/ MatchBytes(t) \/ ConfirmRestore(t)
  BY ZenonT(40), <1>6 DEF VerifyBackup, Readback, StatNamed, MatchBytes, ConfirmRestore, NotCurrent
<1>7. CASE Select(t)
  BY <1>7, FileTypes DEF Select
<1>8. CASE Compare(t) \/ Recheck(t)
  BY <1>8 DEF Compare, Recheck
<1>9. CASE FailReadback(t) \/ FailStage(t) \/ Crash(t)
  <2>1. /\ faults' = faults + 1 /\ faults < MaxFaults
        /\ touched' \subseteq touched
        /\ \E where \in Steps : pc' = [pc EXCEPT ![t] = where]
        /\ UNCHANGED <<file, node, userText, late, backup, kind, learnt, edits>>
    BY <1>9 DEF FailReadback, FailStage, Crash
  <2>2. faults' \in 0..MaxFaults
    BY <2>1, PublicationAssumption
  <2>3. QED
    BY <2>1, <2>2
<1>10. CASE StatOwned(t) \/ Restore(t)
  <2>1. Stat(staged[t]) \in (0..Len(node)) \X Nat
    <3>1. staged[t] \in 0..Len(node)
      OBVIOUS
    <3>2. QED
      BY <3>1, FileTypes
  <2>2. /\ before' = [before EXCEPT ![t] = Stat(staged[t])]
        /\ pc' \in [Transaction -> Steps]
        /\ UNCHANGED <<shared, backup, kind, original, input, chosen, staged, edits, faults>>
    BY <1>10 DEF StatOwned, Restore
  <2>3. QED
    BY <2>1, <2>2
<1>11. QED
  BY <1>1, <1>2, <1>3, <1>4, <1>5, <1>6, <1>7, <1>8, <1>9, <1>10 DEF Reading

LEMMA WritingKeepsTypes ==
    ASSUME PublicationInvariant, NEW t \in Transaction, Writing(t)
    PROVE  TypeOK'
<1> USE DEF TypeOK, Continue, Report, Goto, Steps, learnt
<1>1. TypeOK
  BY DEF PublicationInvariant
<1>2. FilesChange /\ file' \in 0..Len(node')
  BY WritingChangesFiles
<1>3. /\ pc' \in [Transaction -> Steps] /\ touched' \subseteq Transaction /\ late' \in BOOLEAN
      /\ UNCHANGED <<backup, kind, original, input, chosen, before, userText, edits, faults>>
  BY <1>1 DEF Writing, Stage, Publish, WriteBack, Truncate, Release, Overwrite, Touch
<1>4. staged' \in [Transaction -> 0..Len(node')]
  <2>1. CASE Stage(t)
    <3>1. Edited(t) \in Content
      BY <2>1, <1>1, WritesAreWhole
         DEF Stage, Content, PublicationInvariant, BackupInvariant
    <3>2. Len(node') = Len(node) + 1
      BY <1>1, <2>1, <3>1, NodeAppended DEF Stage
    <3>3. Len(node) + 1 \in 0..Len(node')
      BY <1>1, <3>2, FileTypes
    <3>4. staged \in [Transaction -> 0..Len(node')]
      BY <1>1, <1>2, StatsStayInRange
    <3>5. QED
      BY <2>1, <3>3, <3>4 DEF Stage
  <2>2. CASE UNCHANGED staged
    BY <1>1, <1>2, <2>2, StatsStayInRange
  <2>3. QED
    BY <2>1, <2>2 DEF Writing, Publish, WriteBack, Truncate, Release
<1>5. QED
  BY <1>1, <1>2, <1>3, <1>4, StatsStayInRange DEF FilesChange, Node

LEMMA StepKeepsTypes ==
    ASSUME PublicationInvariant, [Next]_vars
    PROVE  TypeOK'
<1>1. ASSUME NEW t \in Transaction, Work(t)
      PROVE  TypeOK'
  BY <1>1, ReadingKeepsTypes, WritingKeepsTypes
     DEF Work, Reading, Writing, PublicationInvariant
<1>2. CASE User
  <2>1. /\ FilesChange /\ file' \in 0..Len(node') /\ userText' \in Text \cup {0}
    BY <1>2, UserChangesFiles DEF PublicationInvariant
  <2>2. /\ edits' \in 0..MaxEdits /\ touched' \subseteq Transaction
        /\ UNCHANGED <<backup, kind, pc, learnt, outcome, late, faults>>
    BY <1>2, PublicationAssumption
       DEF User, EditInPlace, EditByReplacing, Remove, Act, Touch, TypeOK, PublicationInvariant
  <2>3. QED
    BY <2>1, <2>2, StatsStayInRange DEF TypeOK, PublicationInvariant, learnt, FilesChange, Node
<1>3. CASE UNCHANGED vars
  BY <1>3 DEF vars, TypeOK, PublicationInvariant
<1>4. QED
  BY <1>1, <1>2, <1>3 DEF Next

-----------------------------------------------------------------------------
(* Backups                                                                  *)

(* A step of one transaction leaves what the others know alone.             *)
Frame(t) ==
    /\ pc'[t] = pc[t] /\ kind'[t] = kind[t] /\ original'[t] = original[t]
    /\ input'[t] = input[t] /\ chosen'[t] = chosen[t] /\ staged'[t] = staged[t]
    /\ before'[t] = before[t]

LEMMA WorkLeavesOthers ==
    ASSUME TypeOK, NEW s \in Transaction, Work(s), NEW t \in Transaction, t # s
    PROVE  Frame(t)
<1> USE DEF Frame, TypeOK, Continue, Report, Goto, shared, learnt
<1>1. CASE Reading(s)
  BY ZenonT(40), <1>1
     DEF Reading, Read, SelectBackup, OpenCopy, FinishCopy, FailCopy, VerifyBackup, Select,
              Compare, Readback, FailReadback, StatOwned, StatNamed, Restore, MatchBytes,
              Recheck, ConfirmRestore, FailStage, Crash, NotCurrent
<1>2. CASE Writing(s)
  BY <1>2 DEF Writing, Stage, Publish, WriteBack, Truncate, Release
<1>3. QED
  BY <1>1, <1>2 DEF Work, Reading, Writing

(* Where a transaction goes, as far as backups are concerned.               *)
BackupSteps(t) == Read(t) \/ SelectBackup(t) \/ OpenCopy(t) \/ FinishCopy(t) \/ FailCopy(t)
                  \/ VerifyBackup(t)

LEMMA OtherWorkKeepsBackups ==
    ASSUME TypeOK, NEW t \in Transaction, Work(t), ~BackupSteps(t)
    PROVE  /\ UNCHANGED <<backup, original, chosen>>
           /\ pc'[t] \notin Preserving \cup {"start", "select"}
           /\ pc'[t] = "stage" => pc[t] = "select"
           /\ staged'[t] = staged[t] \/ pc[t] = "stage"
  BY DEF TypeOK, Continue, Report, Goto, shared, learnt, BackupSteps, Preserving, Work, Select,
         Compare, Readback, FailReadback, StatOwned, StatNamed, Restore, MatchBytes, Recheck,
         ConfirmRestore, FailStage, Crash, NotCurrent, Stage, Publish, WriteBack, Truncate,
         Release

(* A backup that is whole is never written to.                              *)
WholeStays == \A b \in Backup : backup[b] \in Whole => backup'[b] = backup[b]

LEMMA WholeBackupsStay ==
    ASSUME TypeOK, BackupInvariant, NEW t \in Transaction, Work(t)
    PROVE  WholeStays
<1>1. WholeStays
  <2>1. CASE BackupSteps(t)
    BY <2>1, PublicationAssumption
       DEF BackupSteps, Read, SelectBackup, OpenCopy, FinishCopy, FailCopy, VerifyBackup,
           TypeOK, BackupInvariant, Content, shared, learnt, WholeStays
  <2>2. CASE ~BackupSteps(t)
    BY <2>2, OtherWorkKeepsBackups DEF WholeStays
  <2>3. QED
    BY <2>1, <2>2
<1>2. QED
  BY <1>1

(* The path that copies a backup: it opens one that is missing, which then  *)
(* is its own until it is finished or removed.                              *)
LEMMA CopiesKeepBackups ==
    ASSUME TypeOK, BackupInvariant, NEW t \in Transaction, BackupSteps(t)
    PROVE  /\ pc'[t] \in Preserving => original'[t] \in Whole
           /\ pc'[t] = "copying" => backup'[chosen'[t]] = Torn /\ backup[chosen[t]] = Missing
                                     /\ chosen'[t] = chosen[t]
           /\ pc'[t] # "start"
           /\ staged'[t] = staged[t]
           /\ pc'[t] \in {"select", "stage"} \/ staged[t] # 0 =>
                original'[t] = Missing \/ (original'[t] \in Whole /\ IsKept(t)')
           /\ \A b \in Backup :
                backup'[b] = backup[b] \/ (b = chosen[t] /\ backup[b] \in {Missing, Torn}
                                             /\ (backup[b] = Torn => pc[t] = "copying"))
<1> USE PublicationAssumption DEF Preserving
<1>1. WholeStays
  BY WholeBackupsStay DEF Work, BackupSteps
<1>2. CASE Read(t)
  <2>1. /\ pc[t] = "start" /\ UNCHANGED <<backup, chosen, staged>>
        /\ \/ pc'[t] = "done"
           \/ pc'[t] = "select" /\ original'[t] = Missing
           \/ pc'[t] = "select_backup" /\ original'[t] \in Whole
    BY <1>2, FileTypes DEF Read, Content, TypeOK, Continue, Report, Goto, shared
  <2>2. QED
    BY <2>1 DEF BackupInvariant
<1>3. CASE ~Read(t)
  <2>1. UNCHANGED <<original, staged>> /\ pc[t] \in Preserving
    BY <1>3 DEF BackupSteps, SelectBackup, OpenCopy, FinishCopy, FailCopy, VerifyBackup, learnt,
                shared
  <2>2. original[t] \in Whole
    BY <2>1 DEF BackupInvariant
  <2>3. staged[t] # 0 => IsKept(t)'
    BY <1>1, <2>1, <2>2 DEF BackupInvariant, IsKept, WholeStays, Content
  <2>4. CASE SelectBackup(t)
    <3>1. pc'[t] \in {"done", "copy", "verify_backup"} /\ UNCHANGED backup
      BY <2>4 DEF SelectBackup, TypeOK, Continue, Report, Goto
    <3>2. QED
      BY <2>1, <2>2, <2>3, <3>1
  <2>5. CASE OpenCopy(t)
    <3>1. /\ UNCHANGED chosen
          /\ \/ pc'[t] \in {"verify_backup", "done"} /\ UNCHANGED backup
             \/ /\ pc'[t] = "copying" /\ backup[chosen[t]] = Missing
                /\ backup' = [backup EXCEPT ![chosen[t]] = Torn]
      BY <2>5 DEF OpenCopy, TypeOK, Continue, Report, Goto
    <3>2. QED
      BY <2>1, <2>2, <2>3, <3>1 DEF TypeOK
  <2>6. CASE FinishCopy(t) \/ FailCopy(t)
    <3>1. /\ UNCHANGED chosen /\ pc[t] = "copying" /\ pc'[t] \in {"verify_backup", "done"}
          /\ \E c : backup' = [backup EXCEPT ![chosen[t]] = c]
      BY <2>6 DEF FinishCopy, FailCopy, TypeOK, Continue, Report, Goto, learnt
    <3>2. backup[chosen[t]] = Torn
      BY <3>1 DEF BackupInvariant
    <3>3. QED
      BY <2>1, <2>2, <2>3, <3>1, <3>2 DEF TypeOK
  <2>7. CASE VerifyBackup(t)
    <3>1. /\ UNCHANGED <<backup, chosen>> /\ pc'[t] \in {"select", "done"}
          /\ pc'[t] = "select" => backup[chosen[t]] = original[t]
      BY <2>7 DEF VerifyBackup, BackupVerified, TypeOK, Continue, Report, Goto, learnt
    <3>2. pc'[t] = "select" => IsKept(t)'
      BY <2>1, <3>1 DEF IsKept, TypeOK
    <3>3. QED
      BY <2>1, <2>2, <2>3, <3>1, <3>2
  <2>8. QED
    BY <1>3, <2>4, <2>5, <2>6, <2>7 DEF BackupSteps
<1>4. QED
  BY <1>2, <1>3

LEMMA WorkKeepsBackups ==
    ASSUME TypeOK, BackupInvariant, NEW s \in Transaction, Work(s)
    PROVE  BackupInvariant'
<1>1. WholeStays
  BY WholeBackupsStay
<1>2. \A t \in Transaction : t # s => Frame(t)
  BY WorkLeavesOthers
<1>3. CASE BackupSteps(s)
  <2>1. /\ pc'[s] \in Preserving => original'[s] \in Whole
        /\ pc'[s] = "copying" => backup'[chosen'[s]] = Torn /\ backup[chosen[s]] = Missing
                                  /\ chosen'[s] = chosen[s]
        /\ pc'[s] # "start" /\ staged'[s] = staged[s]
        /\ pc'[s] \in {"select", "stage"} \/ staged[s] # 0 =>
             original'[s] = Missing \/ (original'[s] \in Whole /\ IsKept(s)')
        /\ \A b \in Backup :
             backup'[b] = backup[b] \/ (b = chosen[s] /\ backup[b] \in {Missing, Torn}
                                          /\ (backup[b] = Torn => pc[s] = "copying"))
    BY <1>3, CopiesKeepBackups
  <2>2. ASSUME NEW t \in Transaction, t # s, pc'[t] = "copying"
        PROVE  backup'[chosen'[t]] = Torn /\ (pc'[s] = "copying" => chosen'[s] # chosen'[t])
    <3>1. pc[t] = "copying" /\ chosen'[t] = chosen[t] /\ chosen[t] \in Backup
      BY <1>2, <2>2 DEF Frame, TypeOK
    <3>2. backup[chosen[t]] = Torn /\ (pc[s] = "copying" => chosen[s] # chosen[t])
      BY <3>1, <2>2 DEF BackupInvariant
    <3>3. Torn # Missing
      BY PublicationAssumption DEF Content
    <3>4. QED
      BY <2>1, <3>1, <3>2, <3>3
  <2>3. ASSUME NEW t \in Transaction
        PROVE  /\ pc'[t] \in Preserving => original'[t] \in Whole
               /\ pc'[t] = "copying" => backup'[chosen'[t]] = Torn
               /\ pc'[t] = "start" => staged'[t] = 0
               /\ pc'[t] \in {"select", "stage"} \/ staged'[t] # 0 =>
                    original'[t] = Missing \/ (original'[t] \in Whole /\ IsKept(t)')
    <3>1. CASE t = s
      BY <2>1, <3>1
    <3>2. CASE t # s
      BY <1>1, <1>2, <2>2, <3>2 DEF BackupInvariant, Frame, IsKept, WholeStays
    <3>3. QED
      BY <3>1, <3>2
  <2>4. ASSUME NEW u \in Transaction, NEW t \in Transaction, u # t,
               pc'[u] = "copying", pc'[t] = "copying"
        PROVE  chosen'[u] # chosen'[t]
    BY <1>2, <2>2, <2>4 DEF BackupInvariant, Frame
  <2>5. QED
    BY <2>3, <2>4 DEF BackupInvariant
<1>4. CASE ~BackupSteps(s)
  <2>1. /\ UNCHANGED <<backup, original, chosen>>
        /\ pc'[s] \notin Preserving \cup {"start", "select"}
        /\ pc'[s] = "stage" => pc[s] = "select"
        /\ staged'[s] = staged[s] \/ pc[s] = "stage"
    BY <1>4, OtherWorkKeepsBackups
  <2>2. QED
    BY <1>1, <1>2, <2>1 DEF BackupInvariant, Frame, IsKept, Preserving, WholeStays
<1>5. QED
  BY <1>3, <1>4

-----------------------------------------------------------------------------
(* What a transaction knows                                                 *)

(* What staging and releasing leave of the files, and reading leaves all.   *)
ContentsStay ==
    /\ file' = file
    /\ \A n \in 1..Len(node) : node'[n].content = node[n].content

LEMMA StagingKeepsContents ==
    ASSUME PublicationInvariant, NEW t \in Transaction, Stage(t) \/ Release(t) \/ Reading(t)
    PROVE  ContentsStay
<1> USE DEF PublicationInvariant
<1>1. CASE Reading(t)
  BY <1>1, ReadingChangesNoFile DEF ContentsStay
<1>2. CASE Stage(t)
  <2>1. Edited(t) \in Content
    BY <1>2, WritesAreWhole DEF Stage, Content, BackupInvariant
  <2>2. QED
    BY <1>2, <2>1, NodeAppended DEF Stage, ContentsStay
<1>3. CASE Release(t)
  <2>1. node' = node \/ node' = [node EXCEPT ![file].stamp = node[file].stamp + 1]
    BY <1>3 DEF Release
  <2>2. ASSUME NEW n \in 1..Len(node)
        PROVE  node'[n].content = node[n].content
    <3>1. node[n] \in Node /\ n \in DOMAIN node
      BY ElementOfSeq, LenProperties DEF TypeOK, Node
    <3>2. QED
      BY <2>1, <3>1 DEF Node
  <2>3. QED
    BY <1>3, <2>2 DEF Release, ContentsStay
<1>4. QED
  BY <1>1, <1>2, <1>3

(* Whoever changes the file touches everyone who has compared it.           *)
Noticed(t) ==
    /\ t \in touched => t \in touched'
    /\ pc[t] \in {"publish", "write", "truncate"} /\ t \notin touched' => ContentsStay

LEMMA OtherWorkIsNoticed ==
    ASSUME PublicationInvariant, NEW s \in Transaction, Work(s), NEW t \in Transaction, t # s
    PROVE  Noticed(t)
<1>1. CASE Stage(s) \/ Release(s) \/ Reading(s)
  <2>1. t \in touched => t \in touched'
    BY <1>1 DEF Stage, Release, Reading, Read, SelectBackup, OpenCopy, FinishCopy, FailCopy,
                VerifyBackup, Select, Compare, Readback, FailReadback, StatOwned, StatNamed,
                Restore, MatchBytes, Recheck, ConfirmRestore, FailStage, Crash, shared
  <2>2. QED
    BY <1>1, <2>1, StagingKeepsContents DEF Noticed
<1>2. CASE Publish(s)
  BY <1>2 DEF Publish, Touch, Noticed, ContentsStay
<1>3. CASE WriteBack(s) \/ Truncate(s)
  BY <1>3 DEF WriteBack, Truncate, Overwrite, Touch, Noticed
<1>4. QED
  BY <1>1, <1>2, <1>3 DEF Work, Reading

LEMMA UserIsNoticed ==
    ASSUME User, NEW t \in Transaction
    PROVE  Noticed(t) /\ Frame(t)
<1>1. t # Missing
  BY PublicationAssumption
<1>2. QED
  BY <1>1 DEF User, EditInPlace, EditByReplacing, Remove, Act, Touch, Noticed, Frame, learnt

(* What a transaction knows outlives the steps of the others.               *)
LEMMA OthersKnow ==
    ASSUME PublicationInvariant, NEW t \in Transaction, Knows(t), FilesChange, Frame(t),
           Noticed(t)
    PROVE  Knows(t)'
<1>1. TypeOK
  BY DEF PublicationInvariant
<1>2. /\ input[t] \in (0..Len(node)) \X Nat /\ before[t] \in (0..Len(node)) \X Nat
      /\ staged[t] \in 0..Len(node) /\ file \in 0..Len(node) /\ Len(node) \in Nat
  BY <1>1, FileTypes DEF TypeOK
<1>3. /\ Edited(t)' = Edited(t)
      /\ staged'[t] = staged[t] /\ before'[t] = before[t] /\ input'[t] = input[t]
      /\ original'[t] = original[t] /\ pc'[t] = pc[t]
  BY DEF Edited, Registers, Frame
<1>4. \A n \in 1..Len(node) :
        /\ node[n].stamp \in Nat /\ node'[n].stamp \in Nat
        /\ node[n].stamp <= node'[n].stamp
        /\ node'[n].stamp = node[n].stamp => node'[n].content = node[n].content
  <2>1. ASSUME NEW n \in 1..Len(node)
        PROVE  node'[n].stamp \in Nat
    <3>1. n \in 1..Len(node') /\ node' \in Seq(Node)
      <4>1. Len(node') \in Nat
        BY LenProperties DEF FilesChange
      <4>2. QED
        BY <1>2, <4>1 DEF FilesChange
    <3>2. node'[n] \in Node
      BY <3>1, ElementOfSeq
    <3>3. QED
      BY <3>2 DEF Node
  <2>2. QED
    BY <1>1, <2>1, FileTypes DEF FilesChange
<1>5. Unmoved(input[t], original[t]) => Unmoved(input[t], original[t])'
  BY SMTT(20), <1>2, <1>3, <1>4 DEF Unmoved
<1>6. Unmoved(before[t], Edited(t)) => Unmoved(before[t], Edited(t))'
  BY <1>2, <1>3, <1>4 DEF Unmoved
<1>7. pc[t] = "publish" /\ t \notin touched' => ContentOf(file)' = ContentOf(file)
  BY <1>2 DEF Noticed, ContentsStay, ContentOf
<1>8. pc[t] = "bytes" => before[t][2] <= node'[staged[t]].stamp
  <2>1. pc[t] = "bytes" => staged[t] \in 1..Len(node)
    BY <1>2 DEF Knows, Staging
  <2>2. QED
    BY <1>2, <1>4, <2>1 DEF Knows
<1>9. /\ pc[t] = "write" /\ t \notin touched' =>
           file' = staged[t] /\ node'[staged[t]].content = Edited(t)
      /\ pc[t] = "truncate" /\ t \notin touched' => node'[staged[t]].content = Torn
  <2>1. pc[t] \in {"write", "truncate"} => staged[t] \in 1..Len(node)
    BY <1>2 DEF Knows, Staging
  <2>2. QED
    BY <2>1 DEF Knows, Noticed, ContentsStay
<1>10. QED
  BY <1>3, <1>5, <1>6, <1>7, <1>8, <1>9 DEF Knows, Noticed

(* What a transaction learns from its own step.                             *)
LEMMA ReadingTeaches ==
    ASSUME PublicationInvariant, NEW t \in Transaction, Reading(t)
    PROVE  Knows(t)'
<1> USE DEF Continue, Report, Goto, Staging
<1>1. TypeOK /\ Knows(t)
  BY DEF PublicationInvariant
<1>2. UNCHANGED <<file, node, kind>>
  BY ReadingChangesNoFile
     DEF Reading, Read, SelectBackup, OpenCopy, FinishCopy, FailCopy, VerifyBackup, Select,
         Compare, Readback, FailReadback, StatOwned, StatNamed, Restore, MatchBytes, Recheck,
         ConfirmRestore, FailStage, Crash, NotCurrent
<1>3. \A n \in 1..Len(node) : node[n].stamp \in Nat
  BY <1>1, FileTypes
<1>4. file \in 0..Len(node) /\ staged[t] \in 0..Len(node) /\ Len(node) \in Nat
  BY <1>1, FileTypes DEF TypeOK
<1>5. Edited(t)' = IF UNCHANGED original THEN Edited(t) ELSE Edited(t)'
  BY <1>2 DEF Edited, Registers
<1>6. CASE BackupSteps(t)
  <2>1. pc'[t] \in Preserving \cup {"done", "select"}
    BY <1>1, <1>6 DEF BackupSteps, Read, SelectBackup, OpenCopy, FinishCopy, FailCopy,
                      VerifyBackup, TypeOK, Preserving
  <2>2. QED
    BY <2>1 DEF Knows, Preserving
<1>7. CASE Select(t)
  <2>1. /\ UNCHANGED <<original, staged, before, touched>> /\ input'[t] = Stat(file)
        /\ \/ pc'[t] = "done"
           \/ pc'[t] = "stage" /\ ContentOf(file) = original[t]
    BY <1>1, <1>7 DEF Select, TypeOK, shared
  <2>2. CASE pc'[t] = "done"
    BY <2>2 DEF Knows
  <2>3. CASE pc'[t] = "stage" /\ file = 0
    BY <1>2, <2>1, <2>3 DEF Knows, Stat, ContentOf, NoStat
  <2>4. CASE pc'[t] = "stage" /\ file # 0
    <3>1. Unmoved(input[t], original[t])'
      BY <1>2, <1>3, <1>4, <2>1, <2>4 DEF Unmoved, Stat, ContentOf
    <3>2. QED
      BY <2>4, <3>1 DEF Knows
  <2>5. QED
    BY <2>1, <2>2, <2>3, <2>4
<1>8. CASE Compare(t)
  <2>1. /\ pc[t] = "compare" /\ UNCHANGED <<original, staged, before, input>>
        /\ pc'[t] = "release" \/ (pc'[t] = "publish" /\ Stat(file) = input[t])
    BY <1>1, <1>8 DEF Compare, TypeOK, learnt, SameState
  <2>2. CASE pc'[t] = "release"
    BY <2>2 DEF Knows
  <2>3. CASE pc'[t] = "publish"
    <3>1. /\ staged[t] # 0
          /\ \/ input[t] = NoStat /\ original[t] = Missing
             \/ Unmoved(input[t], original[t])
      BY <1>1, <2>1 DEF Knows
    <3>2. Unmoved(input[t], original[t]) => Unmoved(input[t], original[t])'
      BY <1>2, <2>1 DEF Unmoved
    <3>3. input[t] # NoStat => ContentOf(file) = original[t]
      <4>1. input[t] # NoStat => file # 0 /\ input[t] = <<file, node[file].stamp>>
        BY <2>1, <2>3 DEF Stat
      <4>2. QED
        BY <3>1, <4>1 DEF Unmoved, ContentOf
    <3>4. ContentOf(file)' = ContentOf(file)
      BY <1>2 DEF ContentOf
    <3>5. QED
      BY <2>1, <2>3, <3>1, <3>2, <3>3, <3>4 DEF Knows
  <2>4. QED
    BY <2>1, <2>2, <2>3
<1>9. CASE Restore(t)
  <2>1. /\ pc[t] = "restore" /\ UNCHANGED staged /\ before'[t] = Stat(staged[t])
        /\ pc'[t] \in {"bytes", "release"}
    BY <1>1, <1>9 DEF Restore, TypeOK
  <2>2. staged[t] # 0
    BY <1>1, <2>1 DEF Knows
  <2>3. before'[t] = <<staged[t], node[staged[t]].stamp>>
    BY <2>1, <2>2 DEF Stat
  <2>4. before'[t][1] = staged'[t] /\ before'[t][2] <= node'[staged'[t]].stamp
    BY <1>2, <1>3, <1>4, <2>1, <2>2, <2>3
  <2>5. QED
    BY <2>1, <2>2, <2>4 DEF Knows
<1>10. CASE MatchBytes(t)
  <2>1. /\ pc[t] = "bytes" /\ UNCHANGED <<original, staged, before>>
        /\ pc'[t] = "release" \/ (pc'[t] = "recheck" /\ OwnBytes(t))
    BY <1>1, <1>10 DEF MatchBytes, TypeOK, learnt
  <2>2. staged[t] # 0 /\ before[t][1] = staged[t] /\ before[t][2] <= node[staged[t]].stamp
    BY <1>1, <2>1 DEF Knows
  <2>3. Edited(t)' = Edited(t)
    BY <1>5, <2>1
  <2>4. OwnBytes(t) => Unmoved(before[t], Edited(t))'
    BY <1>2, <2>1, <2>2, <2>3 DEF OwnBytes, ContentOf, Unmoved
  <2>5. QED
    BY <2>1, <2>2, <2>4 DEF Knows
<1>11. CASE Recheck(t)
  <2>1. /\ pc[t] = "recheck" /\ UNCHANGED <<original, staged, before>>
        /\ \/ pc'[t] = "release"
           \/ pc'[t] = "write" /\ Stat(file) = before[t] /\ original[t] # Missing
    BY <1>1, <1>11 DEF Recheck, TypeOK, learnt, SameState
  <2>2. staged[t] # 0 /\ before[t][1] = staged[t] /\ Unmoved(before[t], Edited(t))
    BY <1>1, <2>1 DEF Knows
  <2>3. Edited(t)' = Edited(t)
    BY <1>5, <2>1
  <2>4. pc'[t] = "write" => file = staged[t] /\ node[staged[t]].content = Edited(t)
    <3>1. ASSUME pc'[t] = "write" PROVE before[t] = <<file, node[file].stamp>>
      BY <2>1, <2>2, <3>1 DEF Stat, NoStat
    <3>2. QED
      BY <2>2, <3>1 DEF Unmoved
  <2>5. QED
    BY <1>2, <2>1, <2>2, <2>3, <2>4 DEF Knows
<1>12. CASE \/ Readback(t) \/ FailReadback(t) \/ StatOwned(t) \/ StatNamed(t)
            \/ ConfirmRestore(t) \/ FailStage(t) \/ Crash(t)
  <2>1. /\ UNCHANGED staged
        /\ pc'[t] \in {"release", "dead"}
             \/ (pc[t] \in Staging /\ pc'[t] \in {"owned", "named", "restore"})
    BY <1>1, <1>12 DEF Readback, FailReadback, StatOwned, StatNamed, ConfirmRestore, FailStage,
                       Crash, NotCurrent, TypeOK, learnt
  <2>2. QED
    BY <1>1, <2>1 DEF Knows
<1>13. QED
  BY <1>6, <1>7, <1>8, <1>9, <1>10, <1>11, <1>12 DEF Reading, BackupSteps

LEMMA WritingTeaches ==
    ASSUME PublicationInvariant, NEW t \in Transaction, Writing(t)
    PROVE  Knows(t)'
<1> USE DEF Continue, Report, Goto, Staging
<1>1. TypeOK /\ Knows(t)
  BY DEF PublicationInvariant
<1>2. CASE Stage(t)
  <2>1. /\ pc[t] = "stage" /\ pc'[t] = "compare" /\ staged'[t] = Len(node) + 1
        /\ UNCHANGED <<original, input>>
    BY <1>1, <1>2 DEF Stage, TypeOK
  <2>2. FilesChange /\ Len(node) \in Nat
    BY <1>1, <1>2, WritingChangesFiles, FileTypes
  <2>3. input[t] \in (0..Len(node)) \X Nat
    BY <1>1 DEF TypeOK
  <2>4. Edited(t) \in Content
    BY <1>1, <1>2, <2>1, WritesAreWhole DEF Content, PublicationInvariant, BackupInvariant
  <2>5. \A n \in 1..Len(node) : node'[n] = node[n]
    BY <1>1, <1>2, <2>4, NodeAppended DEF Stage
  <2>6. Unmoved(input[t], original[t]) => Unmoved(input[t], original[t])'
    BY <2>1, <2>2, <2>3, <2>5 DEF Unmoved
  <2>7. QED
    BY <1>1, <2>1, <2>2, <2>6 DEF Knows
<1>3. CASE Publish(t)
  BY <1>1, <1>3 DEF Publish, TypeOK, Knows, learnt
<1>4. CASE WriteBack(t)
  <2>1. /\ pc[t] = "write" /\ pc'[t] = "truncate" /\ UNCHANGED <<original, staged>>
        /\ node' = [node EXCEPT ![staged[t]] =
                      [content |-> Torn, stamp |-> node[staged[t]].stamp + 1]]
    BY <1>1, <1>4 DEF WriteBack, Overwrite, TypeOK, learnt
  <2>2. staged[t] # 0 /\ original[t] # Missing
    BY <1>1, <2>1 DEF Knows
  <2>3. staged[t] \in 1..Len(node) /\ Torn \in Content
    BY <1>1, <2>2, FileTypes DEF TypeOK, Content
  <2>4. node'[staged[t]].content = Torn
    BY <1>1, <2>1, <2>3, NodeChanged
  <2>5. QED
    BY <2>1, <2>2, <2>4 DEF Knows
<1>5. CASE Truncate(t) \/ Release(t)
  BY <1>1, <1>5 DEF Truncate, Release, TypeOK, Knows, learnt
<1>6. QED
  BY <1>2, <1>3, <1>4, <1>5 DEF Writing

-----------------------------------------------------------------------------
(* The theorems                                                             *)

LEMMA InitIsSound ==
    ASSUME Init
    PROVE  PublicationInvariant
<1>1. node \in Seq(Node) /\ file \in 0..Len(node)
  <2>1. CASE node = <<>>
    BY <2>1, EmptySeq DEF Init
  <2>2. CASE node # <<>>
    <3>1. PICK r \in BOOLEAN :
            node = <<[content |-> [text |-> 1, registered |-> r], stamp |-> 0]>> /\ file = 1
      BY <2>2 DEF Init
    <3>2. [content |-> [text |-> 1, registered |-> r], stamp |-> 0] \in Node
      BY PublicationAssumption DEF Node, Content, Whole, Text
    <3>3. node \in Seq(Node) /\ Len(node) = 1
      BY <3>1, <3>2
    <3>4. QED
      BY <3>1, <3>3
  <2>3. QED
    BY <2>1, <2>2
<1>2. TypeOK
  <2>1. Len(node) \in Nat /\ 0 \in 0..Len(node)
    BY <1>1, LenProperties
  <2>2. /\ userText \in Text \cup {0} /\ 0 \in 0..MaxEdits /\ 0 \in 0..MaxFaults
    BY PublicationAssumption DEF Init, Text
  <2>3. NoStat \in (0..Len(node)) \X Nat
    BY <2>1 DEF NoStat
  <2>4. QED
    BY <1>1, <2>1, <2>2, <2>3 DEF Init, TypeOK, Steps, Backup, Node
<1>3. BackupInvariant /\ \A t \in Transaction : Knows(t)
  BY DEF Init, BackupInvariant, Knows, Preserving, Staging
<1>4. QED
  BY <1>2, <1>3 DEF Init, PublicationInvariant

LEMMA StepKeepsPublicationInvariant ==
    ASSUME PublicationInvariant, [Next]_vars
    PROVE  PublicationInvariant'
<1> USE DEF PublicationInvariant
<1>1. TypeOK'
  BY StepKeepsTypes
<1>2. ASSUME NEW s \in Transaction, Work(s)
      PROVE  PublicationInvariant'
  <2>1. CASE Reading(s)
    <3>1. FilesChange /\ UNCHANGED <<file, userText>>
      BY <2>1, ReadingChangesNoFile, UnchangedFiles
    <3>2. \A t \in Transaction \ {s} : Knows(t)'
      BY <1>2, <3>1, WorkLeavesOthers, OtherWorkIsNoticed, OthersKnow
    <3>3. QED
      BY <1>1, <1>2, <2>1, <3>1, <3>2, ReadingTeaches, WorkKeepsBackups
  <2>2. CASE Writing(s)
    <3>1. FilesChange /\ UNCHANGED userText
      BY <2>2, WritingChangesFiles
    <3>2. \A t \in Transaction \ {s} : Knows(t)'
      BY <1>2, <3>1, WorkLeavesOthers, OtherWorkIsNoticed, OthersKnow
    <3>3. file' = 0 => file = 0
      BY <2>2 DEF Writing, Stage, Publish, WriteBack, Truncate, Release, Knows, Staging
    <3>4. QED
      BY <1>1, <1>2, <2>2, <3>1, <3>2, <3>3, WritingTeaches, WorkKeepsBackups
  <2>3. QED
    BY <1>2, <2>1, <2>2 DEF Work, Reading, Writing
<1>3. CASE User
  <2>1. FilesChange /\ (file' = 0 => userText' = 0)
    BY <1>3, UserChangesFiles
  <2>2. \A t \in Transaction : Knows(t)'
    BY <1>3, <2>1, UserIsNoticed, OthersKnow
  <2>3. UNCHANGED <<backup, kind, pc, learnt>>
    BY <1>3 DEF User, EditInPlace, EditByReplacing, Remove, Act
  <2>4. BackupInvariant'
    BY <2>3 DEF BackupInvariant, learnt, IsKept
  <2>5. QED
    BY <1>1, <2>1, <2>2, <2>4
<1>4. CASE UNCHANGED vars
  <2>1. FilesChange
    BY <1>4, UnchangedFiles DEF vars
  <2>2. \A t \in Transaction : Knows(t)'
    BY <1>4, <2>1, OthersKnow DEF vars, Frame, Noticed, ContentsStay
  <2>3. BackupInvariant'
    BY <1>4 DEF vars, BackupInvariant, IsKept
  <2>4. QED
    BY <1>1, <1>4, <2>2, <2>3 DEF vars
<1>5. QED
  BY <1>2, <1>3, <1>4 DEF Next

(* Throughout every behaviour: backups are copied by one transaction at a   *)
(* time and hold what was verified, and a transaction that nobody disturbed *)
(* since its last comparison overwrites exactly what it compared            *)
(* (ClientConfigurationPublication.ts, SetupRecoveryBackup.ts).             *)
THEOREM PublicationInvariantHolds == Spec => []PublicationInvariant
<1>1. Init => PublicationInvariant
  BY InitIsSound
<1>2. PublicationInvariant /\ [Next]_vars => PublicationInvariant'
  BY StepKeepsPublicationInvariant
<1>3. QED
  BY <1>1, <1>2, PTL DEF Spec

(* Whatever transaction replaced the configuration, or died doing so, the   *)
(* original it replaced is in a backup.                                     *)
THEOREM ReplacedOriginalsAreKept == Spec => []OriginalsAreKept
<1>1. PublicationInvariant => OriginalsAreKept
  BY DEF PublicationInvariant, BackupInvariant, OriginalsAreKept, Published, IsKept
<1>2. QED
  BY <1>1, PublicationInvariantHolds, PTL

(* A backup that holds the user's text keeps it while REA works.            *)
LEMMA BackupsHoldOn ==
    ASSUME WholeStays, UNCHANGED userText, \E b \in Backup : Holds(backup[b])
    PROVE  UserTextSurvives'
  BY DEF WholeStays, Holds, UserTextSurvives

LEMMA WorkKeepsUserText ==
    ASSUME PublicationInvariant, UserTextSurvives, NEW t \in Transaction, Work(t)
    PROVE  UserTextSurvives'
<1> USE DEF PublicationInvariant
<1>1. WholeStays /\ UNCHANGED userText /\ (late => late')
  <2>1. UNCHANGED userText
    BY ReadingChangesNoFile, WritingChangesFiles DEF Work, Reading, Writing
  <2>2. late => late'
    BY DEF Work, Read, SelectBackup, OpenCopy, FinishCopy, FailCopy, VerifyBackup, Select,
           Stage, Compare, Publish, Readback, FailReadback, StatOwned, StatNamed, Restore,
           MatchBytes, Recheck, WriteBack, Truncate, Overwrite, ConfirmRestore, Release,
           FailStage, Crash, shared
  <2>3. QED
    BY <2>1, <2>2, WholeBackupsStay
<1>2. CASE late \/ userText = 0
  BY <1>1, <1>2 DEF UserTextSurvives
<1>3. CASE \E b \in Backup : Holds(backup[b])
  BY <1>1, <1>3, BackupsHoldOn
<1>4. CASE Holds(ContentOf(file))
  <2>1. file \in 1..Len(node) /\ node[file].content \in Whole
    BY <1>4, PublicationAssumption, FileTypes DEF Holds, ContentOf, TypeOK, Content
  <2>2. staged[t] # 0 /\ original[t] # Missing => \E b \in Backup : backup[b] = original[t]
    BY DEF BackupInvariant, IsKept
  <2>3. CASE Reading(t) \/ Stage(t) \/ Release(t)
    <3>1. ContentOf(file)' = ContentOf(file)
      BY <2>1, <2>3, StagingKeepsContents DEF ContentsStay, ContentOf
    <3>2. QED
      BY <1>1, <1>4, <3>1 DEF Holds, UserTextSurvives
  <2>4. CASE Publish(t)
    <3>1. pc[t] = "publish" /\ UNCHANGED node
      BY <2>4 DEF Publish
    <3>2. CASE UNCHANGED file
      BY <1>1, <1>4, <3>1, <3>2 DEF Holds, ContentOf, UserTextSurvives
    <3>3. CASE file' # file
      <4>1. MayReplace(t) /\ late' = (late \/ (t \in touched /\ input[t] # NoStat))
        BY <2>4, <3>3 DEF Publish
      <4>2. input[t] # NoStat
        BY <2>1, <4>1 DEF MayReplace
      <4>3. CASE t \in touched
        BY <4>1, <4>2, <4>3 DEF UserTextSurvives
      <4>4. CASE t \notin touched
        <5>1. ContentOf(file) = original[t] /\ staged[t] # 0
          BY <3>1, <4>2, <4>4 DEF Knows, Staging
        <5>2. original[t] # Missing
          BY <1>4, <5>1, PublicationAssumption DEF Holds, Content
        <5>3. QED
          BY <1>1, <1>4, <2>2, <5>1, <5>2, BackupsHoldOn
      <4>5. QED
        BY <4>3, <4>4
    <3>4. QED
      BY <3>2, <3>3
  <2>5. CASE WriteBack(t) \/ Truncate(t)
    <3>1. /\ pc[t] \in {"write", "truncate"} /\ late' = (late \/ t \in touched)
          /\ UNCHANGED file
      BY <2>5 DEF WriteBack, Truncate, Overwrite
    <3>2. CASE t \in touched
      BY <3>1, <3>2 DEF UserTextSurvives
    <3>3. CASE t \notin touched /\ WriteBack(t)
      <4>1. /\ file = staged[t] /\ node[staged[t]].content = Edited(t) /\ staged[t] # 0
            /\ original[t] # Missing
        BY <3>3 DEF Knows, Staging, WriteBack
      <4>2. original[t] \in Whole /\ Edited(t).text = original[t].text
        BY <4>1 DEF BackupInvariant, Edited
      <4>3. Holds(original[t])
        BY <1>4, <2>1, <4>1, <4>2 DEF Holds, ContentOf
      <4>4. QED
        BY <1>1, <2>2, <4>1, <4>3, BackupsHoldOn
    <3>4. CASE t \notin touched /\ Truncate(t)
      <4>1. node[staged[t]].content = Torn
        BY <3>4 DEF Knows, Truncate
      <4>2. file # staged[t]
        BY <2>1, <4>1, PublicationAssumption
      <4>3. node'[file] = node[file]
        BY <2>1, <3>4, <4>2 DEF Truncate, Overwrite, TypeOK
      <4>4. ContentOf(file)' = ContentOf(file)
        BY <2>1, <3>1, <4>3 DEF ContentOf
      <4>5. QED
        BY <1>1, <1>4, <4>4 DEF Holds, UserTextSurvives
    <3>5. QED
      BY <2>5, <3>2, <3>3, <3>4
  <2>6. QED
    BY <2>3, <2>4, <2>5 DEF Work, Reading
<1>5. QED
  BY <1>2, <1>3, <1>4 DEF UserTextSurvives

(* The text the user wrote last is in the file or in a backup, whoever      *)
(* edits the file and wherever a process dies, unless it was written after  *)
(* the last comparison of the transaction that overwrote it: the rename and *)
(* the write of restore take no precondition.                               *)
THEOREM UserTextIsNotLost == Spec => []UserTextSurvives
<1>1. Init => UserTextSurvives
  <2>1. ASSUME Init
        PROVE  UserTextSurvives
    <3>1. CASE userText = 0
      BY <3>1 DEF UserTextSurvives
    <3>2. CASE userText # 0
      <4>1. PICK r \in BOOLEAN : /\ userText = 1 /\ file = 1
              /\ node = <<[content |-> [text |-> 1, registered |-> r], stamp |-> 0]>>
        BY <2>1, <3>2 DEF Init
      <4>2. ContentOf(file) = [text |-> 1, registered |-> r]
        BY <4>1 DEF ContentOf
      <4>3. QED
        BY <4>1, <4>2, PublicationAssumption DEF UserTextSurvives, Holds, Whole, Text
    <3>3. QED
      BY <3>1, <3>2
  <2>2. QED
    BY <2>1
<1>2. PublicationInvariant /\ UserTextSurvives /\ [Next]_vars => UserTextSurvives'
  <2>1. ASSUME PublicationInvariant, User
        PROVE  UserTextSurvives'
    BY <2>1, UserChangesFiles DEF PublicationInvariant, UserTextSurvives
  <2>2. ASSUME UserTextSurvives, UNCHANGED vars
        PROVE  UserTextSurvives'
    BY <2>2 DEF vars, UserTextSurvives, Holds, ContentOf
  <2>3. QED
    BY <2>1, <2>2, WorkKeepsUserText DEF Next
<1>3. QED
  BY <1>1, <1>2, PublicationInvariantHolds, PTL DEF Spec
=============================================================================
