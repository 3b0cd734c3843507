---------------------------- MODULE UpkeepProofs ----------------------------
(***************************************************************************)
(* What holds of backups, restores and retention for every number of runs, *)
(* pages and backups, however often each is killed.                        *)
(***************************************************************************)
EXTENDS Upkeep, TLAPS

\* The rows "have" rest on files, or retention took some.
Rests(have, directory) == ~directory.taken => have \subseteq directory.pages

\* A run without an archived directory had no pages, or they had been taken.
Absent(have, directory) == have = {} \/ directory.taken

\* A restore meets nobody else: not even what a killed command has left.
Quiet ==
    /\ ~whole => making.at = "none" /\ sweep = {} /\ writing = [r \in Run |-> {}]
    /\ restore.at # "files" => restore.left = {}
    /\ making.at = "none" => making.left = {}

\* A backup under way: what it has yet to archive is still there.
DumpRests ==
    /\ making.at = "dumped" => \A r \in Run : Rests(making.rows[r].pages, disk[r])
    /\ making.at = "archiving" =>
         \A r \in Run :
            /\ r \in making.left => Rests(making.rows[r].pages, disk[r])
            /\ r \in making.listed \ making.left =>
                  Rests(making.rows[r].pages, making.files[r])
            /\ r \notin making.listed => Absent(making.rows[r].pages, disk[r])

BackupRests ==
    \A r \in Run :
       /\ r \in backup.listed => Rests(backup.rows[r].pages, backup.files[r])
       /\ r \notin backup.listed => Absent(backup.rows[r].pages, disk[r])

RestoreAgrees ==
    restore.at = "files" =>
       /\ row = backup.rows
       /\ \A r \in backup.listed \ restore.left : disk[r] = backup.files[r]

SweepPublished ==
    \A r \in sweep : row[r].old /\ (row[r].review = "PUBLISHED" \/ r \in reopened)

FilesInv ==
    TypeOK /\ EvidenceKept /\ Quiet /\ DumpRests /\ BackupRests /\ RestoreAgrees

-----------------------------------------------------------------------------
(* Types.                                                                  *)

LEMMA StartTypes ==
  NewRow \in Row /\ NoDirectory \in Directory /\ NoBackup \in Backup
<1>1. NewRow \in Row /\ NoDirectory \in Directory
  BY DEF NewRow, Row, NoDirectory, Directory
<1>2. QED
  BY <1>1 DEF NoBackup, Backup

\* Files that are taken away leave a directory.
LEMMA TakesType ==
  ASSUME TypeOK, NEW r \in Run, NEW files \in SUBSET disk[r].pages, Takes(r, files)
  PROVE  disk' \in [Run -> Directory]
  BY DEF TypeOK, Takes, Directory

LEMMA RunStepTypes ==
  ASSUME TypeOK, NEW r \in Run,
         \/ \E p \in Page : SaveContent(r, p)
         \/ CreateSnapshot(r) \/ KillResearch(r) \/ BuildReport(r) \/ PublishReport(r)
         \/ Age(r) \/ RemoveRun(r)
  PROVE  TypeOK'
<1> USE DEF TypeOK, command, retention
<1>1. ASSUME NEW p \in Page, SaveContent(r, p) PROVE TypeOK'
  <2>1. disk' \in [Run -> Directory] /\ writing' \in [Run -> SUBSET Page]
    BY <1>1 DEF SaveContent, Directory
  <2>2. QED
    BY <1>1, <2>1 DEF SaveContent
<1>2. CASE CreateSnapshot(r)
  <2>1. row' \in [Run -> Row] /\ writing' \in [Run -> SUBSET Page]
    BY <1>2 DEF CreateSnapshot, Row
  <2>2. QED
    BY <1>2, <2>1 DEF CreateSnapshot
<1>3. CASE KillResearch(r)
  BY <1>3 DEF KillResearch
<1>4. CASE BuildReport(r)
  <2>1. row' \in [Run -> Row] /\ reopened' \subseteq sweep
    BY <1>4 DEF BuildReport, Row
  <2>2. QED
    BY <1>4, <2>1 DEF BuildReport
<1>5. CASE PublishReport(r)
  <2>1. row' \in [Run -> Row]
    BY <1>5 DEF PublishReport, Row
  <2>2. QED
    BY <1>5, <2>1 DEF PublishReport
<1>6. CASE Age(r)
  <2>1. row' \in [Run -> Row]
    BY <1>6 DEF Age, Row
  <2>2. QED
    BY <1>6, <2>1 DEF Age
<1>7. CASE RemoveRun(r)
  <2>1. disk' \in [Run -> Directory]
    BY <1>7, TakesType DEF RemoveRun
  <2>2. QED
    BY <1>7, <2>1 DEF RemoveRun
<1>8. QED
  BY <1>1, <1>2, <1>3, <1>4, <1>5, <1>6, <1>7

LEMMA CommandStepTypes ==
  ASSUME TypeOK, Quiet,
         \/ Dump \/ ListRuns \/ WriteManifest \/ BackupFails
         \/ \E r \in Run : ArchiveRun(r)
  PROVE  TypeOK'
<1> USE DEF TypeOK, retention
<1>1. CASE Dump
  <2>1. making' \in Backup /\ making'.left = {} /\ making'.at = "dumped"
    BY <1>1, StartTypes DEF Dump, Backup, NoBackup
  <2>2. QED
    BY <1>1, <2>1, UpkeepAssumption DEF Dump
<1>2. CASE ListRuns
  <2>1. making' \in Backup /\ making'.left = making'.listed /\ making'.at = "archiving"
    BY <1>2 DEF ListRuns, Backup
  <2>2. QED
    BY <1>2, <2>1 DEF ListRuns
<1>3. CASE WriteManifest
  <2>1. /\ backup' \in Backup /\ backup'.left = {} /\ backup'.at = "complete"
        /\ backup'.listed = making.listed
    BY <1>3 DEF WriteManifest, KeptRows, Backup
  <2>2. making' \in Backup /\ making'.left = {} /\ making'.at = "none"
    BY <1>3, StartTypes DEF WriteManifest, NoBackup
  <2>3. restore'.left = {} /\ UNCHANGED restore
    BY <1>3 DEF WriteManifest, Quiet
  <2>4. QED
    BY <1>3, <2>1, <2>2, <2>3 DEF WriteManifest
<1>4. CASE BackupFails
  BY <1>4, StartTypes DEF BackupFails, NoBackup
<1>5. ASSUME NEW r \in Run, ArchiveRun(r) PROVE TypeOK'
  <2>1. /\ making' \in Backup /\ making'.left \subseteq making'.listed
        /\ making'.at = making.at
    BY <1>5 DEF ArchiveRun, Backup
  <2>2. QED
    BY <1>5, <2>1 DEF ArchiveRun
<1>6. QED
  BY <1>1, <1>2, <1>3, <1>4, <1>5

LEMMA OtherStepTypes ==
  ASSUME TypeOK,
         \/ Select \/ RetentionKilled \/ RestoreRows \/ RestoreEnds \/ HostLost
         \/ \E r \in Run : RestoreRun(r)
  PROVE  TypeOK'
<1> USE DEF TypeOK, command, retention
<1>1. CASE Select
  BY <1>1 DEF Select
<1>2. CASE RetentionKilled
  <2>1. disk' \in [Run -> Directory]
    BY <1>2, TakesType DEF RetentionKilled
  <2>2. QED
    BY <1>2, <2>1 DEF RetentionKilled
<1>3. CASE RestoreRows
  <2>1. backup.rows \in [Run -> Row] /\ backup.listed \subseteq Run
    BY DEF Backup
  <2>2. row' \in [Run -> Row]
    BY <1>3, <2>1 DEF RestoreRows
  <2>3. /\ restore' \in [at : {"off", "rows", "files"}, left : SUBSET Run]
        /\ restore'.left \subseteq backup.listed
    BY <1>3, <2>1 DEF RestoreRows, ToReplace
  <2>4. QED
    BY <1>3, <2>2, <2>3 DEF RestoreRows
<1>4. CASE RestoreEnds
  BY <1>4 DEF RestoreEnds
<1>5. CASE HostLost
  <2>1. row' \in [Run -> Row] /\ disk' \in [Run -> Directory]
    BY <1>5, StartTypes DEF HostLost, Directory
  <2>2. QED
    BY <1>5, <2>1, StartTypes DEF HostLost, NoBackup
<1>6. ASSUME NEW r \in Run, RestoreRun(r) PROVE TypeOK'
  <2>1. disk' \in [Run -> Directory]
    <3>1. CASE disk' = [disk EXCEPT ![r] = Replaced(r)]
      BY <3>1 DEF Replaced, Backup
    <3>2. CASE \E files \in SUBSET disk[r].pages : Takes(r, files)
      BY <3>2, TakesType
    <3>3. QED
      BY <1>6, <3>1, <3>2 DEF RestoreRun
  <2>2. /\ restore' \in [at : {"off", "rows", "files"}, left : SUBSET Run]
        /\ restore'.left \subseteq backup.listed
        /\ restore'.at # "off" => restore.at # "off"
    BY <1>6 DEF RestoreRun
  <2>3. QED
    BY <1>6, <2>1, <2>2 DEF RestoreRun
<1>7. QED
  BY <1>1, <1>2, <1>3, <1>4, <1>5, <1>6

LEMMA TypeStep == TypeOK /\ Quiet /\ [Next]_vars => TypeOK'
<1> SUFFICES ASSUME TypeOK, Quiet, [Next]_vars PROVE TypeOK'
  OBVIOUS
<1>1. CASE Next
  BY <1>1, RunStepTypes, CommandStepTypes, OtherStepTypes DEF Next
<1>2. CASE UNCHANGED vars
  BY <1>2 DEF TypeOK, vars, command, retention
<1>3. QED
  BY <1>1, <1>2

LEMMA StartInv == Init => FilesInv /\ SweepPublished
<1> SUFFICES ASSUME Init PROVE FilesInv /\ SweepPublished
  OBVIOUS
<1>1. TypeOK
  BY StartTypes, UpkeepAssumption DEF Init, TypeOK, NoBackup
<1>2. EvidenceKept /\ RestoreAgrees /\ SweepPublished
  BY DEF Init, EvidenceKept, RestoreAgrees, SweepPublished, NewRow
<1>3. Quiet /\ DumpRests
  BY DEF Init, Quiet, DumpRests, NoBackup
<1>4. BackupRests
  BY DEF Init, BackupRests, NoBackup, NewRow, Absent
<1>5. QED
  BY <1>1, <1>2, <1>3, <1>4 DEF FilesInv

-----------------------------------------------------------------------------
(* Commands have the rows and the files to themselves, or share them.      *)

LEMMA QuietStep == TypeOK /\ Quiet /\ [Next]_vars => Quiet'
<1> SUFFICES ASSUME TypeOK, Quiet, [Next]_vars PROVE Quiet'
  OBVIOUS
<1> USE DEF Quiet, TypeOK, command, retention
<1>1. ASSUME NEW r \in Run, NEW p \in Page, SaveContent(r, p) PROVE Quiet'
  BY <1>1 DEF SaveContent
<1>2. ASSUME NEW r \in Run,
             CreateSnapshot(r) \/ BuildReport(r) \/ PublishReport(r) \/ Age(r)
      PROVE  Quiet'
  BY <1>2 DEF CreateSnapshot, BuildReport, PublishReport, Age
<1>3. ASSUME NEW r \in Run, KillResearch(r) PROVE Quiet'
  BY <1>3 DEF KillResearch
<1>4. ASSUME NEW r \in Run, ArchiveRun(r) PROVE Quiet'
  <2>1. making'.at = making.at /\ making.at # "none"
    BY <1>4 DEF ArchiveRun, Backup
  <2>2. QED
    BY <1>4, <2>1 DEF ArchiveRun
<1>5. ASSUME NEW r \in Run, RemoveRun(r) PROVE Quiet'
  BY <1>5 DEF RemoveRun
<1>6. ASSUME NEW r \in Run, RestoreRun(r) PROVE Quiet'
  BY <1>6 DEF RestoreRun
<1>7. CASE Dump
  BY <1>7 DEF Dump, NoBackup
<1>8. CASE ListRuns
  BY <1>8 DEF ListRuns, Backup
<1>9. CASE WriteManifest \/ BackupFails
  BY <1>9 DEF WriteManifest, BackupFails, NoBackup
<1>10. CASE Select \/ RetentionKilled
  BY <1>10 DEF Select, RetentionKilled
<1>11. CASE RestoreRows
  BY <1>11 DEF RestoreRows
<1>12. CASE RestoreEnds \/ HostLost
  BY <1>12 DEF RestoreEnds, HostLost, NoBackup
<1>13. CASE UNCHANGED vars
  BY <1>13 DEF vars
<1>14. QED
  BY <1>1, <1>2, <1>3, <1>4, <1>5, <1>6, <1>7, <1>8, <1>9, <1>10, <1>11, <1>12, <1>13
     DEF Next

-----------------------------------------------------------------------------
(* Files under the rows.  Directories only grow, or are marked as taken.   *)

\* A directory that keeps its files, or loses some to a deletion.
Changes(old, new) == (old.taken => new.taken) /\ (~new.taken => old.pages \subseteq new.pages)

LEMMA RestsAfter ==
  ASSUME NEW have, NEW old, NEW new, Changes(old, new)
  PROVE  /\ Rests(have, old) => Rests(have, new)
         /\ Absent(have, old) => Absent(have, new)
  BY DEF Changes, Rests, Absent

LEMMA TakesChanges ==
  ASSUME TypeOK, NEW r \in Run, NEW files \in SUBSET disk[r].pages, Takes(r, files)
  PROVE  \A q \in Run : Changes(disk[q], disk'[q])
<1>1. disk'[r] = [pages |-> files, taken |-> disk[r].taken \/ files # disk[r].pages]
  BY DEF TypeOK, Takes
<1>2. ASSUME NEW q \in Run, q # r PROVE disk'[q] = disk[q]
  BY <1>2 DEF TypeOK, Takes
<1>3. Changes(disk[r], disk'[r])
  <2>1. CASE disk[r].taken \/ files # disk[r].pages
    <3> DEFINE t == disk[r].taken \/ files # disk[r].pages
    <3>1. t = TRUE
      BY <2>1
    <3>2. disk'[r] = [pages |-> files, taken |-> t]
      BY <1>1
    <3> HIDE DEF t
    <3>3. disk'[r] = [pages |-> files, taken |-> TRUE]
      BY <3>1, <3>2
    <3>4. QED
      BY <3>3 DEF Changes
  <2>2. CASE ~disk[r].taken /\ files = disk[r].pages
    <3>1. disk'[r].pages = files
      BY <1>1
    <3>2. QED
      BY <2>2, <3>1 DEF Changes
  <2>3. QED
    BY <2>1, <2>2
<1>4. \A q \in Run : Changes(disk[q], disk[q])
  BY DEF Changes
<1>5. QED
  BY <1>2, <1>3, <1>4

\* Runs and retention leave backups, and change directories in these two ways.
LEMMA LiveStep ==
  ASSUME TypeOK, Quiet, DumpRests, BackupRests, RestoreAgrees,
         UNCHANGED <<making, backup, restore>>,
         whole, \A q \in Run : Changes(disk[q], disk'[q])
  PROVE  DumpRests' /\ BackupRests' /\ RestoreAgrees'
<1>1. DumpRests'
  BY RestsAfter DEF DumpRests
<1>2. BackupRests'
  <2>1. \A r \in Run : Absent(backup.rows[r].pages, disk[r]) =>
                       Absent(backup.rows[r].pages, disk'[r])
    BY RestsAfter
  <2>2. QED
    BY <2>1 DEF BackupRests
<1>3. RestoreAgrees'
  BY DEF TypeOK, RestoreAgrees
<1>4. QED
  BY <1>1, <1>2, <1>3

LEMMA RunStepFiles ==
  ASSUME FilesInv, NEW r \in Run,
         \/ \E p \in Page : SaveContent(r, p)
         \/ CreateSnapshot(r) \/ KillResearch(r) \/ BuildReport(r) \/ PublishReport(r)
         \/ Age(r)
  PROVE  EvidenceKept' /\ DumpRests' /\ BackupRests' /\ RestoreAgrees'
<1> USE DEF FilesInv, command, retention
<1>1. ASSUME NEW p \in Page, SaveContent(r, p)
      PROVE  EvidenceKept' /\ DumpRests' /\ BackupRests' /\ RestoreAgrees'
  <2>1. \A q \in Run :
           /\ disk[q].taken = disk'[q].taken /\ row'[q] = row[q]
           /\ disk'[q].pages = disk[q].pages \union (IF q = r THEN {p} ELSE {})
           /\ writing'[q] = IF q = r THEN {p} ELSE writing[q]
    BY <1>1 DEF SaveContent, TypeOK, Directory
  <2>2. \A q \in Run : Changes(disk[q], disk'[q])
    BY <2>1 DEF Changes
  <2>3. EvidenceKept'
    BY <1>1, <2>1 DEF SaveContent, EvidenceKept
  <2>4. QED
    BY <1>1, <2>2, <2>3, LiveStep DEF SaveContent
<1>2. CASE CreateSnapshot(r)
  <2>1. \A q \in Run :
           row'[q].pages \union writing'[q] = row[q].pages \union writing[q]
    BY <1>2 DEF CreateSnapshot, TypeOK, Row
  <2>2. EvidenceKept'
    BY <1>2, <2>1 DEF CreateSnapshot, EvidenceKept
  <2>3. \A q \in Run : Changes(disk[q], disk'[q])
    BY <1>2 DEF CreateSnapshot, Changes
  <2>4. QED
    BY <1>2, <2>2, <2>3, LiveStep DEF CreateSnapshot
<1>3. CASE KillResearch(r)
  <2>1. whole
    BY <1>3 DEF KillResearch, Quiet, TypeOK
  <2>2. \A q \in Run : writing'[q] \subseteq writing[q]
    BY <1>3 DEF KillResearch, TypeOK
  <2>3. EvidenceKept'
    BY <1>3, <2>2 DEF KillResearch, EvidenceKept
  <2>4. \A q \in Run : Changes(disk[q], disk'[q])
    BY <1>3 DEF KillResearch, Changes
  <2>5. QED
    BY <1>3, <2>1, <2>3, <2>4, LiveStep DEF KillResearch
<1>4. CASE BuildReport(r) \/ PublishReport(r) \/ Age(r)
  <2>1. \A q \in Run : row'[q].pages = row[q].pages
    BY <1>4 DEF BuildReport, PublishReport, Age, TypeOK, Row
  <2>2. EvidenceKept'
    BY <1>4, <2>1 DEF BuildReport, PublishReport, Age, EvidenceKept
  <2>3. \A q \in Run : Changes(disk[q], disk'[q])
    BY <1>4 DEF BuildReport, PublishReport, Age, Changes
  <2>4. whole /\ UNCHANGED <<making, backup, restore>>
    BY <1>4 DEF BuildReport, PublishReport, Age
  <2>5. QED
    BY <2>2, <2>3, <2>4, LiveStep
<1>5. QED
  BY <1>1, <1>2, <1>3, <1>4

LEMMA RetentionFiles ==
  ASSUME FilesInv,
         Select \/ RetentionKilled \/ \E r \in Run : RemoveRun(r)
  PROVE  EvidenceKept' /\ DumpRests' /\ BackupRests' /\ RestoreAgrees'
<1> USE DEF FilesInv, command, retention
<1>1. /\ UNCHANGED <<row, writing, making, backup, restore, whole>>
      /\ whole
  BY DEF Select, RetentionKilled, RemoveRun, Quiet
<1>2. \A q \in Run : Changes(disk[q], disk'[q])
  <2>1. CASE Select
    BY <2>1 DEF Select, Changes
  <2>2. CASE RetentionKilled
    BY <2>2, TakesChanges DEF RetentionKilled, TypeOK
  <2>3. ASSUME NEW r \in Run, RemoveRun(r)
        PROVE  \A q \in Run : Changes(disk[q], disk'[q])
    BY <2>3, TakesChanges DEF RemoveRun
  <2>4. QED
    BY <2>1, <2>2, <2>3
<1>3. EvidenceKept'
  BY <1>1, <1>2 DEF EvidenceKept, Changes
<1>4. QED
  BY <1>1, <1>2, <1>3, LiveStep

\* create_backup takes the rows first and the files later.
LEMMA BackupFiles ==
  ASSUME FilesInv,
         \/ Dump \/ ListRuns \/ WriteManifest \/ BackupFails
         \/ \E r \in Run : ArchiveRun(r)
  PROVE  EvidenceKept' /\ DumpRests' /\ BackupRests' /\ RestoreAgrees'
<1> USE DEF FilesInv, command, retention
<1>1. UNCHANGED <<row, disk, writing, restore, whole>>
  BY DEF Dump, ListRuns, WriteManifest, BackupFails, ArchiveRun
<1>2. EvidenceKept'
  BY <1>1 DEF EvidenceKept
<1>3. CASE Dump
  <2>1. making'.at = "dumped" /\ making'.rows = row /\ UNCHANGED backup /\ whole
    BY <1>3 DEF Dump, NoBackup
  <2>2. \A r \in Run : Rests(row[r].pages, disk[r])
    BY <2>1 DEF EvidenceKept, Rests
  <2>3. DumpRests'
    BY <1>1, <2>1, <2>2 DEF DumpRests
  <2>4. QED
    BY <1>1, <1>2, <2>1, <2>3 DEF BackupRests, RestoreAgrees
<1>4. CASE ListRuns
  <2> DEFINE found == {r \in Run : disk[r].pages # {}}
  <2>1. /\ making'.at = "archiving" /\ making'.rows = making.rows
        /\ making'.listed = found /\ making'.left = found
        /\ UNCHANGED backup /\ making.at = "dumped"
    BY <1>4 DEF ListRuns, TypeOK, Backup
  <2>2. ASSUME NEW r \in Run
        PROVE  /\ Rests(making.rows[r].pages, disk[r])
               /\ r \notin found => Absent(making.rows[r].pages, disk[r])
    BY <2>1 DEF DumpRests, Rests, Absent
  <2>3. DumpRests'
    BY <1>1, <2>1, <2>2 DEF DumpRests
  <2>4. QED
    BY <1>1, <1>2, <2>1, <2>3 DEF BackupRests, RestoreAgrees
<1>5. ASSUME NEW r \in Run, ArchiveRun(r)
      PROVE  DumpRests' /\ BackupRests' /\ RestoreAgrees'
  <2>1. /\ making'.at = making.at /\ making'.rows = making.rows
        /\ making'.listed = making.listed /\ making'.left = making.left \ {r}
        /\ making'.files = [making.files EXCEPT ![r] = disk[r]]
        /\ UNCHANGED backup /\ making.at # "none"
    BY <1>5 DEF ArchiveRun, TypeOK, Quiet, Backup
  <2>2. making.files \in [Run -> Directory] /\ r \in making.left
    BY <1>5 DEF ArchiveRun, TypeOK, Backup
  <2>3. making.at = "archiving" =>
          \A q \in making'.listed \ making'.left :
             q \in Run => Rests(making'.rows[q].pages, making'.files[q])
    BY <2>1, <2>2 DEF DumpRests
  <2>4. DumpRests'
    BY <1>1, <2>1, <2>3 DEF DumpRests
  <2>5. QED
    BY <1>1, <2>1, <2>4 DEF BackupRests, RestoreAgrees
<1>6. CASE WriteManifest
  <2>1. /\ backup'.rows = making.rows /\ backup'.files = making.files
        /\ backup'.listed = making.listed /\ making.left = {}
        /\ making.at = "archiving" /\ making'.at = "none"
    BY <1>6 DEF WriteManifest, KeptRows, NoBackup, TypeOK, Backup
  <2>2. BackupRests'
    BY <1>1, <2>1 DEF DumpRests, BackupRests
  <2>3. whole /\ restore.at = "off"
    BY <2>1 DEF Quiet, TypeOK
  <2>4. QED
    BY <1>1, <1>2, <2>1, <2>2, <2>3 DEF DumpRests, RestoreAgrees
<1>7. CASE BackupFails
  BY <1>1, <1>2, <1>7 DEF BackupFails, NoBackup, DumpRests, BackupRests, RestoreAgrees
<1>8. QED
  BY <1>2, <1>3, <1>4, <1>5, <1>6, <1>7

\* restore_backup, and the loss of the host.
LEMMA RestoreFiles ==
  ASSUME FilesInv,
         RestoreRows \/ RestoreEnds \/ HostLost \/ \E r \in Run : RestoreRun(r)
  PROVE  EvidenceKept' /\ DumpRests' /\ BackupRests' /\ RestoreAgrees'
<1> USE DEF FilesInv, command, retention
<1>1. CASE RestoreRows
  <2>1. ~whole' /\ making'.at = "none" /\ UNCHANGED <<disk, backup>>
    BY <1>1 DEF RestoreRows
  <2>2. RestoreAgrees'
    BY <1>1, <2>1 DEF RestoreRows, ToReplace, RestoreAgrees
  <2>3. QED
    BY <2>1, <2>2 DEF EvidenceKept, DumpRests, BackupRests
<1>2. ASSUME NEW r \in Run, RestoreRun(r)
      PROVE  EvidenceKept' /\ DumpRests' /\ BackupRests' /\ RestoreAgrees'
  <2>1. /\ r \in restore.left /\ restore.at = "files" /\ ~whole /\ r \in backup.listed
        /\ making.at = "none" /\ UNCHANGED <<row, making, backup, whole>>
    BY <1>2 DEF RestoreRun, TypeOK, Quiet
  <2>2. \A q \in Run : q # r => disk'[q] = disk[q]
    BY <1>2 DEF RestoreRun, TypeOK, Takes
  <2>3. BackupRests'
    BY <2>1, <2>2 DEF BackupRests
  <2>4. RestoreAgrees'
    <3>1. CASE restore'.at = "off"
      BY <3>1 DEF RestoreAgrees
    <3>2. CASE /\ disk' = [disk EXCEPT ![r] = Replaced(r)]
               /\ restore' = [restore EXCEPT !.left = @ \ {r}]
      <4>1. disk'[r] = backup.files[r]
        BY <3>2 DEF Replaced, TypeOK
      <4>2. restore'.at = "files" /\ restore'.left = restore.left \ {r}
        BY <2>1, <3>2 DEF TypeOK
      <4>3. backup.listed \subseteq Run
        BY DEF TypeOK, Backup
      <4>4. QED
        BY <2>1, <2>2, <4>1, <4>2, <4>3 DEF RestoreAgrees
    <3>3. QED
      BY <1>2, <3>1, <3>2 DEF RestoreRun
  <2>5. QED
    BY <2>1, <2>3, <2>4 DEF EvidenceKept, DumpRests
<1>3. CASE RestoreEnds
  <2>1. /\ restore.at = "files" /\ restore.left = {} /\ restore'.at = "off"
        /\ ~whole /\ making.at = "none" /\ writing = [r \in Run |-> {}]
        /\ UNCHANGED <<row, disk, writing, making, backup>>
    BY <1>3 DEF RestoreEnds, TypeOK, Quiet
  <2>2. ASSUME NEW r \in Run, ~disk[r].taken
        PROVE  row[r].pages \union writing[r] \subseteq disk[r].pages
    <3>1. row[r].pages = backup.rows[r].pages /\ writing[r] = {}
      BY <2>1 DEF RestoreAgrees
    <3>2. CASE r \in backup.listed
      BY <2>1, <2>2, <3>1, <3>2 DEF RestoreAgrees, BackupRests, Rests
    <3>3. CASE r \notin backup.listed
      BY <2>2, <3>1, <3>3 DEF BackupRests, Absent
    <3>4. QED
      BY <3>2, <3>3
  <2>3. EvidenceKept'
    BY <2>1, <2>2 DEF EvidenceKept
  <2>4. QED
    BY <2>1, <2>3 DEF DumpRests, BackupRests, RestoreAgrees
<1>4. CASE HostLost
  <2>1. /\ ~whole' /\ making'.at = "none" /\ restore'.at = "off" /\ UNCHANGED backup
        /\ \A r \in Run : disk'[r].taken = disk[r].taken
    BY <1>4 DEF HostLost, NoBackup, TypeOK, Directory
  <2>2. QED
    BY <2>1 DEF EvidenceKept, DumpRests, BackupRests, RestoreAgrees, Absent, Rests
<1>5. QED
  BY <1>1, <1>2, <1>3, <1>4

-----------------------------------------------------------------------------
LEMMA FilesStep == FilesInv /\ [Next]_vars => FilesInv'
<1> SUFFICES ASSUME FilesInv, [Next]_vars PROVE FilesInv'
  OBVIOUS
<1>1. TypeOK' /\ Quiet'
  BY TypeStep, QuietStep DEF FilesInv
<1>2. CASE Next
  BY <1>1, <1>2, RunStepFiles, RetentionFiles, BackupFiles, RestoreFiles
     DEF Next, FilesInv
<1>3. CASE UNCHANGED vars
  BY <1>1, <1>3 DEF vars, command, FilesInv, EvidenceKept, DumpRests, BackupRests,
     RestoreAgrees
<1>4. QED
  BY <1>2, <1>3

\* Rows, directories, backups and commands have their types for any runs and
\* pages.
THEOREM UpkeepTypes == Spec => []TypeOK
<1>1. Init => FilesInv
  BY StartInv
<1>2. FilesInv => TypeOK
  BY DEF FilesInv
<1>3. QED
  BY <1>1, <1>2, FilesStep, PTL DEF Spec

\* A stored snapshot has its file, for any number of runs, backups, restores and
\* kills.  EvidenceKept says nothing of a backup: it takes DumpRests and
\* BackupRests to carry it over the loss of the host.
THEOREM EvidenceStays == Spec => []EvidenceKept
<1>1. Init => FilesInv
  BY StartInv
<1>2. FilesInv => EvidenceKept
  BY DEF FilesInv
<1>3. QED
  BY <1>1, <1>2, FilesStep, PTL DEF Spec

\* A restore that reports success has put back what the backup holds.
THEOREM RestoreComplete == Spec => RestoresWhole
<1>1. Init => FilesInv
  BY StartInv
<1>2. FilesInv /\ [Next]_vars =>
        (~whole /\ whole' =>
            row' = backup.rows /\ \A r \in backup.listed : disk'[r] = backup.files[r])
  <2> SUFFICES ASSUME FilesInv, [Next]_vars, ~whole, whole'
               PROVE  /\ row' = backup.rows
                      /\ \A r \in backup.listed : disk'[r] = backup.files[r]
    OBVIOUS
  <2>1. RestoreEnds
    BY DEF Next, vars, command, retention, SaveContent, CreateSnapshot, KillResearch,
       BuildReport, PublishReport, Age, ArchiveRun, RemoveRun, RestoreRun, Dump, ListRuns,
       WriteManifest, BackupFails, Select, RetentionKilled, RestoreRows, HostLost
  <2>2. QED
    BY <2>1 DEF RestoreEnds, FilesInv, RestoreAgrees
<1>3. QED
  BY <1>1, <1>2, FilesStep, PTL DEF Spec, RestoresWhole

-----------------------------------------------------------------------------
(* Retention.                                                              *)

LEMMA SweepStep ==
  ASSUME TypeOK, Quiet, SweepPublished, [Next]_vars
  PROVE  SweepPublished'
<1> USE DEF command, retention
<1>1. ASSUME NEW r \in Run, NEW p \in Page, SaveContent(r, p) PROVE SweepPublished'
  BY <1>1 DEF SaveContent, SweepPublished
<1>2. ASSUME NEW r \in Run,
             CreateSnapshot(r) \/ BuildReport(r) \/ PublishReport(r) \/ Age(r)
      PROVE  SweepPublished'
  <2>1. /\ UNCHANGED sweep /\ reopened \subseteq reopened'
        /\ BuildReport(r) => reopened' = reopened \union ({r} \intersect sweep)
    BY <1>2 DEF CreateSnapshot, BuildReport, PublishReport, Age
  <2>2. \A q \in Run : /\ row[q].old => row'[q].old
                       /\ row[q].review = "PUBLISHED" /\ ~(BuildReport(r) /\ q = r) =>
                            row'[q].review = "PUBLISHED"
    BY <1>2 DEF TypeOK, Row, CreateSnapshot, BuildReport, PublishReport, Age
  <2>3. sweep \subseteq Run
    BY DEF TypeOK
  <2>4. QED
    BY <2>1, <2>2, <2>3 DEF SweepPublished
<1>3. ASSUME NEW r \in Run, KillResearch(r) \/ ArchiveRun(r) \/ RestoreRun(r)
      PROVE  SweepPublished'
  BY <1>3 DEF KillResearch, ArchiveRun, RestoreRun, SweepPublished
<1>4. ASSUME NEW r \in Run, RemoveRun(r) PROVE SweepPublished'
  BY <1>4 DEF RemoveRun, SweepPublished
<1>5. CASE Dump \/ ListRuns \/ WriteManifest \/ BackupFails \/ RestoreEnds
  BY <1>5 DEF Dump, ListRuns, WriteManifest, BackupFails, RestoreEnds, SweepPublished
<1>6. CASE Select
  BY <1>6 DEF Select, Expired, SweepPublished
<1>7. CASE RetentionKilled \/ HostLost \/ RestoreRows
  BY <1>7 DEF RetentionKilled, HostLost, RestoreRows, SweepPublished
<1>8. CASE UNCHANGED vars
  BY <1>8 DEF vars, SweepPublished
<1>9. QED
  BY <1>1, <1>2, <1>3, <1>4, <1>5, <1>6, <1>7, <1>8 DEF Next

\* Retention takes files of published runs past the cutoff only, but for runs whose
\* report is built anew while it works.
THEOREM RetentionHonest == Spec => TakesPublished
<1> DEFINE Inv == FilesInv /\ SweepPublished
           Honest == \A r \in Run :
                        whole /\ whole' /\ ~(disk[r].pages \subseteq disk'[r].pages) =>
                           row[r].old /\ (row[r].review = "PUBLISHED" \/ r \in reopened)
<1>1. Init => Inv
  BY StartInv
<1>2. Inv /\ [Next]_vars => Inv'
  BY FilesStep, SweepStep DEF FilesInv
<1>3. Inv /\ [Next]_vars => Honest
  <2> SUFFICES ASSUME Inv, [Next]_vars,
                      NEW r \in Run, whole, whole', ~(disk[r].pages \subseteq disk'[r].pages)
               PROVE  r \in sweep
    BY DEF SweepPublished
  <2> USE DEF TypeOK, FilesInv, command, retention
  <2>1. ASSUME NEW q \in Run, NEW p \in Page, SaveContent(q, p) PROVE FALSE
    BY <2>1 DEF SaveContent
  <2>2. ASSUME NEW q \in Run,
               \/ CreateSnapshot(q) \/ KillResearch(q) \/ BuildReport(q)
               \/ PublishReport(q) \/ Age(q) \/ ArchiveRun(q)
        PROVE  FALSE
    BY <2>2 DEF CreateSnapshot, KillResearch, BuildReport, PublishReport, Age, ArchiveRun
  <2>3. ASSUME NEW q \in Run, RemoveRun(q) PROVE r \in sweep
    BY <2>3 DEF RemoveRun, Takes
  <2>4. ASSUME NEW q \in Run, RestoreRun(q) PROVE FALSE
    BY <2>4 DEF RestoreRun, Quiet
  <2>5. CASE RetentionKilled
    BY <2>5 DEF RetentionKilled, Takes
  <2>6. ASSUME \/ Dump \/ ListRuns \/ WriteManifest \/ BackupFails \/ Select
               \/ RestoreRows \/ RestoreEnds \/ HostLost \/ UNCHANGED vars
        PROVE  FALSE
    BY <2>6 DEF vars, Dump, ListRuns, WriteManifest, BackupFails, Select, RestoreRows,
                RestoreEnds, HostLost
  <2>7. QED
    BY <2>1, <2>2, <2>3, <2>4, <2>5, <2>6 DEF Next
<1>4. QED
  BY <1>1, <1>2, <1>3, PTL DEF Spec, TakesPublished
=============================================================================
