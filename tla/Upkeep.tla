------------------------------- MODULE Upkeep -------------------------------
(***************************************************************************)
(* The operator's backup, restore and retention (app/maintenance.py) while *)
(* runs go on storing evidence (app/source_store.py).                      *)
(*                                                                         *)
(* Rows and files live apart: a page's file is written before its row is   *)
(* committed, a backup dumps the rows and then archives the directories of *)
(* the runs one by one, retention selects published runs and then removes  *)
(* their directories, and a restore replaces the rows and then each        *)
(* directory.  Any command may be killed between its steps.                *)
(*                                                                         *)
(* As docs/operations.md:100-103 asks, no worker and no other command runs *)
(* from the start of a restore until one is complete.                      *)
(* A backup survives the host, as docs/operations.md:91-93 asks.           *)
(***************************************************************************)
EXTENDS FiniteSets, Naturals

CONSTANTS
    Run,
    Page,
    MaxDumps        \* bound: backups begun

ASSUME UpkeepAssumption == MaxDumps \in Nat

VARIABLES
    row,        \* row[r]: the snapshots, the review of the report, the age of run r
    disk,       \* disk[r]: the files in data/runs/<r>, whether retention took any
    writing,    \* writing[r]: pages with a file whose row is yet to be committed
    making,     \* the backup under way
    backup,     \* the last backup with a manifest
    sweep,      \* runs that retention selected and has yet to remove
    reopened,   \* those of them whose report was built anew (history)
    restore,    \* the directories a restore has yet to replace
    whole,      \* no host was lost and no restore is under way, or was killed
    dumps

command == <<making, backup, dumps>>
retention == <<sweep, reopened>>
vars == <<row, disk, writing, command, retention, restore, whole>>

Row == [pages : SUBSET Page, review : {"none", "PENDING", "PUBLISHED"}, old : BOOLEAN]
NewRow == [pages |-> {}, review |-> "none", old |-> FALSE]
Directory == [pages : SUBSET Page, taken : BOOLEAN]
NoDirectory == [pages |-> {}, taken |-> FALSE]

Backup ==
    [at : {"none", "dumped", "archiving", "complete"}, rows : [Run -> Row],
     files : [Run -> Directory], listed : SUBSET Run, left : SUBSET Run]
NoBackup ==
    [at |-> "none", rows |-> [r \in Run |-> NewRow],
     files |-> [r \in Run |-> NoDirectory], listed |-> {}, left |-> {}]

TypeOK ==
    /\ row \in [Run -> Row]
    /\ disk \in [Run -> Directory]
    /\ writing \in [Run -> SUBSET Page]
    /\ making \in Backup /\ backup \in Backup
    /\ making.left \subseteq making.listed
    /\ making.at # "complete" /\ backup.at \in {"none", "complete"} /\ backup.left = {}
    /\ sweep \subseteq Run /\ reopened \subseteq sweep
    /\ restore \in [at : {"off", "rows", "files"}, left : SUBSET Run]
    /\ restore.left \subseteq backup.listed
    /\ whole \in BOOLEAN
    /\ restore.at # "off" => ~whole
    /\ dumps \in 0..MaxDumps

Init ==
    /\ row = [r \in Run |-> NewRow]
    /\ disk = [r \in Run |-> NoDirectory]
    /\ writing = [r \in Run |-> {}]
    /\ making = NoBackup /\ backup = NoBackup
    /\ sweep = {} /\ reopened = {}
    /\ restore = [at |-> "off", left |-> {}]
    /\ whole = TRUE
    /\ dumps = 0

-----------------------------------------------------------------------------
(* Runs: research and rechecks.                                            *)

\* save_source_content: a file that exists is left as it is.
SaveContent(r, p) ==
    /\ whole
    /\ writing[r] = {}
    /\ disk' = [disk EXCEPT ![r].pages = @ \union {p}]
    /\ writing' = [writing EXCEPT ![r] = {p}]
    /\ UNCHANGED <<row, command, retention, restore, whole>>

CreateSnapshot(r) ==
    /\ whole
    /\ writing[r] # {}
    /\ row' = [row EXCEPT ![r].pages = @ \union writing[r]]
    /\ writing' = [writing EXCEPT ![r] = {}]
    /\ UNCHANGED <<disk, command, retention, restore, whole>>

\* The research process is killed between the file and the row.
KillResearch(r) ==
    /\ writing[r] # {}
    /\ writing' = [writing EXCEPT ![r] = {}]
    /\ UNCHANGED <<row, disk, command, retention, restore, whole>>

\* The report is built, or built anew by a recheck.
BuildReport(r) ==
    /\ whole
    /\ row[r].pages # {}
    /\ row' = [row EXCEPT ![r].review = "PENDING"]
    /\ reopened' = reopened \union ({r} \intersect sweep)
    /\ UNCHANGED <<disk, writing, command, sweep, restore, whole>>

PublishReport(r) ==
    /\ whole
    /\ row[r].review = "PENDING"
    /\ row' = [row EXCEPT ![r].review = "PUBLISHED"]
    /\ UNCHANGED <<disk, writing, command, retention, restore, whole>>

\* The run's creation falls behind the cutoff.
Age(r) ==
    /\ whole
    /\ ~row[r].old
    /\ row' = [row EXCEPT ![r].old = TRUE]
    /\ UNCHANGED <<disk, writing, command, retention, restore, whole>>

-----------------------------------------------------------------------------
(* create_backup.                                                          *)

\* pg_dump: one consistent snapshot.
Dump ==
    /\ whole
    /\ making.at = "none"
    /\ dumps < MaxDumps
    /\ dumps' = dumps + 1
    /\ making' = [NoBackup EXCEPT !.at = "dumped", !.rows = row]
    /\ UNCHANGED <<row, disk, writing, backup, retention, restore, whole>>

ListRuns ==
    /\ making.at = "dumped"
    /\ LET found == {r \in Run : disk[r].pages # {}}
       IN  making' = [making EXCEPT !.at = "archiving", !.listed = found, !.left = found]
    /\ UNCHANGED <<row, disk, writing, backup, dumps, retention, restore, whole>>

ArchiveRun(r) ==
    /\ r \in making.left
    /\ disk[r].pages # {}
    /\ making' = [making EXCEPT !.files[r] = disk[r], !.left = @ \ {r}]
    /\ UNCHANGED <<row, disk, writing, backup, dumps, retention, restore, whole>>

\* The rows of a backup are those of its beginning.
KeptRowsVariantLate(b) == row
KeptRows(b) == b.rows

WriteManifest ==
    /\ making.at = "archiving" /\ making.left = {}
    /\ backup' = [making EXCEPT !.at = "complete", !.rows = KeptRows(making)]
    /\ making' = NoBackup
    /\ UNCHANGED <<row, disk, writing, dumps, retention, restore, whole>>

\* Killed, or a listed directory is gone: no manifest, so never restored.
BackupFails ==
    /\ making.at # "none"
    /\ making' = NoBackup
    /\ UNCHANGED <<row, disk, writing, backup, dumps, retention, restore, whole>>

-----------------------------------------------------------------------------
(* apply_retention with --include-artifacts --apply.                       *)

ExpiredVariantUnpublished(r) == row[r].old /\ row[r].review # "none"
Expired(r) == row[r].old /\ row[r].review = "PUBLISHED"

Select ==
    /\ whole
    /\ sweep = {}
    /\ sweep' = {r \in Run : Expired(r)}
    /\ sweep' # {}
    /\ UNCHANGED <<row, disk, writing, command, reopened, restore, whole>>

Takes(r, files) ==
    disk' = [disk EXCEPT ![r] = [pages |-> files, taken |-> @.taken \/ files # @.pages]]

RemoveRun(r) ==
    /\ r \in sweep
    /\ Takes(r, {})
    /\ sweep' = sweep \ {r}
    /\ reopened' = reopened \ {r}
    /\ UNCHANGED <<row, writing, command, restore, whole>>

\* Killed, perhaps within a directory.
RetentionKilled ==
    /\ sweep # {}
    /\ \E r \in sweep : \E files \in SUBSET disk[r].pages : Takes(r, files)
    /\ sweep' = {} /\ reopened' = {}
    /\ UNCHANGED <<row, writing, command, restore, whole>>

-----------------------------------------------------------------------------
(* restore_backup.                                                         *)

ToReplaceVariantAll == Run
ToReplace == backup.listed

\* psql replaces the rows; it may be killed half way.
RestoreRows ==
    /\ backup.at = "complete"
    /\ restore.at = "off" /\ making.at = "none" /\ sweep = {}
    /\ writing = [r \in Run |-> {}]
    /\ whole' = FALSE
    /\ \/ /\ row' = backup.rows
          /\ restore' = [at |-> "files", left |-> ToReplace]
       \/ /\ \E done \in SUBSET Run :
                row' = [r \in Run |-> IF r \in done THEN backup.rows[r] ELSE row[r]]
          /\ UNCHANGED restore
    /\ UNCHANGED <<disk, writing, command, retention>>

\* The directory of a run is removed, and the archived one put in its place.
ReplacedVariantMissing(r) == IF disk[r].pages = {} THEN backup.files[r] ELSE disk[r]
Replaced(r) == backup.files[r]

RestoreRun(r) ==
    /\ r \in restore.left
    /\ \/ /\ disk' = [disk EXCEPT ![r] = Replaced(r)]
          /\ restore' = [restore EXCEPT !.left = @ \ {r}]
       \/ /\ \E files \in SUBSET disk[r].pages : Takes(r, files)      \* killed
          /\ restore' = [at |-> "off", left |-> {}]
    /\ UNCHANGED <<row, writing, command, retention, whole>>

RestoreEnds ==
    /\ restore.at = "files" /\ restore.left = {}
    /\ restore' = [at |-> "off", left |-> {}]
    /\ whole' = TRUE
    /\ UNCHANGED <<row, disk, writing, command, retention>>

\* The host is lost, with the database and the files.
HostLost ==
    /\ row' = [r \in Run |-> NewRow]
    /\ disk' = [r \in Run |-> [disk[r] EXCEPT !.pages = {}]]
    /\ writing' = [r \in Run |-> {}]
    /\ making' = NoBackup
    /\ sweep' = {} /\ reopened' = {}
    /\ restore' = [at |-> "off", left |-> {}]
    /\ whole' = FALSE
    /\ UNCHANGED <<backup, dumps>>

-----------------------------------------------------------------------------
Next ==
    \/ \E r \in Run :
          \/ \E p \in Page : SaveContent(r, p)
          \/ CreateSnapshot(r) \/ KillResearch(r)
          \/ BuildReport(r) \/ PublishReport(r) \/ Age(r)
          \/ ArchiveRun(r) \/ RemoveRun(r) \/ RestoreRun(r)
    \/ Dump \/ ListRuns \/ WriteManifest \/ BackupFails
    \/ Select \/ RetentionKilled
    \/ RestoreRows \/ RestoreEnds \/ HostLost

Spec == Init /\ [][Next]_vars

-----------------------------------------------------------------------------
\* Every stored snapshot has its file, unless retention took files of its run:
\* while runs go on, after workers are killed, and after a restore of a backup
\* that was made while runs went on, even on a new host.  It hangs on two
\* orders: files before rows, and the dump before the archive.
EvidenceKept ==
    whole => \A r \in Run :
                 ~disk[r].taken => row[r].pages \union writing[r] \subseteq disk[r].pages

\* A restore that reports success has put back all rows and every archived
\* directory as they were, whatever an attempt that was killed before it left.
RestoresWhole ==
    [][~whole /\ whole' =>
          /\ row' = backup.rows
          /\ \A r \in backup.listed : disk'[r] = backup.files[r]]_vars

\* docs/operations.md:129-130: retention takes the files of published runs that
\* are past the cutoff.  Others keep theirs, but for a run whose report is built
\* anew between the selection and the removal.
TakesPublished ==
    [][\A r \in Run :
          whole /\ whole' /\ ~(disk[r].pages \subseteq disk'[r].pages) =>
              row[r].old /\ (row[r].review = "PUBLISHED" \/ r \in reopened)]_vars
=============================================================================
