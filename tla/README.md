# Verification of deep-research

TLA+ models of this repository (`app/`), the TLC runs that check them on small
instances and the theorems that TLAPS proves about them.

Contents: the system and its hazards; the modules and how they correspond to
the code; the runs, their bounds and what they show; fairness; the proofs; what
is only model-checked; what is not modelled; the plan.

## 1. The system

A user asks a question. The API stores a *run* and a row in a durable queue in
PostgreSQL; a *worker* leases the row and starts a *subprocess* that executes
the run as a LangGraph pipeline: a planner splits the question into tasks,
researchers search, fetch pages and extract claims, verifiers judge each claim
against the stored page, a writer composes a report that cites claims. People
then review claims and report, publish it, and ask for single claims to be
*rechecked* against the live source. A run usually grows out of a *draft*: the
user answers clarifications, edits the interpretation, adds materials and
confirms. Every mutating request may carry an idempotency key, most enqueue a
*webhook* that another worker delivers, and an operator backs up, restores and
cleans the database and the files.

| Component | State it keeps | Operations | Talks to | What makes it correct |
|---|---|---|---|---|
| Durable queue (`queue.py`) | `work_items`: status, lease, attempts, cancel/pause/finish requests, mark of a report pass | enqueue, claim, heartbeat, finish, pause, resume, finish early, cancel | API requests, workers, run status, webhooks, notifications | one executor per lease; requests honoured; failures only after all attempts; work settles |
| Worker (`worker.py`) | its identity, its subprocess | claim → start → poll/heartbeat → finish | queue; kills its subprocess | stops when the lease is lost or a request arrives |
| Run subprocess (`main.py`) | `research_runs.status` | RUNNING, final status, FAILED on error | pipeline, queue row (payload) | never hides a user's request; final status before exit |
| Run control (`api.py`) | - | pause, resume, finish, cancel, follow-up | queue, idempotency, webhooks | accepts only what the state allows |
| Pipeline (`graph.py`, `agents/`, `state.py`) | graph state, checkpoints | plan, research, join, verify, write | ledger, files, limits, models, web | completed work stays; report rests on accepted claims; honest end |
| Evidence ledger (`db/repositories.py`, `source_store.py`) | tasks, sources, snapshots, claims, verifications, reports, page files | upserts keyed by run, page, text | pipeline, rechecks | evidence before claims; no duplicates |
| Limits (`budget.py`) | counters of the run | consume, check | every external call | never exceeded by parallel calls |
| Review, publication (`operations.py`) | review statuses, decisions, published files | review claim/report, request research, publish, export | ledger, files | gate; what is published is what was approved |
| Rechecks (`rechecks.py`) | `claim_recheck_requests`, versions | request, execute, retry | queue, ledger, writer | request tells the outcome; old report archived first; report follows the evidence |
| Idempotency (`api.py`) | idempotency records, an advisory lock per key | look up, replay, conflict, expire, store | every mutating endpoint | one effect per key; every answer tells of it |
| Webhooks (`webhooks.py`) | subscriptions, deliveries | enqueue in a transaction; deliver, retry, give up | API, queue, subscribers | settled once and in the end; status true; attempts bounded |
| Drafts and materials (`api.py`, `research_drafts.py`, `research_inputs.py`) | drafts with revisions, materials with files | create, read, edit, settings, answer, add, remove, confirm | browser tabs, API clients, run creation | no lost edit; one run per draft, of what was seen; files stay with rows |
| Notifications (`notifications.py`) | notifications | write in the commit they tell of, read | drafts, queue | - |
| Backup, restore, retention (`maintenance.py`) | archives with manifest | back up, restore, clean up | database, `data/runs` | rows and files agree after everything; only published old runs are cleaned |
| Tenants, sessions, roles (`multitenancy.py`, `tenants.py`, `rbac.py`) | identities, sessions | log in, reset, revoke, authorize | API | revoked means revoked |
| Health, progress, observability, evaluation, dashboard, exports | events, views | read, render | everything | - |

**Hard behaviours.** Sessions run under READ COMMITTED with `autoflush=False,
expire_on_commit=False` (`db/session.py:30-34`); the mapper writes only columns
that changed with respect to what was loaded; several transactions decide on
rows they loaded without a lock (`finish_work`, `request_run_cancellation`,
`update_run_status`, all reviews). Workers and subprocesses are killed
independently. Leases expire while work goes on. Files are outside of
transactions and are replaced one by one. Executions are repeated after any
crash. Three families of endpoints commit in three different places with respect
to their idempotency record and webhook. Clients hold old copies of a draft and
send requests again when an answer is lost. `PROJECT.json` lists the hazards at
their lines, each with the properties that would catch it, or with the reason
why none does yet.

## 2. The modules

| Module | Models | State → code |
|---|---|---|
| `WorkItem` | a row of `work_items` and the functions of `queue.py` that compute its next value | record `Item` → columns; `expired` → `lease_expires_at < now()`; `early` → `payload["finish_early"]` |
| `RunContract` | abstract: what the queue promises the owner of a run | `phase`, `cancelling` |
| `RunLifecycle` | queue + workers + subprocesses' status writes + control requests, for one run | `item` → its row; `run` → `research_runs.status`; `worker`, `proc` → where each process is; `snap`, `request` → what an open transaction loaded; `lapsed`, `lateWrite` → histories |
| `WorkItemProofs` | lemmas about `WorkItem` that the next and `EditorialProofs` share | |
| `RunLifecycleProofs` | theorems about `RunLifecycle` | |
| `Pipeline` | executions of one run over the ledger, the page files and the limits | `task`, `output`, `claims`, `verdict`, `sources`, `stored`, `report` → tables; `file`, `files` → files; `proc`, `res` → graph state and researchers; `reopened`, `overlapped` → histories |
| `PipelineProofs` | theorems about `Pipeline` | |
| `Editorial` | reviews, publication, rechecks, rebuilds of a finished run's report | `review`, `verdict`, `snapshot`, `report`, `latest`, `request` → tables; `files`, `tmp`, `published` → files; `client`, `builder`, `exec` → open requests, writers, the recheck's subprocess; `approved`, `overtaken`, `rebuilt` → histories |
| `EditorialProofs` | theorems about `Editorial` | |
| `Idempotency` | an idempotency record as a value: what a request finds and leaves | `status` "expired" → `expires_at <= now()`; `hash` → the request hash |
| `OutboxContract` | abstract: what the webhook queue promises a subscriber | `owed`, `settled` |
| `Outbox` | requests with a key on several servers, the events they enqueue, webhook workers | `request` → where each handler is; `record`, `subscribed`, `delivery` → tables; `sender` → the delivery a worker has locked; `effects`, `answers`, `epoch`, `received` → histories |
| `OutboxProofs` | theorems about `Outbox` | |
| `Drafts` | one draft, its tabs and clients, its materials' files, its run | `draft`, `record`, `notice` → rows; `files` → `data/runs/draft-inputs`; `tab` → a client's copy; `sent`, `open` → requests that may still (or again) arrive; `told`, `applied` → histories |
| `DraftsProofs` | theorems about `Drafts` | |
| `Upkeep` | backup, restore, retention, next to runs that store evidence | `row` → rows of a run; `disk` → `data/runs/<id>`; `writing` → a file whose row is not committed; `making`, `backup` → archives; `sweep`, `restore` → commands under way |
| `UpkeepProofs` | theorems about `Upkeep` | |
| `MC*` | model values, symmetry | |

`RunLifecycle` and `Editorial` extend `WorkItem`; `Outbox` extends
`Idempotency`. `RunLifecycle` instantiates `RunContract` with the phase its row
is in, `Outbox` instantiates `OutboxContract` with the deliveries by status.
`Outbox` sees of an operation only where it commits: what it does is an action
of `RunLifecycle`, `Editorial` or `Drafts`, each a transaction there too.
`Upkeep` sees of a run only when its files and its rows appear, in the order in
which `Pipeline`'s `SavePage` and `SnapshotPage` write them. `Pipeline` refines
the subprocess that `RunLifecycle` only sees from outside: `RunLifecycle` says
when executions start, overlap and are killed; `Pipeline` allows all of that at
any step. The two agree on `resolve_run_status` and on `--finish-early` being
given only to a run with a completed task.

One action stands for what the code does between two points at which others
can interfere: a transaction under a lock is one action; a transaction that
reads without a lock and writes later is two. Between the two, other processes
commit as they like. The constant `Overlap` restricts one kind of transaction
only: in `RunLifecycle` those of the queue (`finish_work` and control requests)
with respect to one another, in `Editorial` reviewers' requests with respect to
one another. `FALSE` serialises that kind, for properties that its overlap is
known to break (`RunLifecycle_cancel` and `Editorial_gate` show how). It never
holds back a status write, a recheck's commit or a rebuild: a history variable
records where one of these replaced, or met, what an open transaction had
loaded. `Column(current, old, new)` is the
mapper's rule for unchanged columns. Time, texts, prompts, page bodies and
hashes are abstracted to what decisions distinguish. Operators whose name
contains `Variant` are the neighbour below them with one plausible slip; no
specification uses them, and each property is shown to tell its pair apart.

### RunLifecycle

`Claim`, `Poll`, `HeartbeatKept/Refused`, `FinishRead/Lost/Commit` are
`run_once` with `claim_next_work`, `heartbeat_work` and `finish_work`;
`MainStart/Task/Report/Final/Error` and `StatusCommit` are `main --resume`
with `update_run_status` as a read and a commit (`StatusCommit` notes in
`lateWrite` that it replaced a status it had not read; the next transaction of
the queue that sets the status clears it); `Ask` and
`Pause/Resume/FinishEarly/Cancel/Rejected` are a control request that loads the
run, then locks and answers (cancellation never locks); `FollowUp` reopens a
run; `Crash`, `ProcDies`, `ExpireLease` are the environment. A crashed worker's
identity is never used again (`default_worker_id`); its subprocess runs on.

### Pipeline

`Start`, `Kill`, `Abort` frame an execution; `PlanAsk` and `PlanCreate` are the
two halves of `create_plan`, with the model's call in between; a researcher goes
`ResearchBegin` → `Search` → (`FetchPage` → `OpenPage` → `SavePage` →
`StorePage` → `SnapshotPage`)* → `Generate` → (`ClaimLookup` → `ClaimInsert`)* →
`ResearchEnd`, or fails at any of them; `Join`, `VerifyBegin/Commit/Fails`,
`WriterBegin`, `WriteFiles`, `StoreReport`, `Finish` follow. The semaphores of
`_bounded_node` bound active researchers and verifiers. `FetchPage` is
`path.exists()`, `OpenPage` the open that truncates, `SavePage` the end of the
write: any other researcher may come in between, and `reopened` names the pages
whose file was opened when it was there already. `Abort` ends an execution from
any phase, once its other branches have returned; `LimitEnds` is the limit met
by planner or writer. Models and pages answer anything that `_validate_evidence`
and `validate_writer_draft` let through. One `Spend` stands for all queries of a
search, and for tokens and run time too.

### Editorial

A reviewer's request opens (loads) and commits; publishing loads the report
(`Publish`), reads and checks each file (`PublishRead`, `PublishCheck`), replaces
each copy (`PublishMd`, `PublishJson`) and commits (`CommitPublish`). A writer
reads the evidence (`BuildRead`), writes two temporary files (`BuildMdTmp`,
`BuildJsonTmp`), renames them (`BuildMd`, `BuildJson`) and stores the row
(`BuildStore`), for a recheck or for `ops rebuild-report`. Both writers use the
same temporary names (`tmp`): one may rename what the other wrote, or find it gone
and raise (`BuildEnds`, `BuildRaises`). All of this interleaves; `overtaken`
records that the present report was marked by a request that had loaded the one
before it. A recheck goes `Take` → `Begin` → `Originals` →
`Fetch` → `Verify`* → `Compare` → `Archive` → build → `Version` → `Complete` →
`FinishWork`, with exceptions (`Raise`, also after the last commit), kills and
lost workers anywhere.

### Outbox

An operation is a request as its client means it; a record knows only its hash
(`Hash`), and that of a follow-up leaves the run out, so two of `FollowUp` may
share one. A handler looks its key up under the advisory lock (`Replay`, `Refuse` or
`Begin`), and then refuses (`Reject`), or commits. `Whole` operations commit
effect, record and event together (`Apply`). Reviews and publication (`Apart`)
commit in a session of their own (`ApplyFirst`), then store record and event
(`Store`) while the first session holds the lock. Cancellation (`Early`) commits
in the handler's own session, which ends the lock and makes the deletion of an
expired record permanent. `Duplicate` is the unique constraint, `Die` a server
that dies between two commits, `Expire` the passing of 24 hours. `WorkEnds` is
the event of `finish_work`. `Send` and `Settle` are `deliver_next`: the row is
locked (`SKIP LOCKED`) while the event is posted; `Kill` rolls back.

### Drafts

Every mutation locks the draft's row, so it is one action: `Create`, `Update`,
`UpdateSettings`, `AnswerClarification`, `CreateMaterial`, `DeleteMaterial`,
`Confirm`, with `Refuse` for everything their guards turn down and `Replay` for
a key whose response is stored. Requests wait in `open` and may overtake each
other; `Answers` lets every answer be lost, and a keyed request then stays in
`open`. Reading a draft is two steps (`LoadRow`, `LoadMaterials`), as
`_research_draft_payload` loads the materials in a later statement. Files are
written before the commit (`DieInCreate`, `CommitLost`) and removed after it
(`Unlink`, `DieBeforeUnlink`).

### Upkeep

`SaveContent` writes a file, `CreateSnapshot` its row. A backup is `Dump` →
`ListRuns` → `ArchiveRun`* → `WriteManifest`; retention is `Select` →
`RemoveRun`*; a restore is `RestoreRows` → `RestoreRun`* → `RestoreEnds`. Each
may be killed at every step, retention and restore within a directory too, and
the host may be lost. The preconditions are those of `docs/operations.md`
(91-103): no worker and no other command runs from the start of a restore until
one is complete, and backups survive the host.

## 3. The runs

| Run | Question | Bounds | States |
|---|---|---|---|
| `RunLifecycle_safety` | types, the status tells the request, ends agree, one executor, right mode, what waits can be claimed, failures are declared late, `RunContract` is implemented | 2 workers, 1 request at a time, 3 requests, 2 attempts, no worker killed, 1 stall | 1.7 M |
| `RunLifecycle_liveness` | `RequestsHonoured` (cancel, pause, early finish); work settles | 2 workers, 2 requests, 2 attempts, 1 crash, no stall | 0.25 M |
| `RunLifecycle_lost` | violated: a task is lost with the worker of its last attempt | 1 crash | |
| `RunLifecycle_cancel` | violated: a cancellation that overlaps `finish_work` is lost | 2 requests, overlapping | |
| `Pipeline_overlap` | limits, evidence before claims, no duplicate claims, with two executions at once | 2 processes, 1 task, 1 page, 2 texts, 7 requests, 2 claims | 1.0 M |
| `Pipeline_resume` | `NothingRedone` (completed tasks and verdicts stay), report supported, honest end, every execution ends | 1 process started 3 times, 2 parallel tasks, 2 pages, 1 source, 1 claim, 8 requests | 0.35 M |
| `Editorial_review` | gate, whole publications, archive first, rechecks end once, agree, settle; the report follows | 1 claim, 1 reviewer, 1 recheck, 2 attempts, and one of: 1 decision, a new page, failures; 2 decisions, failures; 2 decisions, 1 rebuild | 0.9 M |
| `Editorial_gate` | violated: overlapping reviews leave the gate open | 2 reviewers, 4 decisions, overlapping | |
| `Editorial_rejected` | violated: a rejected claim is cited in the next report | 1 decision, 1 rebuild | |
| `Outbox_keys` | one effect per key, answers agree, deliveries honest, `OutboxContract` (with its liveness) is implemented | 2 handlers, 2 identities, 1 key, 5 operations of the three shapes (two follow-ups with one hash), 3 effects, 3 requests, 1 expiry, 1 death; 1 subscriber, 2 webhook workers, 2 attempts, 1 kill | 0.75 M |
| `Drafts_tabs` | no lost edit, one run as seen, saved texts stand, files stay, answers true | 2 tabs, 4 requests, 1 text, 1 setting, 1 upload, 1 question, room for 1 material, 1 lost answer or death | 2.1 M |
| `Upkeep_backup` | evidence keeps its files, restores are whole, retention takes published runs only | 2 runs, 1 page each, 1 backup, any number of kills, restores and lost hosts | 0.7 M |

Why the bounds are enough for what the runs say. Two workers give every
takeover: an owner and a successor; a third would repeat the second. Two
attempts have both a retry and a last attempt (the code's 3 adds a second
retry); three requests give every ordered combination of pause, resume, finish,
cancel and follow-up that differ in effect pairwise and one more. A worker that
stalls meets every step of the other processes and, once its lease was taken
over, leaves them what a killed one leaves, an orphaned subprocess included;
that a killed one never comes back matters to liveness, and is met there. In
`Pipeline`, limits are set just below what the two tasks or processes could use,
so each limit is reached in some behaviours and not in others. In `Editorial`
claims start pending or approved, so that two decisions can approve and publish,
or approve and take back, around a recheck that is killed and tried again, or
while a recheck and a rebuild write at once; the three budgets of the run are
named in `MCEditorial`. In `Outbox`, three requests are a first one, its
repetition, and one after the record expired, or a request of another identity
or operation; two handlers meet at every step. In `Drafts`, four requests are
the creation and three more: two tabs can each change the draft and a third
request can meet what they left (an answer, an edit and a confirmation; an
upload, its removal and the same upload again). In `Upkeep` two runs let a
command be killed between two directories; the second page of a run would add
nothing, as files of a run are taken or kept one by one only when a command is
killed within a directory. All theorems of section 5 hold without any of these
bounds. The passing runs fire every action between them.

What the violations show is stated in `PROJECT.json` under "findings", each with
the sentence of the documents or tests that the code does not keep. Other places
where code and documents part, met while modelling, have no run of their own:

* A status write hides a request that was accepted between its read and its
  commit (`main.py:46-62`, against its own early return for held statuses): the
  item carries the pause or cancellation, for `finish_work` to see, while the run
  reads `RUNNING` or final. If a lease ran out, the orphaned subprocess can do
  so even after the item is paused or cancelled. `StatusTellsRequest` excludes
  exactly such writes (`lateWrite`).
* Two researchers that both find no file of a page: the one that opens it later
  truncates what the other wrote, on which claims may rest by then, and if it is
  killed there the file stays torn (`source_store.py:42-56`). `EvidenceFirst`
  excludes exactly the files opened again (`reopened`); that the snapshot's row
  is stored it says of all.
* A publication or an approval loads the report, a recheck or a rebuild stores
  another, and the commit marks that one (`operations.py:174`): a report nobody
  approved is `APPROVED`, or `PUBLISHED` while the published files are its
  predecessor's (against `README.md:230-231`). The properties exclude exactly
  reports marked that way (`overtaken`).
* Two writers of one report share `report.md.tmp` and `report.json.tmp`
  (`writer.py:872`): the files may be of different writers, or one writer fails.
  The hash check refuses to publish such a pair, which `PublishedWhole` relies on.
* The hash of a follow-up leaves the run out (`api.py:2328-2332`): the same
  question with the same key to another run is answered `202` with the first run's
  follow-up, and never asked, where `docs/research-pipeline-roadmap.md:316` has
  mutating requests protected by their keys. `AnswersAgree` excludes exactly this.
* An exception after a recheck's last commit (`rechecks.py:452-457`) puts the
  completed request back: the next attempt fetches and verifies again, and in the
  last attempt the request ends as failed. `CompletedOnce` speaks of requests as
  long as they are completed.
* A pause accepted after the last heartbeat of a run that ends: the work item is
  `SUCCEEDED`, the run reads `PAUSE_REQUESTED` for good
  (`docs/operations.md:46-48`); `EndAgrees` names this outcome.
* A `finish_work` that loaded the row while its lease was good, and writes it
  after another worker took the row over for its last attempt, puts it back in
  the queue with no attempt left: the row waits for ever. `WaitingClaimable`
  excludes it by `Overlap = FALSE`.
* A page file torn by a kill makes every later attempt that meets it fail its
  task: `save_source_content` raises and nothing repairs the file
  (`docs/research-pipeline-roadmap.md:173`). `Pipeline` has such files.
* A recheck that failed after it stored new evidence finds nothing changed when
  it is retried and leaves the old report; `ReportFollows` is about the first
  attempt.
* Publication and reviews retried after a server died between two commits are
  applied again, and their event is lost
  (`docs/research-pipeline-roadmap.md:331`); `AppliedOnce` excludes deaths there.
* A material whose commit succeeded but was not confirmed loses its file
  (`api.py:1565`); `FilesKept` excludes it.
* A run whose report is built anew between retention's selection and its removal
  loses its files though it is under review again; `TakesPublished` excludes it.

Deadlock is not checked: a run that has ended, with the bounds used up, stops.

## 4. Fairness

* A worker's own steps and its subprocess's steps are weakly fair: `worker.py`
  loops until it is killed; every external call has a timeout and bounded
  retries (`resilience.py`), and a heartbeat follows within five seconds.
  Progress of the single task (`MainTask`), errors and deaths are not fair.
* A request that has begun is answered. Users need not act.
* The lease of a *dead* worker runs out (time passes). Leases of live workers
  need not.
* In `Pipeline`, an execution that is not killed takes some step; which of
  several possible steps is free, so a failure is never excluded nor forced.
  Executions need not be started or killed.
* In `Editorial`, the recheck's worker and its subprocess go on. Reviewers'
  requests, rebuilds, failures and kills are unfair.
* In `Outbox`, a webhook worker that can take a step takes one (it polls for
  ever, a post has a timeout, killed workers are started again), and the time of
  the next attempt comes. Handlers need not go on, nor subscribers answer.
* `Drafts` and `Upkeep` are about people: no fairness is stated, and no liveness.

## 5. The proofs

TLAPS checks each theorem for every value of the constants, from the assumptions
named in the modules. All follow one pattern: an inductive invariant, shown to
hold initially and to be kept by every step, and theorems that read it off. Each
invariant was checked by TLC before it was proved.

**`RunLifecycleProofs`**

1. `TypeCorrect`: `TypeOK` is inductive.
2. `LeaseOwned`: `LeaseHasOwner` with no assumption on `Overlap`. It needs
   `CommitsOwnLease`: a `finish_work` that loaded a row loaded a leased one of
   its own, so the row it writes is never leased.
3. `Serial` (assumes `Overlap = FALSE`, as do 4 to 9): `Fresh` (the row that an
   open transaction of the queue loaded is still stored) and `Exclusive` (at
   most one is open). Status writes may change the run in between; `Loaded` says
   of what status such a transaction may start from. From it, lemma `SerialRow`
   reduces each step's effect on row and status to one of nine named kinds
   (`RowStep`), and the remaining proofs are case splits over these instead of
   over some twenty actions.
4. `CancelKept`, `StatusTruthful`: `RequestInv` is inductive relative to
   `SerialInv`. `StatusTellsRequest` is not inductive by itself: it needs that a
   status write under way has read a status that no user holds, so that it
   either finds that status again or sets `lateWrite`; that while no lease has
   run out a subprocess writes only while the row is leased (`SinglyExecuted`'s
   invariant), so not once a request took effect; what `finish_work` and control
   requests loaded (`Loaded`), since a status written since then survives their
   commit if they do not change it; and that a pending cancellation is on a
   leased or cancelled row.
5. `FailureDeclared`: an action property, from the same invariant.
6. `ContractKept`: the initial states map to `ContractInit`, each `RowStep` to a
   step of `RunContract` or a stutter.
7. `SinglyExecuted`: `ExecutionInv` relates a live subprocess to the phase of
   its worker and to the lease.
8. `EndTold`: `EndAgrees` looks at an ended item, long after what makes it true.
   `EndInv` carries it there: a worker finishes only a subprocess that has exited
   (`ProcParts`); a run whose work is not over does not read as stopped
   (`RunParts`); and as soon as the owner's subprocess has exited well, and no
   cancellation is pending, the run reads completed or `PAUSE_REQUESTED`
   (`ExitsTold`), which no step undoes before `finish_work` commits. That last
   step needs `SinglyExecuted`'s invariant: no other process may write.
9. `WaitsForAClaim`: `WaitingClaimable` needs `AttemptsInv`, which says of paused
   rows what it says of waiting ones and that a lease has used an attempt, so
   that one can be given back; that no cancellation waits comes from `CancelKept`.
10. `ModeKept`: `ModeMatches` with no assumption on `Overlap`, from `OwnerInv`
   alone: the mark is written when nobody owns the row, and no transaction that
   loaded the row earlier writes mark or owner of a lease.

`CancelKept` against the run `RunLifecycle_cancel` says precisely what is at
stake: the overlap of unlocked transactions is the only way to lose a
cancellation.

**`WorkItemProofs`** says what each queue function does to a row: its type, the
columns it sets and those it leaves. Both modules that extend `WorkItem` cite it.

**`PipelineProofs`**. `RunInv` holds however executions overlap:

* `EvidenceInv` follows a page from `SavePage` to a claim: a researcher about to
  store a page has its file whole, and what it may still quote is stored and
  whole, unless the file was opened again (`OnEvidence`). `EvidenceFirst` alone
  says nothing of a claim about to be inserted. From it: `EvidenceBeforeClaims`.
* `LedgerInv`: claims are numbered without gaps up to their count (`Numbered`),
  so a new row's number is new, a verdict stays with its claim and the count
  bounds the claims. From it: `NoDuplicateClaims`, and `LimitsKept` (requests,
  sources and claims stay within the limits).

`SoloInv` holds until two executions have overlapped: there is one execution
(`Alone`), it works on tasks that are not completed (`FreshTasks`) and checks
claims that have no verdict (`FreshClaims`), what its writer was given agrees
with the tables (`PacketTrue`), and a stored report rests on supported claims
(`SupportedOnly`). From it: `WorkStands`, `SupportedReport`, `HonestEnd`. An
overlap really breaks these: two executions verify one claim twice, with two
verdicts. The researcher's fourteen actions are first shown to have one common
effect on what the invariants mention (`ResearchStepEffect`), those of planner,
verifier and writer another (`OtherEffect`); the case splits are over these.

**`EditorialProofs`**. `TypeInv` is `TypeOK` and that a decision is one of what is
decided on (`DecisionsFit`), for `EditorialTypes`. Then one invariant per actor:

* `ReviewParts` (assumes `Overlap = FALSE`): one reviewer's request is open
  (`OneOpen`); what it loaded is still so, and a publication has copied what it
  checked (`LoadedTrue`), unless a report was stored since: that one nobody has
  reviewed yet (`Loaded`), and if the request marks it, it is `overtaken`. From
  it: `GateHolds`, `PublishedInFull`. Rechecks, rebuilds and deaths interleave
  freely: the assumption restrains only reviewers' requests. `Editorial_gate`
  shows that without the assumption the gate fails.
* `RecheckParts`, with no assumption: a recheck's row carries no request of a
  user (`NoRequests`), so `finish_work` can only end or retry it; its subprocess
  runs on a leased row, works only while the request is `RUNNING`, and exits well
  only after the request is completed (`ExecAgrees`). From it:
  `RequestsTellTheEnd`, `CompletedIsFinal`.
* `VersionParts`: while no operator rebuilds, a recheck that builds has archived
  the report it replaces, through every kill and retry. From it:
  `ReplacedIsArchived`.
* `FollowParts` says, for each phase of a first attempt, how report, evidence and
  what the subprocess remembers relate: equal before the fetch, the report equal
  to what is remembered until the comparison, the draft equal to the evidence
  while it is built, all equal at the end. From it: `FollowsEvidence`.

**`OutboxProofs`** (`OutboxTypes`, `OneEffect`, `OneAnswer`, `HonestDeliveries`,
`PromiseSafe`). `OutboxInv` has a part for keys and one for deliveries.
`AppliedOnce` alone is not inductive: that a second effect cannot come needs
that every effect of the present epoch has its record, or a request at work that
holds the lock and will store it (`EffectsOnRecord`), that who is at work under
the lock is therefore the first (`WorkIsFirst`), and that what a request found
is still so (`RequestsSee`). Answers agree because those of the present epoch
are the one on record (`AnswersOnRecord`), and records, effects and answers are
matched by hash: that an answer is of its own operation, follow-ups excepted,
comes at the end from what is assumed of `Hash`. For deliveries, at most one
worker has a row, which is pending meanwhile (`SendersApart`), and an event is
enqueued once (`EventsOnce`). `PromiseSafe` maps every step to a step of
`OutboxContract` or a stutter; its liveness stays with TLC.

**`DraftsProofs`** (`DraftsTypes`, `OneRun`, `HonestAnswers`, `UploadsStay`,
`LostEditsNever`, `SavedTextStays`). The heart is `CopiesTrue`: no copy in a
tab, a request or a stored response is ahead of the draft, and one of the
draft's revision has the draft's content; it is inductive because every change
of content is a new revision, and because of a copy that is half read only the
row is claimed (`RowTrue`). `EffectsOver` says that what took effect is over or
on record, so that nothing is applied or told twice; `Counted` bounds revisions
by requests; `TextSettled` says that clarifications are over before a text is
saved, from which `SavedTextStays` follows. `FilesApart` keeps files that are to
be removed apart from those of the draft.

**`UpkeepProofs`** (`UpkeepTypes`, `EvidenceStays`, `RestoreComplete`,
`RetentionHonest`). `FilesInv` follows the evidence through a backup: as long as
a run is not archived its dumped rows rest on its directory (`DumpRests`), later
on the archived one; so does the last backup (`BackupRests`); and a restore
under way has the dumped rows and, for each directory it replaced, the archived
files (`RestoreAgrees`). `Quiet` is what the operator's instructions ask for.

Every invariant and action property of the passing runs is stated by a theorem,
and so is the safety part of both refinements. Only model-checked: liveness
(`RequestsHonoured`, `WorkSettles`, `ExecutionEnds`, `RecheckSettles`,
`Delivers`), as TLAPS has no reasoning here about fairness and ENABLED. What
the theorems under `Overlap = FALSE` lose without it is shown by
`RunLifecycle_cancel` and `Editorial_gate`, and told in section 3; what they
except even with it (`lateWrite`, `overtaken`) is told there too.

## 6. What is not modelled, and why

* Texts, prompts, quotes, hashes, URL handling, page extraction: data. A page is
  one value; its file is absent, torn or whole. The pure validators over text
  (`_validate_evidence`, `validate_writer_draft`) appear as the sets of answers
  they allow. So do the choice of clarification questions and the extraction of
  text from materials.
* Access control: tenants, password resets, browser sessions and roles. Every
  request is taken as authenticated and authorised. Each of these operations is
  one transaction on one identity.
* `max_run_seconds`, backoff delays and time in general: "the lease has run
  out", "due later", "expired" and "old" are states that come at any moment.
* A second researcher that reads a page's file while another writes it in the
  same process gets the same error as a torn file; `FetchMismatch` covers both.
* In `Editorial`: several sources, other executions of the same run, a recheck
  executed twice at once by an orphan and its successor, two publications at once
  (which share `published.*.tmp`), the follow-up task a research request stores.
* In `Outbox`: several tenants (keys and subscriptions are per tenant, and
  tenants do not meet), the filter of events by subscription, signatures.
* In `Drafts`: several drafts (each has its own row), other owners, and the
  validation of inputs.
* In `Upkeep`: telemetry rows (deleted by age alone), the published copies and
  the directory of draft materials (archived like a run's), checksums other than
  as "the backup is complete", and reports, which unlike pages are replaced in
  place: a report built between dump and archive is restored newer than its row.
* Notifications of a run's end, written in the commits of `WorkEnds`.
* Report questions, progress, health, observability, evaluation, the library,
  exports and the dashboard's rendering read what is modelled and decide nothing.
* Runs started from the command line without a queue row.

## 7. Plan

Done: `WorkItem`, `RunContract`, `RunLifecycle`, `Pipeline`, `Editorial`, `Outbox`,
`Drafts` and `Upkeep`, all with proofs.

Next, in this order:

1. Proofs of what holds when the queue's transactions, or reviewers' requests,
   overlap with one another: which parts of `StatusTellsRequest` and of the gate
   survive.
2. `Editorial` with orphaned recheck subprocesses, follow-up versions, and the
   task that a request for more research stores.
3. `Sessions`: password reset, deactivation, revocation against requests under
   way.
4. Pure operators checked against reference definitions: `run_progress`,
   `is_retryable_error` and backoff, report status.
