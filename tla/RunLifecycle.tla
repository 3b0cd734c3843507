---------------------------- MODULE RunLifecycle ----------------------------
(***************************************************************************)
(* One research run and its work item: the queue functions of app/queue.py *)
(* called by worker processes (app/worker.py) and by API requests          *)
(* (app/api.py), and the status writes of the subprocess a worker starts   *)
(* (app/main.py).                                                          *)
(*                                                                         *)
(* The transactions that take no row lock before they decide (finish_work, *)
(* request_run_cancellation, update_run_status, and the first read of the  *)
(* run in the control endpoints) are two steps, a read and a commit.       *)
(* Anything may happen between the two steps of a status write.  Overlap   *)
(* says whether, in between those of finish_work and of a control request, *)
(* other transactions of the queue may run too, or status writes alone.    *)
(***************************************************************************)
EXTENDS WorkItem

CONSTANTS
    Client,        \* API requests under way at the same time
    Overlap,       \* may the queue's unlocked transactions overlap with each other?
    MaxOps,        \* bound: control requests and follow-ups of a behaviour
    Mortal,        \* bound: the worker processes that may be killed
    MaxStalls      \* bound: leases a live worker lets run out

ASSUME OverlapAssumption == Overlap \in BOOLEAN
ASSUME BoundsAssumption == {MaxOps, MaxStalls} \subseteq Nat

VARIABLES
    item,          \* the row of work_items
    run,           \* research_runs.status
    tasksDone,     \* at least one research task is COMPLETED
    report,        \* a research report is stored
    worker,        \* worker[w]: where process w is in run_once
    proc,          \* proc[w]: the subprocess w started last
    snap,          \* snap[w]: what w's open finish_work loaded
    request,       \* request[c]: what c's open API request loaded
    ops,           \* control requests so far
    stalls,        \* leases of live workers that ran out so far
    lapsed,        \* some lease has run out (history)
    lateWrite      \* a status write replaced a status it had not read (history)

vars == <<item, run, tasksDone, report, worker, proc, snap, request, ops,
          stalls, lapsed, lateWrite>>

outputs == <<tasksDone, report>>
counters == <<ops, stalls, lapsed, lateWrite>>

WorkerPhase == {"idle", "polling", "sleeping", "finishing", "committing", "crashed"}
ProcPhase == {"none", "started", "graph", "reported", "writing", "exited"}
Operation == {"pause", "resume", "finish", "cancel"}

\* result is the status the process wants to write, and once it has exited the
\* one that gives its exit code: FAILED for a non-zero code.
Proc == [phase : ProcPhase, early : BOOLEAN, result : RunStatus, seen : RunStatus]
Snapshot == [item : Item, run : RunStatus]
Request == [op : Operation \union {"none"}, item : Item, run : RunStatus]

NoProc == [phase |-> "none", early |-> FALSE, result |-> "CREATED", seen |-> "CREATED"]
NoSnapshot == [item |-> NewItem, run |-> "CREATED"]
NoRequest == [op |-> "none", item |-> NewItem, run |-> "CREATED"]

TypeOK ==
    /\ item \in Item
    /\ run \in RunStatus
    /\ tasksDone \in BOOLEAN
    /\ report \in BOOLEAN
    /\ worker \in [Worker -> WorkerPhase]
    /\ proc \in [Worker -> Proc]
    /\ snap \in [Worker -> Snapshot]
    /\ request \in [Client -> Request]
    /\ ops \in Nat
    /\ stalls \in Nat
    /\ lapsed \in BOOLEAN
    /\ lateWrite \in BOOLEAN

\* A run and its queue row are created in one transaction.
Init ==
    /\ item = NewItem
    /\ run = "CREATED"
    /\ tasksDone = FALSE
    /\ report = FALSE
    /\ worker = [w \in Worker |-> "idle"]
    /\ proc = [w \in Worker |-> NoProc]
    /\ snap = [w \in Worker |-> NoSnapshot]
    /\ request = [c \in Client |-> NoRequest]
    /\ ops = 0
    /\ stalls = 0
    /\ lapsed = FALSE
    /\ lateWrite = FALSE

\* The queue's transactions between their read and their commit.
OpenTransaction ==
    \/ \E w \in Worker : worker[w] = "committing"
    \/ \E c \in Client : request[c].op # "none"

MayBegin == Overlap \/ ~OpenTransaction

\* A transaction of the queue that loaded the run as seen commits this status.
SetRun(seen, status) ==
    /\ run' = Column(run, seen, status)
    /\ lateWrite' = (lateWrite /\ status = seen)

Alive(w) == proc[w].phase \notin {"none", "exited"}

Crashed == {w \in Worker : worker[w] = "crashed"}

-----------------------------------------------------------------------------
(* The worker process: run_once and execute_work_item.                     *)

Claim(w) ==
    /\ MayBegin
    /\ worker[w] = "idle"
    /\ Claimable(item)
    /\ item' = Claimed(item, w)
    /\ worker' = [worker EXCEPT ![w] = "polling"]
    /\ proc' = [proc EXCEPT ![w] = [NoProc EXCEPT !.phase = "started",
                                                  !.early = item.early]]
    /\ UNCHANGED <<run, outputs, snap, request, counters>>

\* process.poll(): the exit is noticed only here, right after a heartbeat.
Poll(w) ==
    /\ worker[w] = "polling"
    /\ worker' = [worker EXCEPT
                    ![w] = IF proc[w].phase = "exited" THEN "finishing" ELSE "sleeping"]
    /\ UNCHANGED <<item, run, outputs, proc, snap, request, counters>>

HeartbeatKept(w) ==
    /\ MayBegin
    /\ worker[w] = "sleeping"
    /\ KeepsLease(item, w, proc[w].early)
    /\ item' = [item EXCEPT !.expired = FALSE]
    /\ worker' = [worker EXCEPT ![w] = "polling"]
    /\ UNCHANGED <<run, outputs, proc, snap, request, counters>>

\* The lease is lost or the user asked to stop: the subprocess is terminated,
\* and its result is failure even if it had just ended well.
HeartbeatRefused(w) ==
    /\ MayBegin
    /\ worker[w] = "sleeping"
    /\ ~KeepsLease(item, w, proc[w].early)
    /\ worker' = [worker EXCEPT ![w] = "finishing"]
    /\ proc' = [proc EXCEPT ![w] = [@ EXCEPT !.phase = "exited", !.result = "FAILED"]]
    /\ UNCHANGED <<item, run, outputs, snap, request, counters>>

\* finish_work loads the row and the run ...
FinishRead(w) ==
    /\ MayBegin
    /\ worker[w] = "finishing"
    /\ Owns(item, w)
    /\ snap' = [snap EXCEPT ![w] = [item |-> item, run |-> run]]
    /\ worker' = [worker EXCEPT ![w] = "committing"]
    /\ UNCHANGED <<item, run, outputs, proc, request, counters>>

\* ... or raises "Worker no longer owns the lease".
FinishLost(w) ==
    /\ MayBegin
    /\ worker[w] = "finishing"
    /\ ~Owns(item, w)
    /\ worker' = [worker EXCEPT ![w] = "idle"]
    /\ proc' = [proc EXCEPT ![w] = NoProc]
    /\ UNCHANGED <<item, run, outputs, snap, request, counters>>

\* A failed item's run keeps its status.
RunAfterVariantKeeps(outcome, r) ==
    CASE outcome \in {"CANCELLED", "PAUSED"} -> outcome
      [] outcome = "FINALIZE"                -> "CREATED"
      [] OTHER                               -> r

RunAfter(outcome, r) ==
    CASE outcome \in {"CANCELLED", "PAUSED", "FAILED"} -> outcome
      [] outcome = "FINALIZE"                          -> "CREATED"
      [] OTHER                                         -> r

FinishCommit(w) ==
    LET old     == snap[w].item
        outcome == Outcome(old, proc[w].result # "FAILED")
    IN  /\ worker[w] = "committing"
        /\ item' = [Written(item, old, Finished(old, outcome)) EXCEPT !.expired = FALSE]
        /\ SetRun(snap[w].run, RunAfter(outcome, snap[w].run))
        /\ worker' = [worker EXCEPT ![w] = "idle"]
        /\ proc' = [proc EXCEPT ![w] = NoProc]
        /\ snap' = [snap EXCEPT ![w] = NoSnapshot]
        /\ UNCHANGED <<outputs, request, ops, stalls, lapsed>>

\* The worker process is killed; its subprocess, if any, runs on.  The identity
\* is never used again (default_worker_id), so a restart is another worker.
Crash(w) ==
    /\ worker[w] # "crashed"
    /\ w \in Mortal
    /\ worker' = [worker EXCEPT ![w] = "crashed"]
    /\ snap' = [snap EXCEPT ![w] = NoSnapshot]
    /\ UNCHANGED <<item, run, outputs, proc, request, counters>>

\* Nobody renewed the lease in time: its owner is dead, or was held up (bound
\* MaxStalls: a live worker renews every 5 s a lease of at least 10 s).
ExpireLease ==
    /\ MayBegin
    /\ item.status = "LEASED"
    /\ ~item.expired
    /\ \/ item.owner \in Crashed /\ UNCHANGED stalls
       \/ item.owner \notin Crashed /\ stalls < MaxStalls /\ stalls' = stalls + 1
    /\ item' = [item EXCEPT !.expired = TRUE]
    /\ lapsed' = TRUE
    /\ UNCHANGED <<run, outputs, worker, proc, snap, request, ops, lateWrite>>

-----------------------------------------------------------------------------
(* The subprocess: python -m app.main --resume <run> [--finish-early].     *)

\* Only the cancelled statuses are protected.
HeldStatusVariantCancel == {"CANCEL_REQUESTED", "CANCELLED"}

\* Statuses update_run_status never overwrites.
HeldStatus == {"PAUSE_REQUESTED", "PAUSED", "CANCEL_REQUESTED", "CANCELLED"}

AfterWrite(status) == IF status = "RUNNING" THEN "graph" ELSE "exited"

\* update_run_status reads the run, without a lock, and writes unless a user
\* holds it.
UpdateRunStatus(w, status) ==
    proc' = [proc EXCEPT ![w] =
               IF run \in HeldStatus
               THEN [@ EXCEPT !.phase = AfterWrite(status), !.result = status]
               ELSE [@ EXCEPT !.phase = "writing", !.result = status, !.seen = run]]

\* Whatever the run has become in the meantime, the status is written.
StatusCommit(w) ==
    LET seen   == proc[w].seen
        result == proc[w].result
    IN  /\ proc[w].phase = "writing"
        /\ run' = Column(run, seen, result)
        /\ lateWrite' = (lateWrite \/ (run # seen /\ result # seen))
        /\ proc' = [proc EXCEPT ![w] = [@ EXCEPT !.phase = AfterWrite(result),
                                                  !.seen  = "CREATED"]]
        /\ UNCHANGED <<item, outputs, worker, snap, request, ops, stalls, lapsed>>

MainStart(w) ==
    /\ proc[w].phase = "started"
    /\ UpdateRunStatus(w, "RUNNING")
    /\ UNCHANGED <<item, run, outputs, worker, snap, request, counters>>

\* A research task completes: never in a report pass, which runs no task.
MainTask(w) ==
    /\ proc[w].phase = "graph"
    /\ ~proc[w].early
    /\ ~tasksDone
    /\ tasksDone' = TRUE
    /\ UNCHANGED <<item, run, report, worker, proc, snap, request, counters>>

\* The writer node stores the report (with no accepted claim, an empty one).
MainReport(w) ==
    /\ proc[w].phase = "graph"
    /\ report' = TRUE
    /\ proc' = [proc EXCEPT ![w].phase = "reported"]
    /\ UNCHANGED <<item, run, tasksDone, worker, snap, request, counters>>

\* resolve_run_status: what the stored tasks and claims make of the run.
FinalStatus ==
    IF tasksDone THEN {"COMPLETED", "COMPLETED_WITH_ERRORS"} ELSE {"FAILED"}

MainFinal(w) ==
    /\ proc[w].phase = "reported"
    /\ \E status \in FinalStatus : UpdateRunStatus(w, status)
    /\ UNCHANGED <<item, run, outputs, worker, snap, request, counters>>

\* Any exception ends the process with status FAILED and a non-zero code.
MainError(w) ==
    /\ proc[w].phase \in {"started", "graph", "reported"}
    /\ UpdateRunStatus(w, "FAILED")
    /\ UNCHANGED <<item, run, outputs, worker, snap, request, counters>>

\* The process dies with nothing written (killed, out of memory, database gone).
ProcDies(w) ==
    /\ Alive(w)
    /\ proc' = [proc EXCEPT ![w] = [NoProc EXCEPT !.phase = "exited",
                                                  !.early = proc[w].early,
                                                  !.result = "FAILED"]]
    /\ UNCHANGED <<item, run, outputs, worker, snap, request, counters>>

-----------------------------------------------------------------------------
(* API requests.  The endpoint loads the run (_tenant_run); cancellation   *)
(* also loads the row without a lock.  The other handlers lock and load    *)
(* the row when they answer, but keep the run status loaded first.         *)

Ask(c, op) ==
    /\ MayBegin
    /\ request[c].op = "none"
    /\ ops < MaxOps
    /\ ops' = ops + 1
    /\ request' = [request EXCEPT
                     ![c] = [op |-> op, run |-> run,
                             item |-> IF op = "cancel" THEN item ELSE NewItem]]
    /\ UNCHANGED <<item, run, outputs, worker, proc, snap, stalls, lapsed, lateWrite>>

Retryable(seen) ==
    \/ item.status = "FAILED"
    \/ item.status = "SUCCEEDED" /\ seen = "COMPLETED_WITH_ERRORS"

\* The handler neither raises nor finds the work already in the state asked for.
Accepts(q) ==
    CASE q.op = "pause"  -> item.status \in {"QUEUED", "LEASED"}
      [] q.op = "resume" -> item.status = "PAUSED" \/ Retryable(q.run)
      [] q.op = "finish" -> tasksDone /\ item.status \in ActiveStatus
      [] q.op = "cancel" -> q.item.status \in ActiveStatus

\* The transaction of request q commits this row and this run status.
Answer(c, row, status) ==
    /\ Accepts(request[c])
    /\ item' = row
    /\ SetRun(request[c].run, status)
    /\ request' = [request EXCEPT ![c] = NoRequest]
    /\ UNCHANGED <<outputs, worker, proc, snap, ops, stalls, lapsed>>

Pause(c) ==
    /\ request[c].op = "pause"
    /\ Answer(c, PausedItem(item),
              IF item.status = "QUEUED" THEN "PAUSED" ELSE "PAUSE_REQUESTED")

Resume(c) ==
    /\ request[c].op = "resume"
    /\ Answer(c, ResumedItem(item), "CREATED")

FinishEarly(c) ==
    /\ request[c].op = "finish"
    /\ Answer(c, FinalizingItem(item),
              IF item.status = "LEASED" THEN request[c].run ELSE "CREATED")

Cancel(c) ==
    LET old == request[c].item
    IN  /\ request[c].op = "cancel"
        /\ Answer(c, Written(item, old, CancelledItem(old)),
                  IF old.status = "LEASED" THEN "CANCEL_REQUESTED" ELSE "CANCELLED")

\* 409, or a repetition that changes nothing.
Rejected(c) ==
    /\ request[c].op # "none"
    /\ ~Accepts(request[c])
    /\ request' = [request EXCEPT ![c] = NoRequest]
    /\ UNCHANGED <<item, run, outputs, worker, proc, snap, counters>>

\* request_report_follow_up locks run and row first: one step.
FollowUp ==
    /\ MayBegin
    /\ ops < MaxOps
    /\ report
    /\ item.status \notin ActiveStatus
    /\ item' = NewItem
    /\ SetRun(run, "CREATED")
    /\ ops' = ops + 1
    /\ UNCHANGED <<outputs, worker, proc, snap, request, stalls, lapsed>>

-----------------------------------------------------------------------------
WorkerStep(w) ==
    \/ Claim(w) \/ Poll(w) \/ HeartbeatKept(w) \/ HeartbeatRefused(w)
    \/ FinishRead(w) \/ FinishLost(w) \/ FinishCommit(w)

MainStep(w) ==
    \/ MainStart(w) \/ MainReport(w) \/ MainFinal(w) \/ StatusCommit(w)

AnswerStep(c) ==
    Pause(c) \/ Resume(c) \/ FinishEarly(c) \/ Cancel(c) \/ Rejected(c)

Next ==
    \/ \E w \in Worker :
          \/ WorkerStep(w) \/ Crash(w)
          \/ MainStep(w) \/ MainTask(w) \/ MainError(w) \/ ProcDies(w)
    \/ \E c \in Client :
          \/ \E op \in Operation : Ask(c, op)
          \/ AnswerStep(c)
    \/ ExpireLease
    \/ FollowUp

Spec == Init /\ [][Next]_vars

(***************************************************************************)
(* Workers loop until they are killed, a subprocess ends (every external   *)
(* call is bounded in time and in retries), a request that was begun is    *)
(* answered, and the lease of a dead worker runs out.  Users need not act. *)
(***************************************************************************)
Fairness ==
    /\ \A w \in Worker : WF_vars(WorkerStep(w)) /\ WF_vars(MainStep(w))
    /\ \A c \in Client : WF_vars(AnswerStep(c))
    /\ WF_vars(item.owner \in Crashed /\ ExpireLease)

FairSpec == Spec /\ Fairness

-----------------------------------------------------------------------------
(* Safety.                                                                 *)

\* The run's status tells the truth about what its user asked for, whichever
\* subprocess writes to it (current, superseded or orphaned): a pending request
\* is hidden only by a status write that replaced a status it had not read, and
\* a request that took effect not even by that one, unless a lease had run out.
\* About update_run_status's early return, and its read and commit without a
\* lock, against finish_work and the control functions.
StatusTellsRequest ==
    /\ ~lateWrite \/ ~lapsed =>
          /\ item.status = "PAUSED" => run = "PAUSED"
          /\ item.status = "CANCELLED" => run = "CANCELLED"
    /\ ~lateWrite /\ item.status = "LEASED" =>
          /\ item.cancel => run \in {"CANCEL_REQUESTED", "PAUSE_REQUESTED"}
          /\ item.pause /\ ~item.cancel => run = "PAUSE_REQUESTED"

\* As long as no lease has run out, an ended item and its run agree: the final
\* status is stored before the exit that finish_work reports.  A pause that
\* comes after the last heartbeat is the exception: it stays on the run for good.
EndAgrees ==
    ~lapsed =>
        /\ item.status = "FAILED" => run = "FAILED"
        /\ item.status = "SUCCEEDED" =>
              run \in {"COMPLETED", "COMPLETED_WITH_ERRORS", "PAUSE_REQUESTED"}

\* As long as no lease has run out, the run is executed by at most one process,
\* and by none while the item is waiting, paused or ended.  About the lease
\* protocol of claim_next_work, heartbeat_work and execute_work_item.
SingleExecution ==
    ~lapsed => \A w \in Worker : Alive(w) => Owns(item, w)

\* The subprocess of the lease's owner runs in the mode the row asks for: full
\* research, or the report pass, never one while the row says the other.  About
\* payload["finish_early"] being changed only while nobody holds the lease.
ModeMatches ==
    \A w \in Worker : Alive(w) /\ Owns(item, w) => proc[w].early = item.early

\* Whatever waits in the queue can be claimed.  claim_next_work passes over a row
\* without attempts left and nothing else looks at it, so a pause or an early
\* finish of the last attempt must give the attempt back, and a retry must leave
\* one.
WaitingClaimable == item.status = "QUEUED" => Claimable(item)

\* A request of the user is never turned into a failure of the run, and a
\* failure is declared only once every attempt is used.  About the order of
\* finish_work's branches.
FailureIsNoRequest ==
    [][item.status # "FAILED" /\ item'.status = "FAILED" =>
          /\ ~item.cancel /\ ~item.pause
          /\ item.finish => item.early
          /\ item.attempts = MaxAttempts]_vars

\* Where the work is, in the terms of the contract.
ItemPhase ==
    CASE item.status = "QUEUED"    -> "waiting"
      [] item.status = "LEASED"    -> "executing"
      [] item.status = "PAUSED"    -> "held"
      [] item.status = "SUCCEEDED" -> "succeeded"
      [] item.status = "FAILED"    -> "failed"
      [] item.status = "CANCELLED" -> "cancelled"

Contract == INSTANCE RunContract WITH phase <- ItemPhase, cancelling <- item.cancel

\* The queue keeps its contract with the owner of the run.
KeepsContract == Contract!ContractSpec

\* A leased row has an owner, whichever transactions overlapped: no row is
\* left that no worker may finish and no lease may expire from.
LeaseHasOwner == item.status = "LEASED" => item.owner \in Worker

-----------------------------------------------------------------------------
(* Liveness.                                                               *)

\* The one way work is lost: its worker was killed during the last attempt or
\* with a cancellation pending, and no claim will ever match the row again.
Stranded ==
    /\ item.status = "LEASED"
    /\ item.owner \in Crashed
    /\ item.cancel \/ item.attempts = MaxAttempts

\* An accepted cancellation ends in "cancelled", unless a follow-up reopens the
\* run or the work is stranded.
CancelHonoured ==
    item.cancel ~> item.status = "CANCELLED" \/ ~item.cancel \/ Stranded

\* A pause of leased work takes effect: the work is paused, or it had ended
\* first, or another request took the pause back.
PauseHonoured ==
    item.status = "LEASED" /\ item.pause
        ~> item.status \in {"PAUSED", "SUCCEEDED", "CANCELLED"} \/ ~item.pause \/ Stranded

\* A request to finish early reaches the report pass, unless the run is stopped
\* or the work ends first.
FinishHonoured ==
    item.finish ~> \/ item.early \/ ~item.finish
                   \/ item.status \in {"PAUSED", "SUCCEEDED", "CANCELLED"}
                   \/ Stranded

\* Whatever the user asks for of a running run takes effect in the end.
RequestsHonoured == CancelHonoured /\ PauseHonoured /\ FinishHonoured

\* Every run comes to rest: ended, or paused and waiting for its user.  Killed
\* and slow workers are made up for by the others.
WorkSettles ==
    <>[](item.status \in TerminalStatus \union {"PAUSED"} \/ Stranded)

-----------------------------------------------------------------------------
(* What the documents say and the code does not keep.                      *)

\* docs/research-pipeline-roadmap.md:315: queued and running work can be
\* cancelled, and "cancelled" is terminal.  So a cancellation that was accepted
\* is either being carried out by the lease's owner or has taken effect.
CancelNotLost == item.cancel => item.status \in {"LEASED", "CANCELLED"}

\* docs/research-pipeline-roadmap.md:330: a worker can be stopped and replaced
\* without losing the task.
NoTaskLost ==
    \A w \in Worker :
        item.status = "LEASED" /\ item.owner = w /\ worker[w] = "crashed"
        ~> item.owner # w
=============================================================================
