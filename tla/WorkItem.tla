------------------------------ MODULE WorkItem ------------------------------
(***************************************************************************)
(* One row of the durable queue (table work_items) and what the functions  *)
(* of app/queue.py compute from it.  Nothing here is a step: the state     *)
(* machines that own a row (RunLifecycle, Editorial) say when a value   *)
(* is read and when it is written.                                         *)
(*                                                                         *)
(* Time is abstracted.  "expired" stands for lease_expires_at < now() and  *)
(* the delay of available_at (2^attempts seconds) for "some time later":   *)
(* a queued row may be claimed at any later moment.  last_error and        *)
(* heartbeat_at, which no decision reads, are left out.                    *)
(*                                                                         *)
(* An operator named "...Variant..." is its neighbour below with one       *)
(* plausible slip.  No specification uses it: a property of the runs is    *)
(* shown to tell the two apart.                                            *)
(***************************************************************************)
EXTENDS Naturals

CONSTANTS
    Worker,        \* identities of worker processes (default_worker_id)
    NoWorker,      \* lease_owner of a row nobody leases
    MaxAttempts    \* max_attempts of the row (3 in every enqueue)

ASSUME WorkerAssumption == NoWorker \notin Worker
ASSUME AttemptsAssumption == MaxAttempts \in Nat \ {0}

WorkStatus == {"QUEUED", "LEASED", "PAUSED", "SUCCEEDED", "FAILED", "CANCELLED"}

\* Work that is still to be done or under way.
ActiveStatus == {"QUEUED", "LEASED", "PAUSED"}

TerminalStatus == {"SUCCEEDED", "FAILED", "CANCELLED"}

RunStatus ==
    {"CREATED", "RUNNING", "PAUSE_REQUESTED", "PAUSED", "COMPLETED",
     "COMPLETED_WITH_ERRORS", "FAILED", "CANCEL_REQUESTED", "CANCELLED"}

Item ==
    [status   : WorkStatus,
     owner    : Worker \union {NoWorker},
     expired  : BOOLEAN,          \* the lease has run out
     attempts : 0..MaxAttempts,
     cancel   : BOOLEAN,          \* cancel_requested
     pause    : BOOLEAN,          \* pause_requested
     finish   : BOOLEAN,          \* finish_requested
     early    : BOOLEAN]          \* payload["finish_early"]

\* The row a run, a follow-up or a recheck puts in the queue: every column is
\* reset, whatever an earlier use of the row left in it.
NewItem ==
    [status |-> "QUEUED", owner |-> NoWorker, expired |-> FALSE, attempts |-> 0,
     cancel |-> FALSE, pause |-> FALSE, finish |-> FALSE, early |-> FALSE]

(***************************************************************************)
(* The object-relational mapper writes a column only when the new value    *)
(* differs from the one it loaded, so a transaction that loaded "old" and  *)
(* computed "new" leaves the columns it did not change as they now are.    *)
(* The lease's expiry is not one of these: the only such writer that       *)
(* touches it (finish_work) always clears it.                              *)
(***************************************************************************)
Column(current, old, new) == IF new = old THEN current ELSE new

Written(current, old, new) ==
    [status   |-> Column(current.status, old.status, new.status),
     owner    |-> Column(current.owner, old.owner, new.owner),
     expired  |-> current.expired,
     attempts |-> Column(current.attempts, old.attempts, new.attempts),
     cancel   |-> Column(current.cancel, old.cancel, new.cancel),
     pause    |-> Column(current.pause, old.pause, new.pause),
     finish   |-> Column(current.finish, old.finish, new.finish),
     early    |-> Column(current.early, old.early, new.early)]

-----------------------------------------------------------------------------
(* Worker side: claim_next_work, heartbeat_work, finish_work.              *)

\* The attempt limit forgotten; an unexpired lease stolen; no takeover at all.
ClaimableVariantNoLimit(i) ==
    ~i.cancel /\ (i.status = "QUEUED" \/ (i.status = "LEASED" /\ i.expired))

ClaimableVariantSteals(i) ==
    ~i.cancel /\ i.attempts < MaxAttempts /\ i.status \in {"QUEUED", "LEASED"}

ClaimableVariantNoTakeover(i) ==
    ~i.cancel /\ i.attempts < MaxAttempts /\ i.status = "QUEUED"

\* The WHERE clause of the claim: a queued row, or one whose lease ran out.
Claimable(i) ==
    /\ ~i.cancel
    /\ i.attempts < MaxAttempts
    /\ \/ i.status = "QUEUED"
       \/ i.status = "LEASED" /\ i.expired

Claimed(i, w) ==
    [i EXCEPT !.status = "LEASED", !.owner = w, !.expired = FALSE,
              !.attempts = @ + 1]

Owns(i, w) == i.status = "LEASED" /\ i.owner = w

\* heartbeat_work returns True: the worker goes on.  An expired lease nobody
\* took over is revived.
KeepsLease(i, w, allowFinish) ==
    /\ Owns(i, w)
    /\ ~i.cancel
    /\ ~i.pause
    /\ i.finish => allowFinish

\* Success tested before cancellation; attempts tested before the requests.
OutcomeVariantSuccessFirst(i, ok) ==
    CASE ok                                        -> "SUCCEEDED"
      [] ~ok /\ i.cancel                           -> "CANCELLED"
      [] ~ok /\ ~i.cancel /\ i.pause               -> "PAUSED"
      [] OTHER                                     -> "FAILED"

OutcomeVariantAttemptsFirst(i, ok) ==
    CASE i.cancel                                  -> "CANCELLED"
      [] ~i.cancel /\ ok                           -> "SUCCEEDED"
      [] ~i.cancel /\ ~ok /\ i.attempts = MaxAttempts -> "FAILED"
      [] OTHER -> (IF i.pause THEN "PAUSED"
                   ELSE IF i.finish /\ ~i.early THEN "FINALIZE" ELSE "RETRY")

\* Which branch of finish_work's if/elif chain decides.
Outcome(i, ok) ==
    CASE i.cancel                                  -> "CANCELLED"
      [] ~i.cancel /\ ok                           -> "SUCCEEDED"
      [] ~i.cancel /\ ~ok /\ i.pause               -> "PAUSED"
      [] ~i.cancel /\ ~ok /\ ~i.pause /\ i.finish /\ ~i.early -> "FINALIZE"
      [] ~i.cancel /\ ~ok /\ ~i.pause /\ (i.finish => i.early)
            /\ i.attempts < MaxAttempts            -> "RETRY"
      [] OTHER                                     -> "FAILED"

\* The report pass not marked.
FinishedVariantUnmarked(i, outcome) ==
    [i EXCEPT
        !.status   = IF outcome \in {"FINALIZE", "RETRY"} THEN "QUEUED" ELSE outcome,
        !.owner    = NoWorker,
        !.attempts = IF outcome \in {"PAUSED", "FINALIZE"} /\ @ > 0 THEN @ - 1 ELSE @]

\* A pause or an early finish costs an attempt.
FinishedVariantCounts(i, outcome) ==
    [i EXCEPT
        !.status   = IF outcome \in {"FINALIZE", "RETRY"} THEN "QUEUED" ELSE outcome,
        !.owner    = NoWorker,
        !.expired  = FALSE,
        !.pause    = IF outcome \in {"SUCCEEDED", "PAUSED"} THEN FALSE ELSE @,
        !.finish   = IF outcome = "SUCCEEDED" THEN FALSE ELSE @,
        !.early    = @ \/ outcome = "FINALIZE"]

\* The row finish_work leaves, for the branch that decided.
Finished(i, outcome) ==
    [i EXCEPT
        !.status   = IF outcome \in {"FINALIZE", "RETRY"} THEN "QUEUED" ELSE outcome,
        !.owner    = NoWorker,
        !.expired  = FALSE,
        !.attempts = IF outcome \in {"PAUSED", "FINALIZE"} /\ @ > 0 THEN @ - 1 ELSE @,
        !.pause    = IF outcome \in {"SUCCEEDED", "PAUSED"} THEN FALSE ELSE @,
        !.finish   = IF outcome = "SUCCEEDED" THEN FALSE ELSE @,
        !.early    = @ \/ outcome = "FINALIZE"]

-----------------------------------------------------------------------------
(* User side: request_run_pause, _resume, _early_completion, _cancellation *)

PausedItem(i) ==
    [i EXCEPT !.pause = TRUE,
              !.status = IF @ = "QUEUED" THEN "PAUSED" ELSE @]

ResumedItem(i) ==
    [i EXCEPT !.status = "QUEUED", !.attempts = 0,
              !.pause = FALSE, !.finish = FALSE, !.early = FALSE]

\* The running full execution is marked as a report pass.
FinalizingItemVariantEager(i) ==
    [i EXCEPT !.pause = FALSE, !.finish = TRUE, !.early = TRUE,
              !.status = IF @ = "PAUSED" THEN "QUEUED" ELSE @]

\* A leased row only gets the request; a waiting one is queued for the report
\* pass at once.
FinalizingItem(i) ==
    [i EXCEPT !.pause = FALSE, !.finish = TRUE,
              !.status = IF @ = "PAUSED" THEN "QUEUED" ELSE @,
              !.early = @ \/ i.status \in {"QUEUED", "PAUSED"}]

CancelledItem(i) ==
    [i EXCEPT !.cancel = TRUE,
              !.status = IF @ \in {"QUEUED", "PAUSED"} THEN "CANCELLED" ELSE @]
=============================================================================
