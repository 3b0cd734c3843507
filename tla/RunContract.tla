----------------------------- MODULE RunContract -----------------------------
(***************************************************************************)
(* What the durable queue promises the owner of a run, without workers,    *)
(* leases, subprocesses or transactions: work waits, executes, is held at  *)
(* the user's request or ends; and a cancellation that was accepted can    *)
(* only end in "cancelled" (README.md:299, docs/research-pipeline-         *)
(* roadmap.md:313-315).  RunLifecycle implements it.                       *)
(***************************************************************************)
VARIABLES
    phase,       \* where the work is
    cancelling   \* a cancellation was accepted

contractVars == <<phase, cancelling>>

Phase == {"waiting", "executing", "held", "succeeded", "failed", "cancelled"}

ContractInit == phase = "waiting" /\ cancelling = FALSE

\* A worker takes the work, unless it was cancelled.
Start ==
    /\ phase = "waiting"
    /\ ~cancelling
    /\ phase' = "executing"
    /\ UNCHANGED cancelling

\* An execution ends, or is given back for a later attempt or a pause.
Conclude ==
    /\ phase = "executing"
    /\ ~cancelling
    /\ phase' \in {"waiting", "held", "succeeded", "failed"}
    /\ UNCHANGED cancelling

\* The user holds waiting work, or resumes held or unsatisfactory work.
Hold ==
    /\ phase = "waiting"
    /\ phase' = "held"
    /\ UNCHANGED cancelling

Release ==
    /\ phase \in {"held", "failed", "succeeded"}
    /\ ~cancelling
    /\ phase' = "waiting"
    /\ UNCHANGED cancelling

\* Executing work is stopped by whoever executes it; other work at once.
AskCancel ==
    /\ phase = "executing"
    /\ cancelling' = TRUE
    /\ UNCHANGED phase

StopCancelled ==
    /\ phase = "executing"
    /\ cancelling
    /\ phase' = "cancelled"
    /\ UNCHANGED cancelling

CancelNow ==
    /\ phase \in {"waiting", "held"}
    /\ phase' = "cancelled"
    /\ cancelling' = TRUE

\* New research asked for on a finished run.
Reopen ==
    /\ phase \in {"succeeded", "failed", "cancelled"}
    /\ phase' = "waiting"
    /\ cancelling' = FALSE

ContractNext ==
    \/ Start \/ Conclude \/ Hold \/ Release
    \/ AskCancel \/ StopCancelled \/ CancelNow \/ Reopen

ContractSpec == ContractInit /\ [][ContractNext]_contractVars
=============================================================================
