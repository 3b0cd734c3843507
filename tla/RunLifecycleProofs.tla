-------------------------- MODULE RunLifecycleProofs --------------------------
(***************************************************************************)
(* What holds of a run for every number of workers, requests, attempts,    *)
(* crashes and lease expiries.                                             *)
(***************************************************************************)
EXTENDS RunLifecycle, WorkItemProofs, TLAPS

USE DEF WorkStatus, ActiveStatus, TerminalStatus, RunStatus, WorkerPhase,
        ProcPhase, Operation, HeldStatus

-----------------------------------------------------------------------------
(* Types, for overlapping transactions too.                                *)

LEMMA AnswerType ==
  ASSUME TypeOK, NEW c \in Client, NEW row \in Item, NEW status \in RunStatus,
         Answer(c, row, status)
  PROVE  TypeOK'
<1>1. NoRequest \in Request
  BY NewItemType DEF NoRequest, Request
<1>2. run' \in RunStatus /\ lateWrite' \in BOOLEAN
  BY DEF TypeOK, Answer, SetRun, Column
<1>3. request' \in [Client -> Request]
  BY <1>1 DEF TypeOK, Answer
<1>4. QED
  BY <1>2, <1>3 DEF TypeOK, Answer, outputs, counters

LEMMA UpdateRunStatusType ==
  ASSUME TypeOK, NEW w \in Worker, NEW status \in RunStatus,
         UpdateRunStatus(w, status)
  PROVE  proc' \in [Worker -> Proc]
<1> DEFINE held  == [proc[w] EXCEPT !.phase = AfterWrite(status), !.result = status]
           write == [proc[w] EXCEPT !.phase = "writing", !.result = status, !.seen = run]
<1>1. held \in Proc /\ write \in Proc
  BY DEF TypeOK, AfterWrite, Proc
<1> HIDE DEF held, write
<1>2. proc' = [proc EXCEPT ![w] = IF run \in HeldStatus THEN held ELSE write]
  BY DEF UpdateRunStatus, held, write
<1>3. QED
  BY <1>1, <1>2 DEF TypeOK

LEMMA TypeStep == TypeOK /\ [Next]_vars => TypeOK'
<1> SUFFICES ASSUME TypeOK, [Next]_vars PROVE TypeOK'
  OBVIOUS
<1> USE DEF outputs, counters
<1>1. NoProc \in Proc /\ NoSnapshot \in Snapshot /\ NoRequest \in Request
  BY NewItemType DEF NoProc, NoSnapshot, NoRequest, Proc, Snapshot, Request
<1>2. ASSUME NEW w \in Worker, Claim(w) PROVE TypeOK'
  <2>1. item' \in Item
    BY <1>2, ClaimedType DEF TypeOK, Claim
  <2>2. proc' \in [Worker -> Proc]
    <3>1. item.early \in BOOLEAN
      BY DEF TypeOK, Item
    <3>2. [NoProc EXCEPT !.phase = "started", !.early = item.early] \in Proc
      BY <3>1 DEF Proc, NoProc
    <3>3. QED
      BY <1>2, <3>2 DEF TypeOK, Claim
  <2>3. worker' \in [Worker -> WorkerPhase]
    BY <1>2 DEF TypeOK, Claim
  <2>4. QED
    BY <1>2, <2>1, <2>2, <2>3 DEF TypeOK, Claim
<1>3. ASSUME NEW w \in Worker, Poll(w) PROVE TypeOK'
  BY <1>3 DEF TypeOK, Poll
<1>4. ASSUME NEW w \in Worker, HeartbeatKept(w) PROVE TypeOK'
  <2>1. item' \in Item
    BY <1>4 DEF TypeOK, HeartbeatKept, Item
  <2>2. QED
    BY <1>4, <2>1 DEF TypeOK, HeartbeatKept
<1>5. ASSUME NEW w \in Worker, HeartbeatRefused(w) PROVE TypeOK'
  <2>1. [proc[w] EXCEPT !.phase = "exited", !.result = "FAILED"] \in Proc
    BY DEF TypeOK, Proc
  <2>2. QED
    BY <1>5, <2>1 DEF TypeOK, HeartbeatRefused
<1>6. ASSUME NEW w \in Worker, FinishRead(w) PROVE TypeOK'
  <2>1. snap' \in [Worker -> Snapshot]
    BY <1>6 DEF TypeOK, FinishRead, Snapshot
  <2>2. QED
    BY <1>6, <2>1 DEF TypeOK, FinishRead
<1>7. ASSUME NEW w \in Worker, FinishLost(w) PROVE TypeOK'
  BY <1>1, <1>7 DEF TypeOK, FinishLost
<1>8. ASSUME NEW w \in Worker, FinishCommit(w) PROVE TypeOK'
  <2> DEFINE old == snap[w].item
             o   == Outcome(old, proc[w].result # "FAILED")
  <2>1. old \in Item /\ snap[w].run \in RunStatus
    BY DEF TypeOK, Snapshot
  <2>2. o \in {"CANCELLED", "SUCCEEDED", "PAUSED", "FINALIZE", "RETRY", "FAILED"}
    BY <2>1, OutcomeType
  <2>3. Written(item, old, Finished(old, o)) \in Item
    BY <2>1, <2>2, FinishedType, WrittenType DEF TypeOK
  <2>4. item' \in Item
    <3> HIDE DEF o, old
    <3>1. item' = [Written(item, old, Finished(old, o)) EXCEPT !.expired = FALSE]
      BY <1>8 DEF FinishCommit, o, old
    <3>2. QED
      BY <2>3, <3>1 DEF Item
  <2>5. run' \in RunStatus /\ lateWrite' \in BOOLEAN
    BY <1>8, <2>1, <2>2 DEF TypeOK, FinishCommit, RunAfter, SetRun, Column
  <2>6. QED
    BY <1>1, <1>8, <2>4, <2>5 DEF TypeOK, FinishCommit
<1>9. ASSUME NEW w \in Worker, Crash(w) PROVE TypeOK'
  BY <1>1, <1>9 DEF TypeOK, Crash
<1>10. ASSUME ExpireLease PROVE TypeOK'
  <2>1. item' \in Item
    BY <1>10 DEF TypeOK, ExpireLease, Item
  <2>2. stalls' \in Nat
    BY <1>10 DEF TypeOK, ExpireLease
  <2>3. QED
    BY <1>10, <2>1, <2>2 DEF TypeOK, ExpireLease
<1>11. ASSUME NEW w \in Worker, StatusCommit(w) PROVE TypeOK'
  <2>1. proc[w].result \in RunStatus
    BY DEF TypeOK, Proc
  <2>2. run' \in RunStatus /\ lateWrite' \in BOOLEAN
    BY <1>11, <2>1 DEF TypeOK, StatusCommit, Column
  <2>3. [proc[w] EXCEPT !.phase = AfterWrite(proc[w].result), !.seen  = "CREATED"] \in Proc
    BY DEF TypeOK, AfterWrite, Proc
  <2>4. QED
    BY <1>11, <2>2, <2>3 DEF TypeOK, StatusCommit
<1>12. ASSUME NEW w \in Worker, MainStart(w) PROVE TypeOK'
  BY <1>12, UpdateRunStatusType DEF TypeOK, MainStart
<1>13. ASSUME NEW w \in Worker, MainTask(w) PROVE TypeOK'
  BY <1>13 DEF TypeOK, MainTask
<1>14. ASSUME NEW w \in Worker, MainReport(w) PROVE TypeOK'
  BY <1>14 DEF TypeOK, MainReport, Proc
<1>15. ASSUME NEW w \in Worker, MainFinal(w) PROVE TypeOK'
  <2>1. PICK status \in FinalStatus : UpdateRunStatus(w, status)
    BY <1>15 DEF MainFinal
  <2>2. status \in RunStatus
    BY DEF FinalStatus
  <2>3. QED
    BY <1>15, <2>1, <2>2, UpdateRunStatusType DEF TypeOK, MainFinal
<1>16. ASSUME NEW w \in Worker, MainError(w) PROVE TypeOK'
  BY <1>16, UpdateRunStatusType DEF TypeOK, MainError
<1>17. ASSUME NEW w \in Worker, ProcDies(w) PROVE TypeOK'
  <2>1. proc' \in [Worker -> Proc]
    BY <1>17 DEF TypeOK, ProcDies, Proc, NoProc
  <2>2. QED
    BY <1>17, <2>1 DEF TypeOK, ProcDies
<1>18. ASSUME NEW c \in Client, NEW op \in Operation, Ask(c, op) PROVE TypeOK'
  <2>1. [op |-> op, run |-> run, item |-> IF op = "cancel" THEN item ELSE NewItem]
          \in Request
    BY NewItemType DEF TypeOK, Request
  <2>2. QED
    BY <1>18, <2>1 DEF TypeOK, Ask
<1>19. ASSUME NEW c \in Client, AnswerStep(c) PROVE TypeOK'
  <2>1. request[c] \in Request /\ item \in Item
    BY DEF TypeOK
  <2>2. request[c].item \in Item /\ request[c].run \in RunStatus
    BY <2>1 DEF Request
  <2>3. CASE Pause(c)
    BY <2>1, <2>3, ControlTypes, AnswerType DEF Pause
  <2>4. CASE Resume(c)
    BY <2>1, <2>4, ControlTypes, AnswerType DEF Resume
  <2>5. CASE FinishEarly(c)
    BY <2>1, <2>2, <2>5, ControlTypes, AnswerType DEF FinishEarly
  <2>6. CASE Cancel(c)
    BY <2>1, <2>2, <2>6, ControlTypes, WrittenType, AnswerType DEF Cancel
  <2>7. CASE Rejected(c)
    BY <1>1, <2>7 DEF TypeOK, Rejected
  <2>8. QED
    BY <1>19, <2>3, <2>4, <2>5, <2>6, <2>7 DEF AnswerStep
<1>20. ASSUME FollowUp PROVE TypeOK'
  BY <1>20, NewItemType DEF TypeOK, FollowUp, SetRun, Column
<1>21. CASE UNCHANGED vars
  BY <1>21 DEF TypeOK, vars
<1>22. QED
  BY <1>2, <1>3, <1>4, <1>5, <1>6, <1>7, <1>8, <1>9, <1>10, <1>11, <1>12, <1>13,
     <1>14, <1>15, <1>16, <1>17, <1>18, <1>19, <1>20, <1>21
     DEF Next, WorkerStep, MainStep

LEMMA TypeInit == Init => TypeOK
<1> SUFFICES ASSUME Init PROVE TypeOK
  OBVIOUS
<1>1. NoProc \in Proc /\ NoSnapshot \in Snapshot /\ NoRequest \in Request
  BY NewItemType DEF NoProc, NoSnapshot, NoRequest, Proc, Snapshot, Request
<1>2. item \in Item /\ run \in RunStatus
  BY NewItemType DEF Init
<1>3. /\ tasksDone \in BOOLEAN /\ report \in BOOLEAN /\ lapsed \in BOOLEAN
      /\ lateWrite \in BOOLEAN
  BY DEF Init
<1>4. worker \in [Worker -> WorkerPhase] /\ proc \in [Worker -> Proc]
  BY <1>1 DEF Init
<1>5. snap \in [Worker -> Snapshot] /\ request \in [Client -> Request]
  BY <1>1 DEF Init
<1>6. ops \in Nat /\ stalls \in Nat
  BY DEF Init
<1>7. QED
  BY <1>2, <1>3, <1>4, <1>5, <1>6 DEF TypeOK

\* Every variable keeps its type, whatever transactions overlap.
THEOREM TypeCorrect == Spec => []TypeOK
  BY TypeInit, TypeStep, PTL DEF Spec

-----------------------------------------------------------------------------
(* A leased row has an owner, for overlapping transactions too.  What makes *)
(* it inductive: a worker about to commit loaded the row as its own lease,  *)
(* so the commit always takes the row out of LEASED.                        *)

CommitsOwnLease ==
    \A w \in Worker : worker[w] = "committing" => Owns(snap[w].item, w)

OwnerInv == TypeOK /\ CommitsOwnLease /\ LeaseHasOwner

LEMMA FinishCommitStatus ==
  ASSUME TypeOK, CommitsOwnLease, NEW w \in Worker, FinishCommit(w)
  PROVE  item'.status # "LEASED"
<1> DEFINE old == snap[w].item
           o   == Outcome(old, proc[w].result # "FAILED")
           n   == Finished(old, o)
<1>1. old \in Item /\ old.status = "LEASED"
  BY DEF TypeOK, Snapshot, CommitsOwnLease, Owns, FinishCommit
<1>2. o \in {"CANCELLED", "SUCCEEDED", "PAUSED", "FINALIZE", "RETRY", "FAILED"}
  BY <1>1, OutcomeType
<1>3. n \in Item /\ n.status # "LEASED"
  BY <1>1, <1>2, FinishedType, FinishedNotLeased
<1>4. item' = [Written(item, old, n) EXCEPT !.expired = FALSE]
  BY DEF FinishCommit
<1> HIDE DEF old, o, n
<1>5. QED
  BY <1>1, <1>3, <1>4 DEF Written, Column, Item

LEMMA OwnerStep == OwnerInv /\ [Next]_vars => OwnerInv'
<1> SUFFICES ASSUME OwnerInv, [Next]_vars PROVE OwnerInv'
  OBVIOUS
<1> USE DEF OwnerInv, outputs, counters
<1>1. TypeOK'
  BY TypeStep
<1>2. CommitsOwnLease'
  <2>1. ASSUME NEW w \in Worker, worker'[w] = "committing"
        PROVE  Owns(snap'[w].item, w)
    <3>1. ASSUME NEW v \in Worker, FinishRead(v) PROVE Owns(snap'[w].item, w)
      BY <2>1, <3>1 DEF FinishRead, TypeOK, CommitsOwnLease
    <3>2. ASSUME NEW v \in Worker,
                 \/ Claim(v) \/ Poll(v) \/ HeartbeatKept(v) \/ HeartbeatRefused(v)
                 \/ FinishLost(v) \/ FinishCommit(v) \/ Crash(v)
          PROVE  Owns(snap'[w].item, w)
      BY <2>1, <3>2 DEF TypeOK, CommitsOwnLease, Claim, Poll, HeartbeatKept,
           HeartbeatRefused, FinishLost, FinishCommit, Crash
    <3>3. ASSUME NEW v \in Worker,
                 \/ MainStart(v) \/ MainReport(v) \/ MainFinal(v) \/ StatusCommit(v)
                 \/ MainTask(v) \/ MainError(v) \/ ProcDies(v)
          PROVE  Owns(snap'[w].item, w)
      BY <2>1, <3>3 DEF CommitsOwnLease, MainStart, MainReport, MainFinal,
           StatusCommit, MainTask, MainError, ProcDies
    <3>4. ASSUME NEW c \in Client,
                 (\E op \in Operation : Ask(c, op)) \/ AnswerStep(c)
          PROVE  Owns(snap'[w].item, w)
      BY <2>1, <3>4 DEF CommitsOwnLease, Ask, AnswerStep, Pause, Resume, FinishEarly,
           Cancel, Rejected, Answer
    <3>5. CASE ExpireLease \/ FollowUp \/ UNCHANGED vars
      BY <2>1, <3>5 DEF CommitsOwnLease, ExpireLease, FollowUp, vars
    <3>6. QED
      BY <3>1, <3>2, <3>3, <3>4, <3>5 DEF Next, WorkerStep, MainStep
  <2>2. QED
    BY <2>1 DEF CommitsOwnLease
<1>3. LeaseHasOwner'
  <2>1. ASSUME NEW w \in Worker, Claim(w) PROVE LeaseHasOwner'
    BY <2>1 DEF Claim, Claimed, LeaseHasOwner, TypeOK, Item
  <2>2. ASSUME NEW w \in Worker, FinishCommit(w) PROVE LeaseHasOwner'
    BY <2>2, FinishCommitStatus DEF LeaseHasOwner
  <2>3. ASSUME NEW c \in Client, AnswerStep(c) PROVE LeaseHasOwner'
    <3>1. request[c].item \in Item
      BY DEF TypeOK, Request
    <3>2. CASE Cancel(c)
      BY <3>1, <3>2 DEF Cancel, Answer, CancelledItem, Written, Column,
           LeaseHasOwner, TypeOK, Item
    <3>3. CASE Pause(c) \/ Resume(c) \/ FinishEarly(c) \/ Rejected(c)
      BY <3>3 DEF Pause, Resume, FinishEarly, Rejected, Answer, PausedItem,
           ResumedItem, FinalizingItem, LeaseHasOwner, TypeOK, Item
    <3>4. QED
      BY <2>3, <3>2, <3>3 DEF AnswerStep
  <2>4. CASE FollowUp
    BY <2>4 DEF FollowUp, NewItem, LeaseHasOwner
  <2>5. CASE ExpireLease
    BY <2>5 DEF ExpireLease, LeaseHasOwner, TypeOK, Item
  <2>6. ASSUME NEW w \in Worker, HeartbeatKept(w) PROVE LeaseHasOwner'
    BY <2>6 DEF HeartbeatKept, LeaseHasOwner, TypeOK, Item
  <2>7. ASSUME NEW w \in Worker,
               \/ Poll(w) \/ HeartbeatRefused(w) \/ FinishRead(w) \/ FinishLost(w)
               \/ Crash(w) \/ MainStart(w) \/ MainReport(w) \/ MainFinal(w)
               \/ StatusCommit(w) \/ MainTask(w) \/ MainError(w) \/ ProcDies(w)
        PROVE  LeaseHasOwner'
    BY <2>7 DEF Poll, HeartbeatRefused, FinishRead, FinishLost, Crash, MainStart,
         MainReport, MainFinal, StatusCommit, MainTask, MainError, ProcDies, LeaseHasOwner
  <2>8. ASSUME NEW c \in Client, NEW op \in Operation, Ask(c, op) PROVE LeaseHasOwner'
    BY <2>8 DEF Ask, LeaseHasOwner
  <2>9. CASE UNCHANGED vars
    BY <2>9 DEF vars, LeaseHasOwner
  <2>10. QED
    BY <2>1, <2>2, <2>3, <2>4, <2>5, <2>6, <2>7, <2>8, <2>9 DEF Next, WorkerStep, MainStep
<1>4. QED
  BY <1>1, <1>2, <1>3

LEMMA OwnerInit == Init => OwnerInv
  BY TypeInit DEF Init, OwnerInv, CommitsOwnLease, LeaseHasOwner, NewItem

\* No row is ever LEASED without an owner: finish_work and cancellation decide
\* on a row they loaded earlier, yet neither can strand it that way.
THEOREM LeaseOwned == Spec => []LeaseHasOwner
<1>1. OwnerInv => LeaseHasOwner
  BY DEF OwnerInv
<1>2. QED
  BY <1>1, OwnerInit, OwnerStep, PTL DEF Spec

-----------------------------------------------------------------------------
(* Transactions of the queue that do not overlap: whoever commits loaded    *)
(* the row that is stored.  The run is another matter: status writes come   *)
(* in between, so what was loaded of it is still stored, or was replaced by *)
(* what a subprocess writes.                                                *)

Writing(w) == proc[w].phase = "writing"
Finishing(w) == worker[w] = "committing"
Asking(c) == request[c].op # "none"

\* What a subprocess writes into the run: it goes on, or it has ended.
Ending == {"COMPLETED", "COMPLETED_WITH_ERRORS", "FAILED"}

Writes == Ending \union {"RUNNING"}

\* A run that can still be stopped is not said to be stopped.
RunParts ==
    /\ item.status \in {"QUEUED", "LEASED"} => run # "PAUSED"
    /\ item.status \in ActiveStatus => run # "CANCELLED"

\* What an open transaction of the queue loaded of the run.
Loaded(seen) ==
    /\ seen = run \/ (run \in Writes /\ (seen \in HeldStatus => lateWrite))
    /\ item.status \in {"QUEUED", "LEASED"} => seen # "PAUSED"
    /\ item.status \in ActiveStatus => seen # "CANCELLED"

Fresh ==
    /\ \A w \in Worker : Finishing(w) => snap[w].item = item /\ Loaded(snap[w].run)
    /\ \A w \in Worker : Writing(w) =>
          proc[w].result \in Writes /\ proc[w].seen \notin HeldStatus
    /\ \A c \in Client : Asking(c) =>
          /\ Loaded(request[c].run)
          /\ request[c].op = "cancel" => request[c].item = item

Exclusive ==
    /\ \A w, v \in Worker : Finishing(w) /\ Finishing(v) => w = v
    /\ \A c, d \in Client : Asking(c) /\ Asking(d) => c = d
    /\ \A c \in Client, w \in Worker : Asking(c) => ~Finishing(w)

SerialInv == OwnerInv /\ Fresh /\ Exclusive /\ RunParts

\* One status write, as a subprocess begins and commits it.
LEMMA StatusBegins ==
  ASSUME TypeOK, NEW w \in Worker,
         MainStart(w) \/ MainError(w) \/ MainFinal(w)
  PROVE  /\ Alive(w)
         /\ UNCHANGED <<item, run, lapsed, lateWrite, worker, snap, request>>
         /\ \A v \in Worker : v # w => proc'[v] = proc[v]
         /\ proc'[w].early = proc[w].early /\ proc'[w].result \in Writes
         /\ \/ /\ run \notin HeldStatus
               /\ proc'[w].phase = "writing" /\ proc'[w].seen = run
            \/ /\ run \in HeldStatus
               /\ proc'[w].phase = IF proc'[w].result = "RUNNING" THEN "graph" ELSE "exited"
<1>1. proc \in [Worker -> Proc] /\ proc[w] \in Proc
  BY DEF TypeOK
<1>2. PICK status \in Writes : UpdateRunStatus(w, status)
  BY DEF MainStart, MainError, MainFinal, FinalStatus, Writes, Ending
<1>3. Alive(w) /\ UNCHANGED <<item, run, lapsed, lateWrite, worker, snap, request>>
  BY DEF MainStart, MainError, MainFinal, Alive, counters, outputs
<1>4. \A v \in Worker : v # w => proc'[v] = proc[v]
  BY <1>1, <1>2 DEF UpdateRunStatus
<1>5. CASE run \in HeldStatus
  <2>1. proc'[w] = [proc[w] EXCEPT !.phase = AfterWrite(status), !.result = status]
    BY <1>1, <1>2, <1>5 DEF UpdateRunStatus
  <2>2. proc'[w].phase = AfterWrite(status) /\ proc'[w].result = status
        /\ proc'[w].early = proc[w].early
    BY <1>1, <2>1 DEF Proc
  <2>3. QED
    BY <1>3, <1>4, <1>5, <2>2 DEF AfterWrite
<1>6. CASE run \notin HeldStatus
  <2>1. proc'[w] = [proc[w] EXCEPT !.phase = "writing", !.result = status, !.seen = run]
    BY <1>1, <1>2, <1>6 DEF UpdateRunStatus
  <2>2. proc'[w].phase = "writing" /\ proc'[w].result = status /\ proc'[w].seen = run
        /\ proc'[w].early = proc[w].early
    BY <1>1, <2>1 DEF Proc
  <2>3. QED
    BY <1>3, <1>4, <1>6, <2>2
<1>7. QED
  BY <1>5, <1>6

LEMMA StatusCommits ==
  ASSUME TypeOK, Fresh, NEW w \in Worker, StatusCommit(w)
  PROVE  /\ UNCHANGED <<item, lapsed, worker, snap, request>>
         /\ \A v \in Worker : v # w => proc'[v] = proc[v]
         /\ Writing(w) /\ proc[w].result \in Writes /\ proc[w].seen \notin HeldStatus
         /\ proc'[w].phase = IF proc[w].result = "RUNNING" THEN "graph" ELSE "exited"
         /\ proc'[w].early = proc[w].early /\ proc'[w].result = proc[w].result
         /\ \/ proc[w].result = proc[w].seen /\ UNCHANGED <<run, lateWrite>>
            \/ /\ proc[w].result # proc[w].seen
               /\ run' = proc[w].result
               /\ lateWrite' = (lateWrite \/ run # proc[w].seen)
<1>1. proc \in [Worker -> Proc] /\ proc[w] \in Proc
  BY DEF TypeOK
<1>2. proc' = [proc EXCEPT ![w] = [proc[w] EXCEPT !.phase = AfterWrite(proc[w].result),
                                                  !.seen = "CREATED"]]
  BY DEF StatusCommit
<1>3. /\ proc'[w].phase = AfterWrite(proc[w].result)
      /\ proc'[w].early = proc[w].early /\ proc'[w].result = proc[w].result
  BY <1>1, <1>2 DEF Proc
<1>4. \A v \in Worker : v # w => proc'[v] = proc[v]
  BY <1>1, <1>2
<1>5. Writing(w) /\ proc[w].result \in Writes /\ proc[w].seen \notin HeldStatus
  BY DEF StatusCommit, Writing, Fresh
<1>6. \/ proc[w].result = proc[w].seen /\ UNCHANGED <<run, lateWrite>>
      \/ /\ proc[w].result # proc[w].seen
         /\ run' = proc[w].result
         /\ lateWrite' = (lateWrite \/ run # proc[w].seen)
  BY DEF StatusCommit, Column, TypeOK
<1>7. UNCHANGED <<item, lapsed, worker, snap, request>>
  BY DEF StatusCommit
<1>8. QED
  BY <1>3, <1>4, <1>5, <1>6, <1>7 DEF AfterWrite

LEMMA SerialStep ==
  ASSUME Overlap = FALSE, SerialInv, [Next]_vars
  PROVE  Fresh' /\ Exclusive'
<1> USE DEF SerialInv, OwnerInv, outputs, counters
<1> DEFINE WritingOK(v) ==
             Writing(v) => proc[v].result \in Writes /\ proc[v].seen \notin HeldStatus
<1>1. ASSUME ~OpenTransaction', \A v \in Worker : WritingOK(v)'
      PROVE  Fresh' /\ Exclusive'
  BY <1>1 DEF OpenTransaction, Fresh, Exclusive, Finishing, Asking
<1>2. ASSUME NEW w \in Worker, \A v \in Worker : v # w => proc'[v] = proc[v],
             proc'[w].phase # "writing" \/ proc'[w] = proc[w]
      PROVE  \A v \in Worker : WritingOK(v)'
  BY <1>2 DEF Fresh, Writing
<1>3. ASSUME UNCHANGED proc PROVE \A v \in Worker : WritingOK(v)'
  BY <1>3 DEF Fresh, Writing
<1>4. ASSUME NEW w \in Worker,
             \/ Claim(w) \/ HeartbeatKept(w) \/ HeartbeatRefused(w) \/ FinishLost(w)
             \/ FinishCommit(w)
      PROVE  Fresh' /\ Exclusive'
  <2>1. ~OpenTransaction'
    <3>1. UNCHANGED request /\ \A v \in Worker : v # w => worker'[v] = worker[v]
      BY <1>4 DEF TypeOK, Claim, HeartbeatKept, HeartbeatRefused, FinishLost, FinishCommit
    <3>2. worker'[w] # "committing"
      BY <1>4 DEF TypeOK, Claim, HeartbeatKept, HeartbeatRefused, FinishLost, FinishCommit
    <3>3. (~OpenTransaction) \/ FinishCommit(w)
      BY <1>4 DEF MayBegin, Claim, HeartbeatKept, HeartbeatRefused, FinishLost
    <3>4. CASE ~OpenTransaction
      BY <3>1, <3>2, <3>4 DEF OpenTransaction
    <3>5. CASE FinishCommit(w)
      <4>1. worker[w] = "committing"
        BY <3>5 DEF FinishCommit
      <4>2. QED
        BY <3>1, <3>2, <4>1 DEF OpenTransaction, Exclusive, Finishing, Asking
    <3>6. QED
      BY <3>3, <3>4, <3>5
  <2>2. \A v \in Worker : v # w => proc'[v] = proc[v]
    BY <1>4 DEF TypeOK, Claim, HeartbeatKept, HeartbeatRefused, FinishLost, FinishCommit
  <2>3. proc'[w].phase # "writing" \/ proc'[w] = proc[w]
    <3>1. CASE Claim(w)
      BY <3>1 DEF TypeOK, Claim, NoProc
    <3>2. CASE HeartbeatKept(w)
      BY <3>2 DEF HeartbeatKept
    <3>3. CASE HeartbeatRefused(w)
      BY <3>3 DEF TypeOK, Proc, HeartbeatRefused
    <3>4. CASE FinishLost(w) \/ FinishCommit(w)
      BY <3>4 DEF TypeOK, FinishLost, FinishCommit, NoProc
    <3>5. QED
      BY <1>4, <3>1, <3>2, <3>3, <3>4
  <2>4. QED
    BY <1>1, <1>2, <2>1, <2>2, <2>3
<1>5. CASE ExpireLease \/ FollowUp
  <2>1. ~OpenTransaction' /\ UNCHANGED proc
    BY <1>5 DEF MayBegin, OpenTransaction, ExpireLease, FollowUp
  <2>2. QED
    BY <1>1, <1>3, <2>1
<1>6. ASSUME NEW c \in Client, AnswerStep(c) PROVE Fresh' /\ Exclusive'
  <2>1. Asking(c) /\ request' = [request EXCEPT ![c] = NoRequest]
        /\ UNCHANGED <<worker, proc>>
    BY <1>6 DEF AnswerStep, Pause, Resume, FinishEarly, Cancel, Rejected, Answer, Asking
  <2>2. ~OpenTransaction'
    BY <2>1 DEF TypeOK, Exclusive, Finishing, Asking, OpenTransaction, NoRequest
  <2>3. QED
    BY <1>1, <1>3, <2>1, <2>2
<1>7. ASSUME NEW w \in Worker, FinishRead(w) PROVE Fresh' /\ Exclusive'
  <2>1. /\ \A c \in Client : ~Asking(c)'
        /\ \A v \in Worker : v # w => ~Finishing(v)'
        /\ UNCHANGED <<item, run, lateWrite, proc>>
    BY <1>7 DEF TypeOK, MayBegin, OpenTransaction, FinishRead, Finishing, Asking
  <2>2. snap'[w] = [item |-> item, run |-> run]
    BY <1>7 DEF TypeOK, FinishRead
  <2>3. snap'[w].item = item' /\ Loaded(snap[w].run)'
    BY <2>1, <2>2 DEF Loaded, RunParts
  <2>4. QED
    BY <1>3, <2>1, <2>3 DEF Fresh, Exclusive
<1>8. ASSUME NEW c \in Client, NEW op \in Operation, Ask(c, op)
      PROVE  Fresh' /\ Exclusive'
  <2>1. /\ \A v \in Worker : ~Finishing(v)'
        /\ \A d \in Client : d # c => ~Asking(d)'
        /\ UNCHANGED <<item, run, lateWrite, proc>>
    BY <1>8 DEF TypeOK, MayBegin, OpenTransaction, Ask, Finishing, Asking
  <2>2. /\ request'[c].run = run'
        /\ request'[c].op = "cancel" => request'[c].item = item'
    BY <1>8 DEF TypeOK, Ask
  <2>3. Loaded(request[c].run)'
    BY <2>1, <2>2 DEF Loaded, RunParts
  <2>4. QED
    BY <1>3, <2>1, <2>2, <2>3 DEF Fresh, Exclusive
\* What the open transactions loaded, across a step that leaves them open.
<1>9. ASSUME UNCHANGED <<item, request>>,
             \A v \in Worker : Finishing(v)' => Finishing(v) /\ snap'[v] = snap[v],
             \A v \in Worker : WritingOK(v)',
             \A seen : Loaded(seen) => Loaded(seen)'
      PROVE  Fresh' /\ Exclusive'
  <2>1. \A c \in Client : Asking(c)' <=> Asking(c)
    BY <1>9 DEF Asking
  <2>2. \A w \in Worker : Finishing(w)' => snap'[w].item = item' /\ Loaded(snap[w].run)'
    BY <1>9 DEF Fresh
  <2>3. \A c \in Client : Asking(c)' =>
           /\ Loaded(request[c].run)'
           /\ request'[c].op = "cancel" => request'[c].item = item'
    BY <1>9, <2>1 DEF Fresh
  <2>4. QED
    BY <1>9, <2>1, <2>2, <2>3 DEF Fresh, Exclusive
<1>10. ASSUME UNCHANGED <<item, run, lateWrite>>
       PROVE  \A seen : Loaded(seen) => Loaded(seen)'
  BY <1>10 DEF Loaded
<1>11. ASSUME NEW w \in Worker, MainStart(w) \/ MainError(w) \/ MainFinal(w)
       PROVE  Fresh' /\ Exclusive'
  <2>1. /\ UNCHANGED <<item, run, lateWrite, worker, snap, request>>
        /\ \A v \in Worker : v # w => proc'[v] = proc[v]
        /\ proc'[w].result \in Writes
        /\ proc'[w].phase = "writing" => proc'[w].seen \notin HeldStatus
    BY <1>11, StatusBegins
  <2>2. \A v \in Worker : WritingOK(v)'
    BY <2>1 DEF Fresh, Writing
  <2>3. \A v \in Worker : Finishing(v)' => Finishing(v) /\ snap'[v] = snap[v]
    BY <2>1 DEF Finishing
  <2>4. QED
    BY <1>9, <1>10, <2>1, <2>2, <2>3
<1>12. ASSUME NEW w \in Worker, StatusCommit(w) PROVE Fresh' /\ Exclusive'
  <2>1. /\ UNCHANGED <<item, worker, snap, request>>
        /\ \A v \in Worker : v # w => proc'[v] = proc[v]
        /\ proc'[w].phase # "writing"
    BY <1>12, StatusCommits
  <2>2. \/ UNCHANGED <<run, lateWrite>>
        \/ run' \in Writes /\ (run \in HeldStatus \/ lateWrite => lateWrite')
    BY <1>12, StatusCommits
  <2>3. \A seen : Loaded(seen) => Loaded(seen)'
    BY <2>1, <2>2 DEF Loaded
  <2>4. \A v \in Worker : Finishing(v)' => Finishing(v) /\ snap'[v] = snap[v]
    BY <2>1 DEF Finishing
  <2>5. QED
    BY <1>2, <1>9, <2>1, <2>3, <2>4
<1>13. ASSUME NEW w \in Worker,
              Poll(w) \/ Crash(w) \/ ProcDies(w) \/ MainTask(w) \/ MainReport(w)
       PROVE  Fresh' /\ Exclusive'
  <2>1. /\ UNCHANGED <<item, run, lateWrite, request>>
        /\ \A v \in Worker : Finishing(v)' => Finishing(v) /\ snap'[v] = snap[v]
        /\ \A v \in Worker : v # w => proc'[v] = proc[v]
    BY <1>13 DEF TypeOK, Poll, Crash, ProcDies, MainTask, MainReport, Finishing
  <2>2. proc'[w].phase # "writing" \/ proc'[w] = proc[w]
    BY <1>13 DEF TypeOK, Proc, NoProc, Poll, Crash, ProcDies, MainTask, MainReport
  <2>3. QED
    BY <1>2, <1>9, <1>10, <2>1, <2>2
<1>14. CASE UNCHANGED vars
  BY <1>3, <1>9, <1>10, <1>14 DEF vars, Finishing
<1>15. QED
  BY <1>4, <1>5, <1>6, <1>7, <1>8, <1>11, <1>12, <1>13, <1>14
     DEF Next, WorkerStep, MainStep

-----------------------------------------------------------------------------
(* What a serial step does to the row and the run, free of snapshots: the   *)
(* form the safety proofs use.                                              *)

\* A transaction sets this status; or, where it had loaded that very status, a
\* subprocess's write has replaced it and stays.
Sets(status) ==
    \/ run' = status
    \/ /\ run' = run /\ run \in Writes
       /\ status \notin {"PAUSED", "CANCELLED"}
       /\ status \in HeldStatus => lateWrite /\ lateWrite'

KeepsRun == run' = run /\ lateWrite' = lateWrite

Commits(w, o) ==
    /\ item.status = "LEASED" /\ item.owner = w
    /\ o \in {"CANCELLED", "SUCCEEDED", "PAUSED", "FINALIZE", "RETRY", "FAILED"}
    /\ \E ok \in BOOLEAN : o = Outcome(item, ok)
    /\ item' = Finished(item, o)
    /\ IF o \in {"RETRY", "SUCCEEDED"} THEN KeepsRun
       ELSE Sets(IF o = "FINALIZE" THEN "CREATED" ELSE o)

LEMMA SetsWhatWasAsked ==
  ASSUME NEW seen, Loaded(seen), NEW status, SetRun(seen, status),
         status = "PAUSED" => item.status \in {"QUEUED", "LEASED"},
         status = "CANCELLED" => item.status \in ActiveStatus
  PROVE  Sets(status)
<1>1. CASE status = seen
  BY <1>1 DEF SetRun, Column, Loaded, Sets
<1>2. CASE status # seen
  BY <1>2 DEF SetRun, Column, Sets
<1>3. QED
  BY <1>1, <1>2

LEMMA SerialFinish ==
  ASSUME SerialInv, NEW w \in Worker, FinishCommit(w)
  PROVE  Commits(w, Outcome(item, proc[w].result # "FAILED"))
<1> USE DEF SerialInv, OwnerInv
<1> DEFINE ok == proc[w].result # "FAILED"
           o  == Outcome(item, ok)
           n  == Finished(item, o)
<1>1. snap[w].item = item /\ Loaded(snap[w].run) /\ Owns(item, w)
  BY DEF Fresh, Finishing, FinishCommit, CommitsOwnLease
<1>2. o \in {"CANCELLED", "SUCCEEDED", "PAUSED", "FINALIZE", "RETRY", "FAILED"}
  BY OutcomeType DEF TypeOK
<1>3. n \in Item /\ n.expired = FALSE
  <2>1. n \in Item
    BY <1>2, FinishedType DEF TypeOK
  <2>2. item \in Item
    BY DEF TypeOK
  <2> HIDE DEF o
  <2>3. n.expired = FALSE
    BY <2>2 DEF Finished, Item
  <2>4. QED
    BY <2>1, <2>3
<1>4. item' = [Written(item, item, n) EXCEPT !.expired = FALSE]
  BY <1>1 DEF FinishCommit
<1>5. item' = n
  <2> HIDE DEF n
  <2>1. Written(item, item, n) = [n EXCEPT !.expired = item.expired]
    BY <1>3, WrittenFresh DEF TypeOK
  <2>2. QED
    BY <1>3, <1>4, <2>1 DEF Item
<1>6. IF o \in {"RETRY", "SUCCEEDED"} THEN KeepsRun
      ELSE Sets(IF o = "FINALIZE" THEN "CREATED" ELSE o)
  <2> DEFINE seen == snap[w].run
  <2>1. SetRun(seen, RunAfter(o, seen))
    BY <1>1 DEF FinishCommit
  <2> HIDE DEF o, seen
  <2>2. CASE o \in {"RETRY", "SUCCEEDED"}
    BY <2>1, <2>2 DEF RunAfter, SetRun, Column, KeepsRun, TypeOK
  <2>3. CASE o \notin {"RETRY", "SUCCEEDED"}
    <3> DEFINE s == IF o = "FINALIZE" THEN "CREATED" ELSE o
    <3>1. RunAfter(o, seen) = s
      BY <1>2, <2>3 DEF RunAfter
    <3>2. item.status = "LEASED" /\ Loaded(seen)
      BY <1>1 DEF Owns, seen
    <3> HIDE DEF s
    <3>3. Sets(s)
      BY <2>1, <3>1, <3>2, SetsWhatWasAsked
    <3>4. QED
      BY <2>3, <3>3 DEF s
  <2>4. QED
    BY <2>2, <2>3
<1>7. Commits(w, o)
  BY <1>1, <1>2, <1>5, <1>6 DEF Commits, Owns
<1>8. QED
  BY <1>7

LEMMA SerialAnswer ==
  ASSUME SerialInv, NEW c \in Client, NEW row, NEW status,
         request[c].op # "none", Answer(c, row, status),
         status = "PAUSED" => item.status \in {"QUEUED", "LEASED"},
         status = "CANCELLED" => item.status \in ActiveStatus
  PROVE  item' = row /\ Sets(status)
  BY SetsWhatWasAsked DEF SerialInv, Fresh, Asking, Answer

LEMMA SerialCancel ==
  ASSUME SerialInv, NEW c \in Client, Cancel(c)
  PROVE  /\ item.status \in ActiveStatus
         /\ item' = CancelledItem(item)
         /\ Sets(IF item.status = "LEASED" THEN "CANCEL_REQUESTED" ELSE "CANCELLED")
<1>1. request[c].item = item /\ item \in Item
  BY DEF SerialInv, OwnerInv, TypeOK, Fresh, Asking, Cancel
<1>2. item' = Written(item, item, CancelledItem(item))
  BY <1>1 DEF Cancel, Answer
<1>3. Written(item, item, CancelledItem(item)) = CancelledItem(item)
  <2> DEFINE n == CancelledItem(item)
  <2>1. n \in Item /\ n.expired = item.expired
    <3>1. n \in Item
      BY <1>1, ControlTypes
    <3>2. n.expired = item.expired
      BY <1>1 DEF CancelledItem, Item
    <3>3. QED
      BY <3>1, <3>2
  <2> HIDE DEF n
  <2>2. Written(item, item, n) = [n EXCEPT !.expired = item.expired]
    BY <1>1, <2>1, WrittenFresh
  <2>3. [n EXCEPT !.expired = item.expired] = n
    BY <2>1 DEF Item
  <2>4. QED
    BY <2>2, <2>3 DEF n
<1>4. item.status \in ActiveStatus
  BY <1>1 DEF Cancel, Answer, Accepts
<1>5. Sets(IF item.status = "LEASED" THEN "CANCEL_REQUESTED" ELSE "CANCELLED")
  <2> DEFINE s   == IF item.status = "LEASED" THEN "CANCEL_REQUESTED" ELSE "CANCELLED"
             row == Written(item, item, CancelledItem(item))
  <2>1. Answer(c, row, s) /\ request[c].op # "none"
    BY <1>1 DEF Cancel
  <2>2. s # "PAUSED"
    OBVIOUS
  <2> HIDE DEF s, row
  <2>3. Sets(s)
    BY <1>4, <2>1, <2>2, SerialAnswer
  <2>4. QED
    BY <2>3 DEF s
<1>6. QED
  BY <1>2, <1>3, <1>4, <1>5

-----------------------------------------------------------------------------
(* Serially, every step treats the row and the run in one of these ways.   *)

Takes(w) ==
    Claimable(item) /\ item' = Claimed(item, w) /\ KeepsRun

Renews ==
    /\ item.status = "LEASED"
    /\ \E b \in BOOLEAN : item' = [item EXCEPT !.expired = b]
    /\ KeepsRun

\* A status write: nothing changes, or a status no user set is replaced, or one
\* the subprocess has not seen.
Reports ==
    /\ item' = item
    /\ \/ KeepsRun
       \/ run' \in Writes /\ run \notin HeldStatus /\ lateWrite' = lateWrite
       \/ run' \in Writes /\ lateWrite' /\ \E w \in Worker : Alive(w)

Holds ==
    /\ item.status \in {"QUEUED", "LEASED"}
    /\ item' = PausedItem(item)
    /\ Sets(IF item.status = "QUEUED" THEN "PAUSED" ELSE "PAUSE_REQUESTED")

Resumes ==
    /\ item.status \in {"PAUSED", "FAILED", "SUCCEEDED"}
    /\ item' = ResumedItem(item)
    /\ Sets("CREATED")

Finalizes ==
    /\ item.status \in ActiveStatus
    /\ item' = FinalizingItem(item)
    /\ IF item.status = "LEASED" THEN KeepsRun ELSE Sets("CREATED")

Cancels ==
    /\ item.status \in ActiveStatus
    /\ item' = CancelledItem(item)
    /\ Sets(IF item.status = "LEASED" THEN "CANCEL_REQUESTED" ELSE "CANCELLED")

Restarts ==
    item.status \notin ActiveStatus /\ item' = NewItem /\ Sets("CREATED")

RowStep ==
    \/ \E w \in Worker : Takes(w) \/ (\E o : Commits(w, o))
    \/ Renews \/ Reports \/ Holds \/ Resumes \/ Finalizes \/ Cancels \/ Restarts

LEMMA AnswerRow ==
  ASSUME SerialInv, NEW c \in Client,
         Pause(c) \/ Resume(c) \/ FinishEarly(c) \/ Cancel(c)
  PROVE  Holds \/ Resumes \/ Finalizes \/ Cancels
<1>1. CASE Pause(c)
  <2>1. item.status \in {"QUEUED", "LEASED"}
    BY <1>1 DEF Pause, Answer, Accepts
  <2> DEFINE status == IF item.status = "QUEUED" THEN "PAUSED" ELSE "PAUSE_REQUESTED"
  <2>2. request[c].op # "none" /\ Answer(c, PausedItem(item), status)
    BY <1>1 DEF Pause
  <2>3. status # "CANCELLED"
    OBVIOUS
  <2>4. item' = PausedItem(item) /\ Sets(status)
    <3> HIDE DEF status
    <3>1. QED
      BY <2>1, <2>2, <2>3, SerialAnswer
  <2>5. QED
    BY <2>1, <2>4 DEF Holds
<1>2. CASE Resume(c)
  <2>1. request[c].op # "none" /\ Answer(c, ResumedItem(item), "CREATED")
    BY <1>2 DEF Resume
  <2>2. item' = ResumedItem(item) /\ Sets("CREATED")
    BY <2>1, SerialAnswer
  <2>3. item.status \in {"PAUSED", "FAILED", "SUCCEEDED"}
    BY <1>2 DEF Resume, Answer, Accepts, Retryable
  <2>4. QED
    BY <2>2, <2>3 DEF Resumes
<1>3. CASE FinishEarly(c)
  <2>1. item.status \in ActiveStatus /\ item' = FinalizingItem(item)
    BY <1>3 DEF FinishEarly, Answer, Accepts
  <2>2. CASE item.status = "LEASED"
    <3>1. SetRun(request[c].run, request[c].run)
      BY <1>3, <2>2 DEF FinishEarly, Answer
    <3>2. KeepsRun
      BY <3>1 DEF SetRun, Column, KeepsRun, SerialInv, OwnerInv, TypeOK
    <3>3. QED
      BY <2>1, <2>2, <3>2 DEF Finalizes
  <2>3. CASE item.status # "LEASED"
    <3>1. request[c].op # "none" /\ Answer(c, FinalizingItem(item), "CREATED")
      BY <1>3, <2>3 DEF FinishEarly
    <3>2. Sets("CREATED")
      BY <3>1, SerialAnswer
    <3>3. QED
      BY <2>1, <2>3, <3>2 DEF Finalizes
  <2>4. QED
    BY <2>2, <2>3
<1>4. CASE Cancel(c)
  <2>1. Cancels
    BY <1>4, SerialCancel DEF Cancels
  <2>2. QED
    BY <2>1
<1>5. QED
  BY <1>1, <1>2, <1>3, <1>4

LEMMA SerialRow ==
  ASSUME SerialInv, [Next]_vars
  PROVE  RowStep
<1> USE DEF outputs, counters
<1>1. ASSUME NEW w \in Worker, Claim(w) PROVE RowStep
  BY <1>1 DEF Claim, Takes, KeepsRun, RowStep
<1>2. ASSUME NEW w \in Worker, HeartbeatKept(w) PROVE RowStep
  <2>1. item.status = "LEASED" /\ item' = [item EXCEPT !.expired = FALSE] /\ KeepsRun
    BY <1>2 DEF HeartbeatKept, KeepsLease, Owns, KeepsRun
  <2>2. QED
    BY <2>1 DEF Renews, RowStep
<1>3. ASSUME ExpireLease PROVE RowStep
  BY <1>3 DEF ExpireLease, Renews, KeepsRun, RowStep
<1>4. ASSUME NEW w \in Worker, FinishCommit(w) PROVE RowStep
  BY <1>4, SerialFinish DEF RowStep
<1>5. ASSUME NEW w \in Worker, StatusCommit(w) PROVE RowStep
  <2>1. Alive(w) /\ item' = item
    BY <1>5 DEF StatusCommit, Alive
  <2>2. \/ KeepsRun
        \/ run' \in Writes /\ run \notin HeldStatus /\ lateWrite' = lateWrite
        \/ run' \in Writes /\ lateWrite'
    BY <1>5, StatusCommits DEF SerialInv, OwnerInv, TypeOK, KeepsRun
  <2>3. QED
    BY <2>1, <2>2 DEF Reports, RowStep
<1>6. ASSUME NEW c \in Client, Pause(c) \/ Resume(c) \/ FinishEarly(c) \/ Cancel(c)
      PROVE  RowStep
  <2>1. Holds \/ Resumes \/ Finalizes \/ Cancels
    BY <1>6, AnswerRow
  <2>2. QED
    BY <2>1 DEF RowStep
<1>7. ASSUME FollowUp PROVE RowStep
  <2>1. item.status \notin ActiveStatus /\ item' = NewItem /\ run' = "CREATED"
    BY <1>7 DEF FollowUp, SetRun, Column
  <2>2. QED
    BY <2>1 DEF Restarts, Sets, RowStep
<1>8. ASSUME UNCHANGED <<item, run, lateWrite>> PROVE RowStep
  BY <1>8 DEF Reports, KeepsRun, RowStep
<1>9. ASSUME NEW w \in Worker,
              \/ Poll(w) \/ HeartbeatRefused(w) \/ FinishRead(w) \/ FinishLost(w)
              \/ Crash(w) \/ MainStart(w) \/ MainTask(w) \/ MainReport(w)
              \/ MainFinal(w) \/ MainError(w) \/ ProcDies(w)
       PROVE  UNCHANGED <<item, run, lateWrite>>
  BY <1>9 DEF Poll, HeartbeatRefused, FinishRead, FinishLost, Crash, MainStart,
     MainTask, MainReport, MainFinal, MainError, ProcDies
<1>10. ASSUME NEW c \in Client, Rejected(c) \/ (\E op \in Operation : Ask(c, op))
       PROVE  UNCHANGED <<item, run, lateWrite>>
  BY <1>10 DEF Rejected, Ask
<1>11. CASE UNCHANGED vars
  BY <1>8, <1>11 DEF vars
<1>12. QED
  BY <1>1, <1>2, <1>3, <1>4, <1>5, <1>6, <1>7, <1>8, <1>9, <1>10, <1>11
     DEF Next, WorkerStep, MainStep, AnswerStep

LEMMA RunPartsStep ==
  ASSUME item \in Item, RunParts, RowStep
  PROVE  RunParts'
<1> USE DEF Writes, Ending
<1>1. ASSUME item'.status \in {"QUEUED", "LEASED"}, Sets("CREATED") PROVE RunParts'
  BY <1>1 DEF Sets, RunParts
<1>2. ASSUME NEW w \in Worker, Takes(w) PROVE RunParts'
  <2>1. item.status \in {"QUEUED", "LEASED"} /\ run' = run
    BY <1>2 DEF Takes, Claimable, KeepsRun
  <2>2. QED
    BY <2>1 DEF RunParts
<1>3. ASSUME NEW w \in Worker, NEW o, Commits(w, o) PROVE RunParts'
  <2>1. item'.status = IF o \in {"FINALIZE", "RETRY"} THEN "QUEUED" ELSE o
    BY <1>3 DEF Commits, Finished, Item
  <2>2. CASE o = "FINALIZE"
    BY <1>1, <1>3, <2>1, <2>2 DEF Commits
  <2>3. CASE o = "RETRY"
    BY <1>3, <2>1, <2>3 DEF Commits, KeepsRun, RunParts
  <2>4. CASE o = "PAUSED"
    BY <1>3, <2>1, <2>4 DEF Commits, Sets, RunParts
  <2>5. CASE o \in {"CANCELLED", "SUCCEEDED", "FAILED"}
    BY <2>1, <2>5 DEF RunParts
  <2>6. QED
    BY <1>3, <2>2, <2>3, <2>4, <2>5 DEF Commits
<1>4. CASE Renews
  <2>1. item'.status = item.status /\ run' = run
    BY <1>4 DEF Renews, KeepsRun, Item
  <2>2. QED
    BY <2>1 DEF RunParts
<1>5. CASE Reports
  BY <1>5 DEF Reports, KeepsRun, RunParts
<1>6. CASE Holds
  <2>1. \/ item'.status = "PAUSED" /\ Sets("PAUSED")
        \/ item.status = "LEASED" /\ item'.status = "LEASED" /\ Sets("PAUSE_REQUESTED")
    BY <1>6 DEF Holds, PausedItem, Item
  <2>2. QED
    BY <2>1 DEF Sets, RunParts
<1>7. CASE Resumes \/ Restarts
  <2>1. CASE Resumes
    BY <1>1, <2>1 DEF Resumes, ResumedItem, Item
  <2>2. CASE Restarts
    BY <1>1, <2>2 DEF Restarts, NewItem
  <2>3. QED
    BY <1>7, <2>1, <2>2
<1>8. CASE Finalizes
  <2>1. \/ item'.status = "QUEUED" /\ Sets("CREATED")
        \/ item.status = "LEASED" /\ item'.status = "LEASED" /\ run' = run
    BY <1>8 DEF Finalizes, FinalizingItem, KeepsRun, Item
  <2>2. QED
    BY <1>1, <2>1 DEF RunParts
<1>9. CASE Cancels
  <2>1. \/ item'.status = "CANCELLED"
        \/ item.status = "LEASED" /\ item'.status = "LEASED" /\ Sets("CANCEL_REQUESTED")
    BY <1>9 DEF Cancels, CancelledItem, Item
  <2>2. QED
    BY <2>1 DEF Sets, RunParts
<1>10. QED
  BY <1>2, <1>3, <1>4, <1>5, <1>6, <1>7, <1>8, <1>9 DEF RowStep

\* While the queue's transactions do not overlap, every commit finds the row it
\* loaded, and of the run what it loaded or what a subprocess wrote since.
THEOREM Serial ==
  ASSUME Overlap = FALSE
  PROVE  Spec => []SerialInv
<1>1. Init => SerialInv
  BY OwnerInit DEF SerialInv, Init, Fresh, Exclusive, RunParts, Finishing, Writing,
     Asking, NoProc, NoRequest
<1>2. SerialInv /\ [Next]_vars => SerialInv'
  BY OwnerStep, SerialStep, SerialRow, RunPartsStep DEF SerialInv, OwnerInv, TypeOK
<1>3. QED
  BY <1>1, <1>2, PTL DEF Spec

-----------------------------------------------------------------------------
(* One execution at a time, as long as no lease has run out.               *)

ExecutionInv ==
    ~lapsed => /\ ~item.expired
               /\ \A w \in Worker : Alive(w) => Owns(item, w)

LEMMA LapsedStays == [Next]_vars /\ ~lapsed' => ~lapsed
<1> SUFFICES ASSUME [Next]_vars, ~lapsed' PROVE ~lapsed
  OBVIOUS
<1>1. lapsed' = TRUE \/ lapsed' = lapsed
  BY DEF Next, WorkerStep, MainStep, AnswerStep, vars, Claim, Poll, HeartbeatKept,
     HeartbeatRefused, FinishRead, FinishLost, FinishCommit, Crash, MainStart,
     MainTask, MainReport, MainFinal, MainError, StatusCommit, ProcDies, Ask, Pause,
     Resume, FinishEarly, Cancel, Answer, Rejected, FollowUp, ExpireLease, counters
<1>2. QED
  BY <1>1

\* Alive processes never appear but by a claim.
LEMMA ExecutionStep ==
  ASSUME SerialInv, ExecutionInv, [Next]_vars
  PROVE  ExecutionInv'
<1> SUFFICES ASSUME ~lapsed' PROVE ~item'.expired /\ \A w \in Worker : Alive(w)' => Owns(item', w)
  BY DEF ExecutionInv
<1> DEFINE Held == ~item'.expired /\ \A w \in Worker : Alive(w)' => Owns(item', w)
<1>1. item \in Item /\ TypeOK
  BY DEF SerialInv, OwnerInv, TypeOK
<1>2. CASE ExpireLease
  BY <1>2 DEF ExpireLease
<1> USE DEF outputs, counters
<1>3. CASE ~ExpireLease
  <2>1. lapsed' = lapsed
    BY <1>3 DEF Next, WorkerStep, MainStep, AnswerStep, vars, Claim, Poll, HeartbeatKept,
       HeartbeatRefused, FinishRead, FinishLost, FinishCommit, Crash, MainStart,
       MainTask, MainReport, MainFinal, MainError, StatusCommit, ProcDies, Ask, Pause,
       Resume, FinishEarly, Cancel, Answer, Rejected, FollowUp
  <2>2. ~item.expired /\ \A w \in Worker : Alive(w) => Owns(item, w)
    BY <2>1 DEF ExecutionInv
  <2>3. ASSUME item' = item, \A w \in Worker : Alive(w)' => Alive(w) PROVE Held
    BY <2>2, <2>3
  <2>4. ASSUME NEW w \in Worker, Claim(w) PROVE Held
    <3>1. item.status = "QUEUED" /\ item' = Claimed(item, w)
      BY <2>2, <2>4 DEF Claim, Claimable
    <3>2. \A v \in Worker : ~Alive(v)
      BY <2>2, <3>1 DEF Owns
    <3>3. \A v \in Worker : v # w => proc'[v] = proc[v]
      BY <1>1, <2>4 DEF Claim, TypeOK
    <3>4. Owns(item', w) /\ ~item'.expired
      BY <1>1, <3>1 DEF Claimed, Owns, Item
    <3>5. QED
      BY <3>2, <3>3, <3>4 DEF Alive
  <2>5. ASSUME NEW w \in Worker, HeartbeatKept(w) PROVE Held
    <3>1. item' = [item EXCEPT !.expired = FALSE] /\ proc' = proc
      BY <2>5 DEF HeartbeatKept
    <3>2. \A v \in Worker : Owns(item, v) => Owns(item', v)
      BY <1>1, <3>1 DEF Owns, Item
    <3>3. QED
      BY <1>1, <2>2, <3>1, <3>2 DEF Alive, Item
  <2>6. ASSUME NEW w \in Worker, FinishCommit(w) PROVE Held
    <3>1. PICK o : Commits(w, o)
      BY <1>1, <2>6, SerialFinish
    <3>2. \A v \in Worker : v # w => ~Alive(v)
      BY <2>2, <3>1 DEF Commits, Owns
    <3>3. proc' = [proc EXCEPT ![w] = NoProc]
      BY <2>6 DEF FinishCommit
    <3>4. \A v \in Worker : ~Alive(v)'
      BY <1>1, <3>2, <3>3 DEF TypeOK, Alive, NoProc
    <3>5. ~item'.expired
      BY <1>1, <3>1 DEF Commits, Finished, Item
    <3>6. QED
      BY <3>4, <3>5
  <2>7. ASSUME NEW c \in Client, Pause(c) \/ Resume(c) \/ FinishEarly(c) \/ Cancel(c)
        PROVE  Held
    <3>1. Holds \/ Resumes \/ Finalizes \/ Cancels
      BY <1>1, <2>7, AnswerRow
    <3>2. proc' = proc
      BY <2>7 DEF Pause, Resume, FinishEarly, Cancel, Answer
    <3>3. item'.expired = item.expired /\ \A v \in Worker : Owns(item, v) => Owns(item', v)
      <4>1. CASE Holds
        BY <1>1, <4>1 DEF Holds, PausedItem, Owns, Item
      <4>2. CASE Resumes
        BY <1>1, <4>2 DEF Resumes, ResumedItem, Owns, Item
      <4>3. CASE Finalizes
        BY <1>1, <4>3 DEF Finalizes, FinalizingItem, Owns, Item
      <4>4. CASE Cancels
        BY <1>1, <4>4 DEF Cancels, CancelledItem, Owns, Item
      <4>5. QED
        BY <3>1, <4>1, <4>2, <4>3, <4>4
    <3>4. QED
      BY <2>2, <3>2, <3>3 DEF Alive
  <2>8. CASE FollowUp
    <3>1. \A v \in Worker : ~Alive(v)
      BY <2>2, <2>8 DEF FollowUp, Owns
    <3>2. QED
      BY <2>8, <3>1 DEF FollowUp, NewItem, Alive
  <2>9. ASSUME NEW w \in Worker,
               \/ HeartbeatRefused(w) \/ FinishLost(w) \/ MainStart(w) \/ MainError(w)
               \/ MainFinal(w) \/ StatusCommit(w) \/ MainReport(w) \/ ProcDies(w)
        PROVE  item' = item /\ \A v \in Worker : Alive(v)' => Alive(v)
    <3>1. item' = item /\ \A v \in Worker : v # w => proc'[v] = proc[v]
      BY <1>1, <2>9 DEF TypeOK, HeartbeatRefused, FinishLost, MainStart, MainError,
         MainFinal, UpdateRunStatus, StatusCommit, MainReport, ProcDies
    <3>2. Alive(w)' => Alive(w)
      <4>1. CASE HeartbeatRefused(w)
        BY <1>1, <4>1 DEF TypeOK, Proc, Alive, HeartbeatRefused
      <4>2. CASE FinishLost(w)
        BY <1>1, <4>2 DEF TypeOK, NoProc, Alive, FinishLost
      <4>3. CASE ~HeartbeatRefused(w) /\ ~FinishLost(w)
        BY <2>9, <4>3 DEF Alive, MainStart, MainError, MainFinal, StatusCommit,
           MainReport, ProcDies
      <4>4. QED
        BY <4>1, <4>2, <4>3
    <3>3. QED
      BY <3>1, <3>2 DEF Alive
  <2>10. ASSUME NEW w \in Worker, Poll(w) \/ FinishRead(w) \/ Crash(w) \/ MainTask(w)
         PROVE  item' = item /\ proc' = proc
    BY <2>10 DEF Poll, FinishRead, Crash, MainTask
  <2>11. ASSUME NEW c \in Client, Rejected(c) \/ (\E op \in Operation : Ask(c, op))
         PROVE  item' = item /\ proc' = proc
    BY <2>11 DEF Rejected, Ask
  <2>12. ASSUME item' = item, proc' = proc PROVE Held
    BY <2>3, <2>12 DEF Alive
  <2>13. CASE UNCHANGED vars
    BY <2>12, <2>13 DEF vars
  <2>14. QED
    BY <1>3, <2>3, <2>4, <2>5, <2>6, <2>7, <2>8, <2>9, <2>10, <2>11, <2>12, <2>13
       DEF Next, WorkerStep, MainStep, AnswerStep
<1>4. QED
  BY <1>2, <1>3

\* Without overlapping queue transactions, as long as no lease has run out, at most
\* one process executes the run, and none unless the row is leased.
THEOREM SinglyExecuted ==
  ASSUME Overlap = FALSE
  PROVE  Spec => []SingleExecution
<1>1. Init => ExecutionInv
  BY DEF Init, NewItem, NoProc, ExecutionInv, Alive
<1>2. ExecutionInv => SingleExecution
  BY DEF ExecutionInv, SingleExecution
<1>3. QED
  BY <1>1, <1>2, ExecutionStep, Serial, PTL DEF Spec

-----------------------------------------------------------------------------
(* Requests.  A queued row carries neither a cancellation nor a pause, so a *)
(* claim never starts work under a request, and the status a user asked for *)
(* was written by the transaction that took the request.                    *)

RequestInv ==
    /\ CancelNotLost
    /\ item.status = "QUEUED" => ~item.pause
    /\ StatusTellsRequest

LEMMA CommitsKeepsRequests ==
  ASSUME item \in Item, RequestInv, NEW w \in Worker, NEW o, Commits(w, o)
  PROVE  RequestInv'
<1> DEFINE Kept == item.cancel' = item.cancel /\ (o = "CANCELLED" <=> item.cancel)
<1>1. Kept
  BY DEF Commits, Finished, Outcome, Item
<1>2. /\ item'.status # "LEASED"
      /\ item'.status = "QUEUED" => o \in {"FINALIZE", "RETRY"}
      /\ item'.status \in {"PAUSED", "CANCELLED"} => item'.status = o
      /\ o = "CANCELLED" => item'.status = "CANCELLED"
  BY DEF Commits, Finished, Item
<1>3. o \in {"FINALIZE", "RETRY"} => ~item'.pause
  BY DEF Commits, Finished, Outcome, Item
<1>4. o \in {"PAUSED", "CANCELLED"} => run' = o
  BY DEF Commits, Sets
<1>5. QED
  BY <1>1, <1>2, <1>3, <1>4 DEF RequestInv, CancelNotLost, StatusTellsRequest

\* A status write hides a pending request only when it is a late one, and finds
\* nobody's work paused or cancelled unless a lease has run out: its process
\* would be the lease's owner's.
LEMMA ReportsKeepsRequests ==
  ASSUME RequestInv, ExecutionInv, ~lapsed' => ~lapsed, Reports
  PROVE  RequestInv'
<1>1. CASE KeepsRun
  BY <1>1 DEF Reports, KeepsRun, RequestInv, CancelNotLost, StatusTellsRequest
<1>2. CASE run' \in Writes /\ run \notin HeldStatus /\ lateWrite' = lateWrite
  BY <1>2 DEF Reports, RequestInv, CancelNotLost, StatusTellsRequest
<1>3. CASE run' \in Writes /\ lateWrite' /\ \E w \in Worker : Alive(w)
  <2>1. ~lapsed => item.status = "LEASED"
    BY <1>3 DEF ExecutionInv, Owns
  <2>2. QED
    BY <1>3, <2>1 DEF Reports, RequestInv, CancelNotLost, StatusTellsRequest
<1>4. QED
  BY <1>1, <1>2, <1>3 DEF Reports

LEMMA RequestStep ==
  ASSUME item \in Item, RequestInv, ExecutionInv, RowStep, ~lapsed' => ~lapsed
  PROVE  RequestInv'
<1> USE DEF Item
<1>1. ASSUME NEW w \in Worker, Takes(w) PROVE RequestInv'
  BY <1>1 DEF Takes, Claimable, Claimed, KeepsRun, RequestInv, CancelNotLost,
     StatusTellsRequest
<1>2. ASSUME Renews PROVE RequestInv'
  BY <1>2 DEF Renews, KeepsRun, RequestInv, CancelNotLost, StatusTellsRequest
<1>3. ASSUME Reports PROVE RequestInv'
  BY <1>3, ReportsKeepsRequests
<1>4. ASSUME Holds PROVE RequestInv'
  BY <1>4 DEF Holds, PausedItem, Sets, RequestInv, CancelNotLost, StatusTellsRequest
<1>5. ASSUME Resumes PROVE RequestInv'
  BY <1>5 DEF Resumes, ResumedItem, RequestInv, CancelNotLost, StatusTellsRequest
<1>6. ASSUME Finalizes PROVE RequestInv'
  BY <1>6 DEF Finalizes, FinalizingItem, KeepsRun, RequestInv, CancelNotLost,
     StatusTellsRequest
<1>7. ASSUME Cancels PROVE RequestInv'
  BY <1>7 DEF Cancels, CancelledItem, Sets, RequestInv, CancelNotLost, StatusTellsRequest
<1>8. ASSUME Restarts PROVE RequestInv'
  BY <1>8 DEF Restarts, NewItem, RequestInv, CancelNotLost, StatusTellsRequest
<1>9. QED
  BY <1>1, <1>2, <1>3, <1>4, <1>5, <1>6, <1>7, <1>8, CommitsKeepsRequests DEF RowStep

SafeInv == SerialInv /\ ExecutionInv /\ RequestInv

LEMMA SafeInvariant ==
  ASSUME Overlap = FALSE
  PROVE  Spec => []SafeInv
<1>1. Init => RequestInv /\ ExecutionInv
  BY DEF Init, NewItem, NoProc, RequestInv, CancelNotLost, StatusTellsRequest,
     ExecutionInv, Alive
<1>2. SerialInv /\ ExecutionInv /\ RequestInv /\ [Next]_vars => RequestInv'
  BY SerialRow, LapsedStays, RequestStep DEF SerialInv, OwnerInv, TypeOK
<1>3. QED
  BY <1>1, <1>2, ExecutionStep, Serial, PTL DEF Spec, SafeInv

\* Without overlapping queue transactions an accepted cancellation is carried out by
\* the lease's owner or has taken effect (with them it can be lost).
THEOREM CancelKept ==
  ASSUME Overlap = FALSE
  PROVE  Spec => []CancelNotLost
<1>1. SafeInv => CancelNotLost
  BY DEF SafeInv, RequestInv
<1>2. QED
  BY <1>1, SafeInvariant, PTL

\* As long as the queue's own transactions do not overlap, the run's status tells
\* what its user asked for, whenever subprocesses, orphans and restarts write to
\* it: only a write that replaced a status it had not read hides a pending
\* request, and none one that took effect, unless a lease had run out.
THEOREM StatusTruthful ==
  ASSUME Overlap = FALSE
  PROVE  Spec => []StatusTellsRequest
<1>1. SafeInv => StatusTellsRequest
  BY DEF SafeInv, RequestInv
<1>2. QED
  BY <1>1, SafeInvariant, PTL

\* Without overlapping queue transactions no pause, cancellation or early finish is
\* ever turned into a failure, and none is declared before the last attempt.
THEOREM FailureDeclared ==
  ASSUME Overlap = FALSE
  PROVE  Spec => FailureIsNoRequest
<1> DEFINE Declared ==
             item.status # "FAILED" /\ item'.status = "FAILED" =>
               /\ ~item.cancel /\ ~item.pause
               /\ item.finish => item.early
               /\ item.attempts = MaxAttempts
<1>1. ASSUME SafeInv, [Next]_vars PROVE Declared
  <2>1. item \in Item /\ RowStep
    BY <1>1, SerialRow DEF SafeInv, SerialInv, OwnerInv, TypeOK
  <2>2. ASSUME NEW w \in Worker, NEW o, Commits(w, o) PROVE Declared
    <3>1. item'.status = "FAILED" => o = "FAILED"
      BY <2>1, <2>2 DEF Commits, Finished, Item
    <3>2. o = "FAILED" =>
            /\ ~item.cancel /\ ~item.pause
            /\ item.finish => item.early
            /\ ~(item.attempts < MaxAttempts)
      BY <2>1, <2>2 DEF Commits, Outcome, Item
    <3>3. item.attempts \in 0..MaxAttempts
      BY <2>1 DEF Item
    <3>4. QED
      BY <3>1, <3>2, <3>3, AttemptsAssumption
  <2>3. ASSUME NEW w \in Worker, Takes(w) PROVE Declared
    BY <2>1, <2>3 DEF Takes, Claimed, Item
  <2>4. ASSUME \/ Renews \/ Reports \/ Holds \/ Resumes \/ Finalizes \/ Cancels
               \/ Restarts
        PROVE  Declared
    <3>1. CASE Renews
      BY <2>1, <3>1 DEF Renews, Item
    <3>2. CASE Reports
      BY <3>2 DEF Reports
    <3>3. CASE Holds
      BY <2>1, <3>3 DEF Holds, PausedItem, Item
    <3>4. CASE Resumes
      BY <2>1, <3>4 DEF Resumes, ResumedItem, Item
    <3>5. CASE Finalizes
      BY <2>1, <3>5 DEF Finalizes, FinalizingItem, Item
    <3>6. CASE Cancels
      BY <2>1, <3>6 DEF Cancels, CancelledItem, Item
    <3>7. CASE Restarts
      BY <3>7 DEF Restarts, NewItem
    <3>8. QED
      BY <2>4, <3>1, <3>2, <3>3, <3>4, <3>5, <3>6, <3>7
  <2>5. QED
    BY <2>1, <2>2, <2>3, <2>4 DEF RowStep
<1>2. SafeInv /\ [Next]_vars => [Declared]_vars
  BY <1>1
<1>3. QED
  BY <1>2, SafeInvariant, PTL DEF Spec, FailureIsNoRequest

-----------------------------------------------------------------------------
(* The queue implements its contract with the owner of the run.            *)

ContractStep == [Contract!ContractNext]_Contract!contractVars

LEMMA RowStepKeepsContract ==
  ASSUME item \in Item, CancelNotLost, RowStep
  PROVE  ContractStep
<1> USE DEF ContractStep, Contract!ContractNext, Contract!contractVars, ItemPhase
<1>1. ASSUME NEW w \in Worker, Takes(w)
      PROVE  Contract!Start \/ UNCHANGED <<ItemPhase, item.cancel>>   \* or a takeover
  BY <1>1 DEF Takes, Claimable, Claimed, Contract!Start, Item
<1>2. ASSUME NEW w \in Worker, NEW o, Commits(w, o)
      PROVE  Contract!Conclude \/ Contract!StopCancelled
  <2>1. /\ item'.cancel = item.cancel
        /\ item'.status = IF o \in {"FINALIZE", "RETRY"} THEN "QUEUED" ELSE o
        /\ o = "CANCELLED" <=> item.cancel
    BY <1>2 DEF Commits, Finished, Outcome, Item
  <2>2. QED
    BY <1>2, <2>1 DEF Commits, Contract!Conclude, Contract!StopCancelled, Item
<1>3. ASSUME Renews \/ Reports PROVE UNCHANGED <<ItemPhase, item.cancel>>
  <2>1. CASE Renews
    BY <2>1 DEF Renews, Item
  <2>2. CASE Reports
    BY <2>2 DEF Reports
  <2>3. QED
    BY <1>3, <2>1, <2>2
<1>4. ASSUME Holds PROVE Contract!Hold \/ UNCHANGED <<ItemPhase, item.cancel>>
  BY <1>4 DEF Holds, PausedItem, Contract!Hold, Item
<1>5. ASSUME Resumes PROVE Contract!Release
  BY <1>5 DEF Resumes, ResumedItem, CancelNotLost, Contract!Release, Item
<1>6. ASSUME Finalizes
      PROVE  Contract!Release \/ UNCHANGED <<ItemPhase, item.cancel>>
  BY <1>6 DEF Finalizes, FinalizingItem, CancelNotLost, Contract!Release, Item
<1>7. ASSUME Cancels PROVE Contract!AskCancel \/ Contract!CancelNow
  BY <1>7 DEF Cancels, CancelledItem, Contract!AskCancel, Contract!CancelNow, Item
<1>8. ASSUME Restarts PROVE Contract!Reopen
  BY <1>8 DEF Restarts, NewItem, Contract!Reopen, Item
<1>9. QED
  BY <1>1, <1>2, <1>3, <1>4, <1>5, <1>6, <1>7, <1>8 DEF RowStep

\* Without overlapping queue transactions every behaviour of workers, requests,
\* crashes and lease expiries is one the contract allows.
THEOREM ContractKept ==
  ASSUME Overlap = FALSE
  PROVE  Spec => KeepsContract
<1>1. Init => Contract!ContractInit
  BY DEF Init, NewItem, Contract!ContractInit, ItemPhase
<1>2. SafeInv /\ [Next]_vars => ContractStep
  BY SerialRow, RowStepKeepsContract DEF SafeInv, RequestInv, SerialInv, OwnerInv, TypeOK
<1>3. QED
  BY <1>1, <1>2, SafeInvariant, PTL
     DEF Spec, KeepsContract, Contract!ContractSpec, ContractStep

-----------------------------------------------------------------------------
(* Steps by what they touch: a claim, a commit of finish_work, a subprocess, *)
(* the row alone, or neither the row nor any subprocess.                    *)

ProcStep(w) ==
    \/ HeartbeatRefused(w) \/ FinishLost(w) \/ MainStart(w) \/ MainReport(w)
    \/ MainFinal(w) \/ MainError(w) \/ StatusCommit(w) \/ ProcDies(w)

RowOnly == Renews \/ Holds \/ Resumes \/ Finalizes \/ Cancels \/ Restarts

LEMMA StepKinds ==
  ASSUME SerialInv, [Next]_vars
  PROVE  \/ \E w \in Worker : Claim(w) \/ FinishCommit(w) \/ ProcStep(w)
         \/ RowOnly /\ UNCHANGED proc
         \/ UNCHANGED <<item, run, proc>>
<1> USE DEF outputs, counters
<1>1. ASSUME NEW w \in Worker, HeartbeatKept(w) PROVE RowOnly /\ UNCHANGED proc
  <2>1. item.status = "LEASED" /\ item' = [item EXCEPT !.expired = FALSE] /\ KeepsRun
    BY <1>1 DEF HeartbeatKept, KeepsLease, Owns, KeepsRun
  <2>2. UNCHANGED proc
    BY <1>1 DEF HeartbeatKept
  <2>3. QED
    BY <2>1, <2>2 DEF RowOnly, Renews
<1>2. ASSUME ExpireLease PROVE RowOnly /\ UNCHANGED proc
  BY <1>2 DEF ExpireLease, RowOnly, Renews, KeepsRun
<1>3. ASSUME FollowUp PROVE RowOnly /\ UNCHANGED proc
  BY <1>3 DEF FollowUp, SetRun, Column, Sets, RowOnly, Restarts
<1>4. ASSUME NEW c \in Client, Pause(c) \/ Resume(c) \/ FinishEarly(c) \/ Cancel(c)
      PROVE  RowOnly /\ UNCHANGED proc
  <2>1. Holds \/ Resumes \/ Finalizes \/ Cancels
    BY <1>4, AnswerRow
  <2>2. UNCHANGED proc
    BY <1>4 DEF Pause, Resume, FinishEarly, Cancel, Answer
  <2>3. QED
    BY <2>1, <2>2 DEF RowOnly
<1>5. ASSUME NEW w \in Worker, Poll(w) \/ FinishRead(w) \/ Crash(w) \/ MainTask(w)
      PROVE  UNCHANGED <<item, run, proc>>
  BY <1>5 DEF Poll, FinishRead, Crash, MainTask
<1>6. ASSUME NEW c \in Client, Rejected(c) \/ (\E op \in Operation : Ask(c, op))
      PROVE  UNCHANGED <<item, run, proc>>
  BY <1>6 DEF Rejected, Ask
<1>7. CASE UNCHANGED vars
  BY <1>7 DEF vars
<1>8. QED
  BY <1>1, <1>2, <1>3, <1>4, <1>5, <1>6, <1>7
     DEF Next, WorkerStep, MainStep, AnswerStep, ProcStep

\* A worker finishes only a subprocess that has exited.
ProcParts ==
    \A w \in Worker :
        worker[w] \in {"finishing", "committing"} => proc[w].phase = "exited"

\* A run whose work waits or is under way is not said to be cancelled for nothing.
CancelTold ==
    item.status \in {"QUEUED", "LEASED"} /\ run = "CANCEL_REQUESTED" => item.cancel

\* The run of a subprocess that has ended well says so, unless the user asked
\* for something else in the meantime.
ExitsTold ==
    \A w \in Worker :
        /\ Owns(item, w) /\ ~item.cancel
        /\ proc[w].phase = "exited" /\ proc[w].result # "FAILED"
        => run \in {"COMPLETED", "COMPLETED_WITH_ERRORS", "PAUSE_REQUESTED"}

\* While the lease's owner writes a status, only its user's pause or cancellation
\* comes in between.
WritesTold ==
    \A w \in Worker :
        Owns(item, w) /\ ~item.cancel /\ Writing(w) =>
            run \in {proc[w].seen, "PAUSE_REQUESTED"}

\* Nothing comes between the two steps of finish_work.
FinishTold == \A w \in Worker : Finishing(w) => snap[w].run = run

\* What remains to show for a run none of whose leases has run out.
Told ==
    /\ ExitsTold /\ WritesTold
    /\ item.status = "FAILED" => run = "FAILED"
    /\ item.status = "SUCCEEDED" =>
          run \in {"COMPLETED", "COMPLETED_WITH_ERRORS", "PAUSE_REQUESTED"}

EndInv == ProcParts /\ CancelTold /\ (~lapsed => Told /\ FinishTold)

LEMMA ProcEffect ==
  ASSUME SerialInv, NEW w \in Worker, ProcStep(w)
  PROVE  /\ item' = item /\ lapsed' = lapsed
         /\ \A v \in Worker : v # w => proc'[v] = proc[v]
         /\ Alive(w)' => Alive(w) /\ proc'[w].early = proc[w].early
         /\ UNCHANGED run \/ (Alive(w) /\ run' \in Writes)
         /\ Writing(w)' => UNCHANGED run /\ proc'[w].seen = run
         /\ proc'[w].phase = "exited" /\ proc'[w].result # "FAILED" =>
               \/ run' \in {"COMPLETED", "COMPLETED_WITH_ERRORS"}
               \/ run \in HeldStatus /\ UNCHANGED run
               \/ /\ UNCHANGED run /\ Writing(w)
                  /\ proc[w].seen \in {"COMPLETED", "COMPLETED_WITH_ERRORS"}
<1>1. TypeOK /\ Fresh /\ proc \in [Worker -> Proc] /\ proc[w] \in Proc
  BY DEF SerialInv, OwnerInv, TypeOK
<1> USE DEF outputs, counters, Writing
<1>2. CASE MainStart(w) \/ MainError(w) \/ MainFinal(w)
  BY <1>1, <1>2, StatusBegins DEF Alive
<1>3. CASE StatusCommit(w)
  <2>1. proc'[w].phase = "exited" /\ proc'[w].result # "FAILED" =>
          proc[w].result \in {"COMPLETED", "COMPLETED_WITH_ERRORS"}
    BY <1>1, <1>3, StatusCommits DEF Writes, Ending
  <2>2. QED
    BY <1>1, <1>3, <2>1, StatusCommits DEF Alive
<1>4. CASE MainReport(w)
  <2>1. PICK p \in Proc : p = [proc[w] EXCEPT !.phase = "reported"]
    BY <1>1 DEF Proc
  <2>2. p.phase = "reported" /\ p.early = proc[w].early
    BY <1>1, <2>1 DEF Proc
  <2>3. proc'[w] = p /\ \A v \in Worker : v # w => proc'[v] = proc[v]
    BY <1>1, <1>4, <2>1 DEF MainReport
  <2>4. Alive(w) /\ UNCHANGED <<item, run, lapsed>>
    BY <1>4 DEF MainReport, Alive
  <2>5. QED
    BY <2>2, <2>3, <2>4
<1>5. CASE HeartbeatRefused(w)
  <2>1. PICK p \in Proc : p = [proc[w] EXCEPT !.phase = "exited", !.result = "FAILED"]
    BY <1>1 DEF Proc
  <2>2. p.phase = "exited" /\ p.result = "FAILED"
    BY <1>1, <2>1 DEF Proc
  <2>3. proc'[w] = p /\ \A v \in Worker : v # w => proc'[v] = proc[v]
    BY <1>1, <1>5, <2>1 DEF HeartbeatRefused
  <2>4. UNCHANGED <<item, run, lapsed>>
    BY <1>5 DEF HeartbeatRefused
  <2>5. QED
    BY <2>2, <2>3, <2>4 DEF Alive
<1>6. CASE FinishLost(w)
  <2>1. proc'[w] = NoProc /\ \A v \in Worker : v # w => proc'[v] = proc[v]
    BY <1>1, <1>6 DEF FinishLost
  <2>2. UNCHANGED <<item, run, lapsed>>
    BY <1>6 DEF FinishLost
  <2>3. QED
    BY <2>1, <2>2 DEF Alive, NoProc
<1>7. CASE ProcDies(w)
  <2>1. /\ proc'[w].phase = "exited" /\ proc'[w].result = "FAILED"
        /\ \A v \in Worker : v # w => proc'[v] = proc[v]
    BY <1>1, <1>7 DEF ProcDies, NoProc
  <2>2. UNCHANGED <<item, run, lapsed>>
    BY <1>7 DEF ProcDies
  <2>3. QED
    BY <2>1, <2>2 DEF Alive
<1>8. QED
  BY <1>2, <1>3, <1>4, <1>5, <1>6, <1>7 DEF ProcStep

LEMMA ProcPartsStep ==
  ASSUME TypeOK, ProcParts, [Next]_vars
  PROVE  ProcParts'
<1> USE DEF outputs, counters
<1>1. worker \in [Worker -> WorkerPhase] /\ proc \in [Worker -> Proc]
  BY DEF TypeOK
<1>2. ASSUME NEW w \in Worker, \A v \in Worker : v # w => worker'[v] = worker[v],
             \A v \in Worker : v # w => proc'[v] = proc[v],
             worker'[w] \in {"finishing", "committing"} => proc'[w].phase = "exited"
      PROVE  ProcParts'
  BY <1>2 DEF ProcParts
<1>3. CASE UNCHANGED <<worker, proc>>
  BY <1>3 DEF ProcParts
<1>4. ASSUME NEW w \in Worker, Claim(w) \/ FinishCommit(w) \/ FinishLost(w) PROVE ProcParts'
  BY <1>1, <1>2, <1>4 DEF Claim, FinishCommit, FinishLost
<1>5. ASSUME NEW w \in Worker, Poll(w) \/ HeartbeatKept(w) \/ FinishRead(w) \/ Crash(w)
      PROVE  ProcParts'
  <2>1. UNCHANGED proc /\ \A v \in Worker : v # w => worker'[v] = worker[v]
    BY <1>1, <1>5 DEF Poll, HeartbeatKept, FinishRead, Crash
  <2>2. worker'[w] \in {"finishing", "committing"} => proc[w].phase = "exited"
    BY <1>1, <1>5 DEF Poll, HeartbeatKept, FinishRead, Crash, ProcParts
  <2>3. QED
    BY <1>2, <2>1, <2>2
<1>6. ASSUME NEW w \in Worker, HeartbeatRefused(w) PROVE ProcParts'
  <2>1. proc'[w].phase = "exited"
    BY <1>1, <1>6 DEF HeartbeatRefused, Proc
  <2>2. QED
    BY <1>1, <1>2, <1>6, <2>1 DEF HeartbeatRefused
<1>7. ASSUME NEW w \in Worker, Alive(w), UNCHANGED worker,
             \A v \in Worker : v # w => proc'[v] = proc[v]
      PROVE  ProcParts'
  BY <1>2, <1>7 DEF ProcParts, Alive
<1>8. ASSUME NEW w \in Worker, MainStart(w) \/ MainError(w) \/ MainFinal(w) PROVE ProcParts'
  BY <1>7, <1>8, StatusBegins
<1>9. ASSUME NEW w \in Worker, StatusCommit(w) \/ MainReport(w) \/ ProcDies(w)
      PROVE  ProcParts'
  BY <1>1, <1>7, <1>9 DEF StatusCommit, MainReport, ProcDies, Alive
<1>10. ASSUME NEW c \in Client, AnswerStep(c) \/ (\E op \in Operation : Ask(c, op))
       PROVE  UNCHANGED <<worker, proc>>
  BY <1>10 DEF AnswerStep, Pause, Resume, FinishEarly, Cancel, Answer, Rejected, Ask
<1>11. ASSUME NEW w \in Worker, MainTask(w) PROVE UNCHANGED <<worker, proc>>
  BY <1>11 DEF MainTask
<1>12. CASE ExpireLease \/ FollowUp \/ UNCHANGED vars
  BY <1>3, <1>12 DEF ExpireLease, FollowUp, vars
<1>13. QED
  BY <1>3, <1>4, <1>5, <1>6, <1>8, <1>9, <1>10, <1>11, <1>12 DEF Next, WorkerStep, MainStep

LEMMA CancelToldStep ==
  ASSUME item \in Item, CancelNotLost, CancelTold, RowStep
  PROVE  CancelTold'
<1> USE DEF Writes, Ending
<1>1. ASSUME NEW w \in Worker, Takes(w) PROVE CancelTold'
  <2>1. /\ item.status \in {"QUEUED", "LEASED"} /\ run' = run
        /\ item'.cancel = item.cancel
    BY <1>1 DEF Takes, Claimable, Claimed, KeepsRun, Item
  <2>2. QED
    BY <2>1 DEF CancelTold
<1>2. ASSUME NEW w \in Worker, NEW o, Commits(w, o) PROVE CancelTold'
  <2>1. /\ item'.status = IF o \in {"FINALIZE", "RETRY"} THEN "QUEUED" ELSE o
        /\ item'.cancel = item.cancel /\ item.status = "LEASED"
    BY <1>2 DEF Commits, Finished, Item
  <2>2. CASE o = "FINALIZE"
    BY <1>2, <2>2 DEF Commits, Sets, CancelTold
  <2>3. CASE o = "RETRY"
    BY <1>2, <2>1, <2>3 DEF Commits, KeepsRun, CancelTold
  <2>4. CASE o \in {"CANCELLED", "SUCCEEDED", "PAUSED", "FAILED"}
    BY <2>1, <2>4 DEF CancelTold
  <2>5. QED
    BY <1>2, <2>2, <2>3, <2>4 DEF Commits
<1>3. CASE Renews
  <2>1. item'.status = item.status /\ item'.cancel = item.cancel /\ run' = run
    BY <1>3 DEF Renews, KeepsRun, Item
  <2>2. QED
    BY <2>1 DEF CancelTold
<1>4. CASE Reports
  BY <1>4 DEF Reports, KeepsRun, CancelTold
<1>5. CASE Holds
  <2>1. \/ item'.status = "PAUSED"
        \/ Sets("PAUSE_REQUESTED")
    BY <1>5 DEF Holds, PausedItem, Item
  <2>2. QED
    BY <2>1 DEF Sets, CancelTold
<1>6. CASE Resumes \/ Restarts
  BY <1>6 DEF Resumes, Restarts, Sets, CancelTold
<1>7. CASE Finalizes
  <2>1. \/ Sets("CREATED")
        \/ /\ item.status = "LEASED" /\ item'.status = "LEASED" /\ run' = run
           /\ item'.cancel = item.cancel
    BY <1>7 DEF Finalizes, FinalizingItem, KeepsRun, Item
  <2>2. QED
    BY <2>1 DEF Sets, CancelTold
<1>8. CASE Cancels
  <2>1. item'.cancel
    BY <1>8 DEF Cancels, CancelledItem, Item
  <2>2. QED
    BY <2>1 DEF CancelTold
<1>9. QED
  BY <1>1, <1>2, <1>3, <1>4, <1>5, <1>6, <1>7, <1>8 DEF RowStep

LEMMA FinishToldStep ==
  ASSUME Overlap = FALSE, SerialInv, ProcParts, FinishTold, [Next]_vars,
         \A w \in Worker : Alive(w) => Owns(item, w)
  PROVE  FinishTold'
<1> USE DEF outputs, counters, Finishing
<1>1. TypeOK /\ Exclusive /\ worker \in [Worker -> WorkerPhase]
  BY DEF SerialInv, OwnerInv, TypeOK
<1>2. \A v \in Worker : Finishing(v) => Owns(item, v) /\ proc[v].phase = "exited"
  BY DEF SerialInv, OwnerInv, CommitsOwnLease, Fresh, ProcParts
<1>3. ASSUME UNCHANGED run,
             \A v \in Worker : Finishing(v)' => Finishing(v) /\ snap'[v] = snap[v]
      PROVE  FinishTold'
  BY <1>3 DEF FinishTold
<1>4. ASSUME NEW w \in Worker, FinishRead(w) PROVE FinishTold'
  BY <1>4 DEF TypeOK, SerialInv, OwnerInv, FinishTold, FinishRead
<1>5. ASSUME NEW w \in Worker,
             \/ Claim(w) \/ Poll(w) \/ HeartbeatKept(w) \/ HeartbeatRefused(w)
             \/ FinishLost(w) \/ Crash(w)
      PROVE  FinishTold'
  BY <1>1, <1>3, <1>5 DEF TypeOK, Claim, Poll, HeartbeatKept, HeartbeatRefused,
     FinishLost, Crash
<1>6. ASSUME NEW w \in Worker, FinishCommit(w) PROVE FinishTold'
  <2>1. Finishing(w) /\ worker' = [worker EXCEPT ![w] = "idle"]
    BY <1>6 DEF FinishCommit
  <2>2. \A v \in Worker : ~Finishing(v)'
    BY <1>1, <2>1 DEF Exclusive
  <2>3. QED
    BY <2>2 DEF FinishTold
<1>7. ASSUME NEW w \in Worker, StatusCommit(w) PROVE FinishTold'
  <2>1. Owns(item, w) /\ proc[w].phase = "writing" /\ UNCHANGED worker
    BY <1>7 DEF StatusCommit, Alive
  <2>2. \A v \in Worker : ~Finishing(v)
    BY <1>2, <2>1 DEF Owns
  <2>3. QED
    BY <2>1, <2>2 DEF FinishTold
<1>8. ASSUME NEW w \in Worker,
             \/ MainStart(w) \/ MainTask(w) \/ MainReport(w) \/ MainFinal(w) \/ MainError(w)
             \/ ProcDies(w)
      PROVE  FinishTold'
  BY <1>3, <1>8 DEF MainStart, MainTask, MainReport, MainFinal, MainError, ProcDies
<1>9. ASSUME NEW c \in Client, AnswerStep(c) PROVE FinishTold'
  <2>1. Asking(c) /\ UNCHANGED worker
    BY <1>9 DEF AnswerStep, Pause, Resume, FinishEarly, Cancel, Rejected, Answer, Asking
  <2>2. QED
    BY <1>1, <2>1 DEF Exclusive, FinishTold
<1>10. ASSUME NEW c \in Client, NEW op \in Operation, Ask(c, op) PROVE FinishTold'
  BY <1>3, <1>10 DEF Ask
<1>11. CASE ExpireLease \/ UNCHANGED vars
  BY <1>3, <1>11 DEF ExpireLease, vars
<1>12. CASE FollowUp
  BY <1>12 DEF FollowUp, MayBegin, OpenTransaction, FinishTold
<1>13. QED
  BY <1>4, <1>5, <1>6, <1>7, <1>8, <1>9, <1>10, <1>11, <1>12
     DEF Next, WorkerStep, MainStep

LEMMA ToldStep ==
  ASSUME SafeInv, ProcParts, CancelTold, Told, FinishTold, [Next]_vars,
         ~item.expired, \A w \in Worker : Alive(w) => Owns(item, w)
  PROVE  Told'
<1>1. /\ SerialInv /\ RunParts /\ item \in Item /\ proc \in [Worker -> Proc]
      /\ run \in RunStatus
  BY DEF SafeInv, SerialInv, OwnerInv, TypeOK
<1> USE DEF Writing
<1>2. ASSUME item'.status = "QUEUED" PROVE Told'
  BY <1>2 DEF Told, ExitsTold, WritesTold, Owns
<1>3. ASSUME NEW w \in Worker, Claim(w) PROVE Told'
  <2>1. item' = Claimed(item, w) /\ proc'[w].phase = "started"
    BY <1>1, <1>3 DEF Claim, NoProc
  <2>2. item'.status = "LEASED" /\ item'.owner = w
    BY <1>1, <2>1 DEF Claimed, Item
  <2>3. QED
    BY <2>1, <2>2 DEF Told, ExitsTold, WritesTold, Owns
<1>4. ASSUME NEW w \in Worker, FinishCommit(w) PROVE Told'
  <2> DEFINE o == Outcome(item, proc[w].result # "FAILED")
  <2>1. Commits(w, o)
    BY <1>1, <1>4, SerialFinish
  <2>2. o = "SUCCEEDED" => ~item.cancel /\ proc[w].result # "FAILED"
    BY <1>1 DEF Outcome, Item
  <2>3. snap[w].item = item /\ snap[w].run = run
    BY <1>1, <1>4 DEF FinishCommit, FinishTold, Finishing, SerialInv, Fresh
  <2>4. SetRun(run, RunAfter(o, run))
    BY <1>4, <2>3 DEF FinishCommit
  <2> HIDE DEF o
  <2>5. /\ item'.status # "LEASED"
        /\ item'.status = "FAILED" => o = "FAILED"
        /\ item'.status = "SUCCEEDED" => o = "SUCCEEDED"
    BY <1>1, <2>1 DEF Commits, Finished, Item
  <2>6. o = "FAILED" => run' = "FAILED"
    BY <2>4 DEF SetRun, Column, RunAfter
  <2>7. o = "SUCCEEDED" => run' = run
    BY <2>1 DEF Commits, KeepsRun
  <2>8. proc[w].phase = "exited" /\ Owns(item, w)
    BY <1>4, <2>1 DEF FinishCommit, ProcParts, Commits, Owns
  <2>9. o = "SUCCEEDED" =>
          run \in {"COMPLETED", "COMPLETED_WITH_ERRORS", "PAUSE_REQUESTED"}
    BY <2>2, <2>8 DEF Told, ExitsTold
  <2>10. QED
    BY <2>5, <2>6, <2>7, <2>9 DEF Told, ExitsTold, WritesTold, Owns
<1>5. ASSUME NEW w \in Worker, ProcStep(w) PROVE Told'
  <2>1. /\ item' = item
        /\ \A v \in Worker : v # w => proc'[v] = proc[v]
        /\ UNCHANGED run \/ (Owns(item, w) /\ run' \in Writes)
        /\ Writing(w)' => UNCHANGED run /\ proc'[w].seen = run
        /\ proc'[w].phase = "exited" /\ proc'[w].result # "FAILED" =>
              \/ run' \in {"COMPLETED", "COMPLETED_WITH_ERRORS"}
              \/ run \in HeldStatus /\ UNCHANGED run
              \/ /\ UNCHANGED run /\ Writing(w)
                 /\ proc[w].seen \in {"COMPLETED", "COMPLETED_WITH_ERRORS"}
    BY <1>1, <1>5, ProcEffect
  <2>2. ASSUME NEW v \in Worker, Owns(item, v), ~item.cancel,
               proc'[v].phase = "exited", proc'[v].result # "FAILED"
        PROVE  run' \in {"COMPLETED", "COMPLETED_WITH_ERRORS", "PAUSE_REQUESTED"}
    <3>1. CASE v = w
      <4>1. run \notin {"PAUSED", "CANCELLED", "CANCEL_REQUESTED"}
        BY <1>1, <2>2 DEF RunParts, CancelTold, Owns
      <4>2. Writing(w) => run \in {proc[w].seen, "PAUSE_REQUESTED"}
        BY <2>2, <3>1 DEF Told, WritesTold
      <4>3. QED
        BY <2>1, <2>2, <3>1, <4>1, <4>2
    <3>2. CASE v # w
      <4>1. UNCHANGED run /\ proc'[v] = proc[v]
        BY <2>1, <2>2, <3>2 DEF Owns
      <4>2. QED
        BY <2>2, <4>1 DEF Told, ExitsTold
    <3>3. QED
      BY <3>1, <3>2
  <2>3. ExitsTold'
    BY <2>1, <2>2 DEF ExitsTold
  <2>4. ASSUME NEW v \in Worker, Owns(item, v), ~item.cancel, Writing(v)'
        PROVE  run' \in {proc'[v].seen, "PAUSE_REQUESTED"}
    <3>1. CASE v = w
      BY <2>1, <2>4, <3>1
    <3>2. CASE v # w
      BY <2>1, <2>4, <3>2 DEF Owns, Told, WritesTold
    <3>3. QED
      BY <3>1, <3>2
  <2>5. WritesTold'
    BY <2>1, <2>4 DEF WritesTold
  <2>6. QED
    BY <2>1, <2>3, <2>5 DEF Told, Owns
<1>6. CASE RowOnly /\ UNCHANGED proc
  <2>1. ASSUME UNCHANGED run, item'.status = item.status, item'.owner = item.owner,
               item'.cancel = item.cancel
        PROVE  Told'
    BY <1>6, <2>1 DEF Told, ExitsTold, WritesTold, Owns
  <2>2. CASE Renews
    <3>1. /\ item'.status = item.status /\ item'.owner = item.owner
          /\ item'.cancel = item.cancel /\ UNCHANGED run
      BY <1>1, <2>2 DEF Renews, KeepsRun, Item
    <3>2. QED
      BY <2>1, <3>1
  <2>3. CASE Holds
    <3>1. CASE item.status = "QUEUED"
      <4>1. item'.status = "PAUSED"
        BY <1>1, <2>3, <3>1 DEF Holds, PausedItem, Item
      <4>2. QED
        BY <4>1 DEF Told, ExitsTold, WritesTold, Owns
    <3>2. CASE item.status = "LEASED"
      <4>1. /\ item'.status = item.status /\ item'.owner = item.owner
            /\ item'.cancel = item.cancel
            /\ run' = "PAUSE_REQUESTED" \/ UNCHANGED run
        BY <1>1, <2>3, <3>2 DEF Holds, PausedItem, Sets, Item
      <4>2. CASE UNCHANGED run
        BY <2>1, <4>1, <4>2
      <4>3. CASE run' = "PAUSE_REQUESTED"
        BY <3>2, <4>1, <4>3 DEF Told, ExitsTold, WritesTold
      <4>4. QED
        BY <4>1, <4>2, <4>3
    <3>3. QED
      BY <2>3, <3>1, <3>2 DEF Holds
  <2>4. CASE Resumes \/ Restarts
    <3>1. CASE Resumes
      BY <1>1, <1>2, <3>1 DEF Resumes, ResumedItem, Item
    <3>2. CASE Restarts
      BY <1>2, <3>2 DEF Restarts, NewItem
    <3>3. QED
      BY <2>4, <3>1, <3>2
  <2>5. CASE Finalizes
    <3>1. \/ item'.status = "QUEUED"
          \/ /\ item'.status = item.status /\ item'.owner = item.owner
             /\ item'.cancel = item.cancel /\ UNCHANGED run
      BY <1>1, <2>5 DEF Finalizes, FinalizingItem, KeepsRun, Item
    <3>2. QED
      BY <1>2, <2>1, <3>1
  <2>6. CASE Cancels
    <3>1. item'.cancel /\ item'.status \in {"LEASED", "CANCELLED"}
      BY <1>1, <2>6 DEF Cancels, CancelledItem, Item
    <3>2. QED
      BY <3>1 DEF Told, ExitsTold, WritesTold
  <2>7. QED
    BY <1>6, <2>2, <2>3, <2>4, <2>5, <2>6 DEF RowOnly
<1>7. CASE UNCHANGED <<item, run, proc>>
  BY <1>7 DEF Told, ExitsTold, WritesTold, Owns
<1>8. QED
  BY <1>1, <1>3, <1>4, <1>5, <1>6, <1>7, StepKinds

LEMMA EndStep ==
  ASSUME Overlap = FALSE, SafeInv, EndInv, [Next]_vars
  PROVE  EndInv'
<1>1. /\ SerialInv /\ ExecutionInv /\ CancelNotLost /\ TypeOK /\ item \in Item
      /\ ProcParts /\ CancelTold
  BY DEF SafeInv, RequestInv, SerialInv, OwnerInv, TypeOK, EndInv
<1>2. ProcParts' /\ CancelTold'
  BY <1>1, ProcPartsStep, SerialRow, CancelToldStep
<1>3. ~lapsed' => Told' /\ FinishTold'
  <2> SUFFICES ASSUME ~lapsed' PROVE Told' /\ FinishTold'
    OBVIOUS
  <2>1. ~lapsed
    BY LapsedStays
  <2>2. ~item.expired /\ \A w \in Worker : Alive(w) => Owns(item, w)
    BY <1>1, <2>1 DEF ExecutionInv
  <2>3. Told /\ FinishTold
    BY <2>1 DEF EndInv
  <2>4. QED
    BY <1>1, <2>2, <2>3, ToldStep, FinishToldStep
<1>4. QED
  BY <1>2, <1>3 DEF EndInv

\* As long as the queue's transactions do not overlap and no lease has run out, a
\* failed item has a failed run, and an item that succeeded a completed one: the
\* final status is stored before the exit that finish_work reports.
THEOREM EndTold ==
  ASSUME Overlap = FALSE
  PROVE  Spec => []EndAgrees
<1>1. Init => EndInv
  BY DEF Init, NewItem, NoProc, EndInv, ProcParts, CancelTold, Told, ExitsTold,
     WritesTold, FinishTold, Finishing, Owns
<1>2. EndInv => EndAgrees
  BY DEF EndInv, Told, EndAgrees
<1>3. QED
  BY <1>1, <1>2, EndStep, SafeInvariant, PTL DEF Spec

-----------------------------------------------------------------------------
(* The mode of an execution, for overlapping transactions too.             *)

LEMMA ProcMode ==
  ASSUME TypeOK, NEW w \in Worker, ProcStep(w)
  PROVE  /\ item' = item
         /\ \A v \in Worker : v # w => proc'[v] = proc[v]
         /\ Alive(w)' => Alive(w) /\ proc'[w].early = proc[w].early
<1>1. item' = item /\ \A v \in Worker : v # w => proc'[v] = proc[v]
  BY DEF TypeOK, ProcStep, HeartbeatRefused, FinishLost, MainStart, MainError, MainFinal,
     UpdateRunStatus, StatusCommit, MainReport, ProcDies
<1>2. proc \in [Worker -> Proc] /\ proc[w] \in Proc
  BY DEF TypeOK
<1>3. CASE HeartbeatRefused(w) \/ FinishLost(w) \/ ProcDies(w)
  <2>1. CASE HeartbeatRefused(w)
    BY <1>1, <1>2, <2>1 DEF HeartbeatRefused, Proc, Alive
  <2>2. CASE FinishLost(w)
    BY <1>1, <1>2, <2>2 DEF FinishLost, NoProc, Alive
  <2>3. CASE ProcDies(w)
    <3>1. proc'[w].phase = "exited"
      BY <1>2, <2>3 DEF ProcDies, NoProc
    <3>2. QED
      BY <1>1, <3>1 DEF Alive
  <2>4. QED
    BY <1>3, <2>1, <2>2, <2>3
<1>4. CASE MainStart(w) \/ MainError(w) \/ MainFinal(w)
  <2>1. Alive(w) /\ \E status \in Writes : UpdateRunStatus(w, status)
    <3>1. CASE MainStart(w)
      BY <3>1 DEF MainStart, Writes, Alive
    <3>2. CASE MainError(w)
      BY <3>2 DEF MainError, Writes, Ending, Alive
    <3>3. CASE MainFinal(w)
      BY <3>3 DEF MainFinal, FinalStatus, Writes, Ending, Alive
    <3>4. QED
      BY <1>4, <3>1, <3>2, <3>3
  <2>2. PICK status \in Writes : UpdateRunStatus(w, status)
    BY <2>1
  <2>3. proc'[w].early = proc[w].early
    BY <1>2, <2>2 DEF UpdateRunStatus, AfterWrite, Proc
  <2>4. QED
    BY <1>1, <2>1, <2>3
<1>5. CASE StatusCommit(w) \/ MainReport(w)
  <2>1. PICK p : p = IF StatusCommit(w)
                     THEN [proc[w] EXCEPT !.phase = AfterWrite(proc[w].result),
                                          !.seen = "CREATED"]
                     ELSE [proc[w] EXCEPT !.phase = "reported"]
    OBVIOUS
  <2>2. p.early = proc[w].early
    BY <1>2, <2>1 DEF Proc, AfterWrite
  <2>3. Alive(w) /\ proc'[w] = p
    BY <1>2, <1>5, <2>1 DEF StatusCommit, MainReport, Alive
  <2>4. QED
    BY <1>1, <2>2, <2>3
<1>6. QED
  BY <1>3, <1>4, <1>5 DEF ProcStep

\* What a request leaves leased was leased, to the same worker in the same mode,
\* even by a cancellation that loaded the row long ago.
LEMMA AnswerMode ==
  ASSUME TypeOK, NEW c \in Client, AnswerStep(c)
  PROVE  /\ UNCHANGED proc
         /\ \A v \in Worker : Owns(item', v) => Owns(item, v) /\ item'.early = item.early
<1>1. item \in Item /\ request[c].item \in Item
  BY DEF TypeOK, Request
<1>2. UNCHANGED proc
  BY DEF AnswerStep, Pause, Resume, FinishEarly, Cancel, Answer, Rejected
<1>3. CASE Pause(c)
  BY <1>1, <1>2, <1>3 DEF Pause, Answer, PausedItem, Owns, Item
<1>4. CASE Resume(c)
  BY <1>1, <1>2, <1>4 DEF Resume, Answer, ResumedItem, Owns, Item
<1>5. CASE FinishEarly(c)
  BY <1>1, <1>2, <1>5 DEF FinishEarly, Answer, FinalizingItem, Owns, Item
<1>6. CASE Cancel(c)
  <2> DEFINE old == request[c].item
             new == CancelledItem(old)
  <2>1. new \in Item
    BY <1>1, ControlTypes
  <2>2. /\ new.owner = old.owner /\ new.early = old.early
        /\ new.status = old.status \/ new.status = "CANCELLED"
    BY <1>1 DEF CancelledItem, Item
  <2>3. item' = Written(item, old, new)
    BY <1>6 DEF Cancel, Answer
  <2> HIDE DEF old, new
  <2>4. /\ item'.owner = item.owner /\ item'.early = item.early
        /\ item'.status = item.status \/ item'.status = "CANCELLED"
    BY <2>2, <2>3 DEF Written, Column
  <2>5. QED
    BY <1>2, <2>4 DEF Owns
<1>7. CASE Rejected(c)
  BY <1>2, <1>7 DEF Rejected
<1>8. QED
  BY <1>3, <1>4, <1>5, <1>6, <1>7 DEF AnswerStep

LEMMA ModeStep ==
  ASSUME OwnerInv, ModeMatches, [Next]_vars
  PROVE  ModeMatches'
<1>1. TypeOK /\ CommitsOwnLease /\ item \in Item /\ proc \in [Worker -> Proc]
  BY DEF OwnerInv, TypeOK
<1>2. ASSUME NEW w \in Worker, Claim(w) PROVE ModeMatches'
  <2>1. item' = Claimed(item, w) /\ proc'[w].early = item.early
    BY <1>1, <1>2 DEF Claim, NoProc
  <2>2. item'.owner = w /\ item'.early = item.early
    BY <1>1, <2>1 DEF Claimed, Item
  <2>3. QED
    BY <2>1, <2>2 DEF ModeMatches, Owns
<1>3. ASSUME NEW w \in Worker, FinishCommit(w) PROVE ModeMatches'
  <2>1. item'.status # "LEASED"
    BY <1>1, <1>3, FinishCommitStatus
  <2>2. QED
    BY <2>1 DEF ModeMatches, Owns
<1>4. ASSUME NEW w \in Worker, ProcStep(w) PROVE ModeMatches'
  <2>1. /\ item' = item
        /\ \A v \in Worker : v # w => proc'[v] = proc[v]
        /\ Alive(w)' => Alive(w) /\ proc'[w].early = proc[w].early
    BY <1>1, <1>4, ProcMode
  <2>2. QED
    BY <2>1 DEF ModeMatches, Alive, Owns
<1>5. ASSUME NEW c \in Client, AnswerStep(c) PROVE ModeMatches'
  BY <1>1, <1>5, AnswerMode DEF ModeMatches, Alive
<1>6. CASE ExpireLease \/ \E w \in Worker : HeartbeatKept(w)
  <2>1. UNCHANGED proc /\ \E b \in BOOLEAN : item' = [item EXCEPT !.expired = b]
    BY <1>6 DEF ExpireLease, HeartbeatKept
  <2>2. \A v \in Worker : Owns(item', v) => Owns(item, v) /\ item'.early = item.early
    BY <1>1, <2>1 DEF Owns, Item
  <2>3. QED
    BY <2>1, <2>2 DEF ModeMatches, Alive
<1>7. CASE FollowUp
  <2>1. item'.status # "LEASED"
    BY <1>7 DEF FollowUp, NewItem
  <2>2. QED
    BY <2>1 DEF ModeMatches, Owns
<1>8. ASSUME UNCHANGED <<item, proc>> PROVE ModeMatches'
  BY <1>8 DEF ModeMatches, Alive, Owns
<1>9. ASSUME NEW w \in Worker, Poll(w) \/ FinishRead(w) \/ Crash(w) \/ MainTask(w)
      PROVE  UNCHANGED <<item, proc>>
  BY <1>9 DEF Poll, FinishRead, Crash, MainTask
<1>10. ASSUME NEW c \in Client, NEW op \in Operation, Ask(c, op)
       PROVE  UNCHANGED <<item, proc>>
  BY <1>10 DEF Ask
<1>11. CASE UNCHANGED vars
  BY <1>8, <1>11 DEF vars
<1>12. QED
  BY <1>2, <1>3, <1>4, <1>5, <1>6, <1>7, <1>8, <1>9, <1>10, <1>11
     DEF Next, WorkerStep, MainStep, ProcStep

\* The subprocess of the lease's owner runs in the mode the row asks for, even
\* when transactions overlap: an early finish marks the row as a report pass
\* only when nobody holds its lease, and no transaction that loaded the row
\* earlier writes the mark or the owner back.
THEOREM ModeKept == Spec => []ModeMatches
<1>1. Init => ModeMatches
  BY DEF Init, NoProc, ModeMatches, Alive
<1>2. QED
  BY <1>1, OwnerInit, OwnerStep, ModeStep, PTL DEF Spec

-----------------------------------------------------------------------------
(* Attempts.  A lease has one, whatever is given back leaves one to use.   *)

AttemptsInv ==
    /\ item.status \in {"QUEUED", "PAUSED"} => item.attempts < MaxAttempts
    /\ item.status = "LEASED" => item.attempts > 0

LEMMA AttemptsStep ==
  ASSUME item \in Item, AttemptsInv, RowStep
  PROVE  AttemptsInv'
<1>1. item.attempts \in Nat /\ item.attempts <= MaxAttempts /\ MaxAttempts \in Nat \ {0}
  BY AttemptsAssumption DEF Item
<1>2. ASSUME NEW w \in Worker, Takes(w) PROVE AttemptsInv'
  <2>1. item'.status = "LEASED" /\ item'.attempts = item.attempts + 1
    BY <1>2 DEF Takes, Claimed, Item
  <2>2. QED
    BY <1>1, <2>1 DEF AttemptsInv
<1>3. ASSUME NEW w \in Worker, NEW o, Commits(w, o) PROVE AttemptsInv'
  <2>1. /\ item'.status # "LEASED"
        /\ item'.status \in {"QUEUED", "PAUSED"} => o \in {"PAUSED", "FINALIZE", "RETRY"}
    BY <1>3 DEF Commits, Finished, Item
  <2>2. o = "RETRY" => item.attempts < MaxAttempts /\ item'.attempts = item.attempts
    BY <1>3 DEF Commits, Outcome, Finished, Item
  <2>3. item.attempts > 0
    BY <1>3 DEF Commits, AttemptsInv
  <2>4. o \in {"PAUSED", "FINALIZE"} => item'.attempts = item.attempts - 1
    BY <1>3, <2>3 DEF Commits, Finished, Item
  <2>5. QED
    BY <1>1, <2>1, <2>2, <2>3, <2>4 DEF AttemptsInv
<1>4. CASE Renews
  <2>1. item'.status = item.status /\ item'.attempts = item.attempts
    BY <1>4 DEF Renews, Item
  <2>2. QED
    BY <2>1 DEF AttemptsInv
<1>5. CASE Reports
  BY <1>5 DEF Reports, AttemptsInv
<1>6. CASE Holds
  <2>1. /\ item'.attempts = item.attempts
        /\ \/ item.status = "QUEUED" /\ item'.status = "PAUSED"
           \/ item'.status = item.status
    BY <1>6 DEF Holds, PausedItem, Item
  <2>2. QED
    BY <2>1 DEF AttemptsInv
<1>7. CASE Resumes
  <2>1. item'.status = "QUEUED" /\ item'.attempts = 0
    BY <1>7 DEF Resumes, ResumedItem, Item
  <2>2. QED
    BY <1>1, <2>1 DEF AttemptsInv
<1>8. CASE Finalizes
  <2>1. /\ item'.attempts = item.attempts
        /\ \/ item.status = "PAUSED" /\ item'.status = "QUEUED"
           \/ item'.status = item.status
    BY <1>8 DEF Finalizes, FinalizingItem, Item
  <2>2. QED
    BY <2>1 DEF AttemptsInv
<1>9. CASE Cancels
  <2>1. /\ item'.attempts = item.attempts
        /\ item'.status = "CANCELLED" \/ item'.status = item.status
    BY <1>9 DEF Cancels, CancelledItem, Item
  <2>2. QED
    BY <2>1 DEF AttemptsInv
<1>10. CASE Restarts
  <2>1. item'.status = "QUEUED" /\ item'.attempts = 0
    BY <1>10 DEF Restarts, NewItem
  <2>2. QED
    BY <1>1, <2>1 DEF AttemptsInv
<1>11. QED
  BY <1>2, <1>3, <1>4, <1>5, <1>6, <1>7, <1>8, <1>9, <1>10 DEF RowStep

\* Without overlapping queue transactions no row waits that no worker would claim: a
\* pause, an early finish and a retry leave it an attempt, and a cancellation
\* takes it out of the queue.
THEOREM WaitsForAClaim ==
  ASSUME Overlap = FALSE
  PROVE  Spec => []WaitingClaimable
<1>1. Init => AttemptsInv
  BY AttemptsAssumption DEF Init, NewItem, AttemptsInv
<1>2. SafeInv /\ AttemptsInv /\ [Next]_vars => AttemptsInv'
  BY SerialRow, AttemptsStep DEF SafeInv, SerialInv, OwnerInv, TypeOK
<1>3. SafeInv /\ AttemptsInv => WaitingClaimable
  BY DEF SafeInv, RequestInv, CancelNotLost, AttemptsInv, WaitingClaimable, Claimable
<1>4. QED
  BY <1>1, <1>2, <1>3, SafeInvariant, PTL DEF Spec
=============================================================================
