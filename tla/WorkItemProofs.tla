--------------------------- MODULE WorkItemProofs ---------------------------
(***************************************************************************)
(* What the queue functions do to a row of work_items: the lemmas that the *)
(* proofs about RunLifecycle and Editorial share.                          *)
(***************************************************************************)
EXTENDS WorkItem, TLAPS

USE DEF WorkStatus

LEMMA NewItemType == NewItem \in Item
  BY AttemptsAssumption DEF NewItem, Item

LEMMA ClaimedType ==
  ASSUME NEW i \in Item, NEW w \in Worker, Claimable(i)
  PROVE  Claimed(i, w) \in Item
<1>1. i.attempts + 1 \in 0..MaxAttempts
  BY AttemptsAssumption DEF Item, Claimable
<1>2. QED
  BY <1>1 DEF Item, Claimed

LEMMA OutcomeType ==
  ASSUME NEW i \in Item, NEW ok \in BOOLEAN
  PROVE  Outcome(i, ok) \in
           {"CANCELLED", "SUCCEEDED", "PAUSED", "FINALIZE", "RETRY", "FAILED"}
  BY DEF Item, Outcome

LEMMA FinishedType ==
  ASSUME NEW i \in Item,
         NEW o \in {"CANCELLED", "SUCCEEDED", "PAUSED", "FINALIZE", "RETRY", "FAILED"}
  PROVE  Finished(i, o) \in Item
<1> DEFINE n == IF o \in {"PAUSED", "FINALIZE"} /\ i.attempts > 0
                THEN i.attempts - 1 ELSE i.attempts
           s == IF o \in {"FINALIZE", "RETRY"} THEN "QUEUED" ELSE o
<1>1. n \in 0..MaxAttempts
  BY AttemptsAssumption DEF Item
<1>2. s \in WorkStatus
  OBVIOUS
<1>3. Finished(i, o) =
        [i EXCEPT !.status = s, !.owner = NoWorker, !.expired = FALSE, !.attempts = n,
           !.pause = IF o \in {"SUCCEEDED", "PAUSED"} THEN FALSE ELSE i.pause,
           !.finish = IF o = "SUCCEEDED" THEN FALSE ELSE i.finish,
           !.early = i.early \/ o = "FINALIZE"]
  BY DEF Item, Finished
<1> HIDE DEF n, s
<1>4. QED
  BY <1>1, <1>2, <1>3 DEF Item

LEMMA WrittenType ==
  ASSUME NEW a \in Item, NEW b \in Item, NEW c \in Item
  PROVE  Written(a, b, c) \in Item
  BY DEF Item, Written, Column

LEMMA ControlTypes ==
  ASSUME NEW i \in Item
  PROVE  /\ PausedItem(i) \in Item
         /\ ResumedItem(i) \in Item
         /\ FinalizingItem(i) \in Item
         /\ CancelledItem(i) \in Item
<1>1. PausedItem(i) \in Item
  BY DEF Item, PausedItem
<1>2. ResumedItem(i) \in Item
  <2>1. 0 \in 0..MaxAttempts
    BY AttemptsAssumption
  <2>2. QED
    BY <2>1 DEF Item, ResumedItem
<1>3. FinalizingItem(i) \in Item
  BY DEF Item, FinalizingItem
<1>4. CancelledItem(i) \in Item
  BY DEF Item, CancelledItem
<1>5. QED
  BY <1>1, <1>2, <1>3, <1>4

\* A transaction that loaded the row as it still is writes what it computed.
LEMMA WrittenFresh ==
  ASSUME NEW i \in Item, NEW n \in Item
  PROVE  Written(i, i, n) = [n EXCEPT !.expired = i.expired]
  BY DEF Item, Written, Column

LEMMA FinishedNotLeased ==
  ASSUME NEW i \in Item,
         NEW o \in {"CANCELLED", "SUCCEEDED", "PAUSED", "FINALIZE", "RETRY", "FAILED"}
  PROVE  Finished(i, o).status # "LEASED"
  BY DEF Item, Finished
=============================================================================
