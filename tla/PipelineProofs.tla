--------------------------- MODULE PipelineProofs ---------------------------
(***************************************************************************)
(* What holds of a run for every number of executions, tasks, pages, texts *)
(* and starts, and for every limit.                                        *)
(***************************************************************************)
EXTENDS Pipeline, FiniteSetTheorems, TLAPS

\* The file of a page holds it, or was opened for writing more than once.
Intact(u) == file[u] = "whole" \/ u \in reopened

Sound(u) == u \in stored /\ Intact(u)

\* An execution stops: killed, or by an exception.
Halts(p) == Kill(p) \/ Abort(p)

\* What a researcher works on: a page being stored has its file first, and what
\* it may quote is stored.
OnEvidence(r) ==
    /\ r.at \in {"open", "save", "store", "link"} => \E u \in Page : r.page = {u}
    /\ r.at \in {"store", "link"} => \A u \in r.page : Intact(u)
    /\ \A u \in r.got : Sound(u)
    /\ r.todo \subseteq r.got \X Text
    /\ r.finding \subseteq r.got \X Text

EvidenceInv ==
    /\ \A p \in Process, t \in Task : OnEvidence(res[p][t])
    /\ EvidenceFirst

\* Claims are numbered in the order of their insertion.
Numbered ==
    /\ \A c, d \in claims : c.id = d.id => c = d
    /\ \A c \in claims : c.id <= Cardinality(claims)
    /\ Cardinality(claims) <= MaxClaims

LedgerInv ==
    /\ IsFiniteSet(sources) /\ IsFiniteSet(claims)
    /\ Numbered
    /\ OneRowPerFinding

\* What the limits promise of the tables.
WithinLimits ==
    /\ used <= MaxRequests
    /\ Cardinality(sources) <= MaxSources
    /\ Cardinality(claims) <= MaxClaims

RunInv == TypeOK /\ EvidenceInv /\ LedgerInv

\* One execution at a time; it works on unfinished tasks and unverified claims.
Alone == \A p, q \in Process : Running(p) /\ Running(q) => p = q

FreshTasks(p) ==
    proc[p].at = "research" =>
        \A t \in Task : res[p][t].at \notin {"off", "done"} => task[t] # "COMPLETED"

FreshClaims(p) ==
    /\ proc[p].at \in {"plan", "create", "research"} => proc[p].checking = {}
    /\ proc[p].at = "verify" =>
          /\ \A c \in proc[p].pending \union proc[p].checking : verdict[c] = "UNVERIFIED"
          /\ proc[p].pending \cap proc[p].checking = {}

\* The packet of a writer tells the ledger; the files and then the row follow it.
PacketTrue(p) ==
    /\ proc[p].at \in {"write", "files", "final"} =>
          /\ proc[p].packet.seen = Seen
          /\ \A c \in proc[p].packet.main : verdict[c] = "SUPPORTED"
    /\ proc[p].at \in {"files", "final"} => files = proc[p].packet
    /\ proc[p].at = "final" => report = proc[p].packet

SupportedOnly == \A c \in report.main : verdict[c] = "SUPPORTED"

SoloParts ==
    /\ Alone
    /\ \A p \in Process : FreshTasks(p) /\ FreshClaims(p) /\ PacketTrue(p)
    /\ SupportedOnly

SoloInv == ~overlapped => SoloParts

-----------------------------------------------------------------------------
(* What a researcher's step does, in the terms of the invariants.          *)

\* A claim row of the finding is inserted, unless the task has one already.
Inserts(t, finding) ==
    /\ Rows(t, finding) = {} /\ Sound(finding[1])
    /\ finding \in Finding
    /\ Cardinality(claims) + 1 \in ClaimId
    /\ claims' = claims \union
          {[id |-> Cardinality(claims) + 1, task |-> t,
            page |-> finding[1], text |-> finding[2]]}

\* The pages and files of evidence stay; one more page may become a source.
Preserves ==
    /\ file' \in [Page -> {"none", "torn", "whole"}]
    /\ reopened' \subseteq Page
    /\ \A u \in Page : Intact(u) => Intact(u)'
    /\ stored \subseteq stored' /\ stored' \subseteq Page
    /\ \/ UNCHANGED sources
       \/ \E u \in Page : sources' = sources \union {u} /\ Cardinality(sources) < MaxSources

ResearchEffect(p, t) ==
    /\ proc[p].at = "research" /\ res[p][t].at \notin {"off", "done"}
    /\ \E r \in Researcher, s \in TaskStatus, ids \in SUBSET ClaimId :
          /\ Becomes(p, t, r) /\ OnEvidence(r)'
          /\ task' = [task EXCEPT ![t] = s]
          /\ output' = [output EXCEPT ![t] = ids]
          /\ s = "COMPLETED" /\ task[t] # "COMPLETED" => r.at = "done"
    /\ UNCHANGED proc \/ \E ids \in SUBSET ClaimId :
                            Goes(p, [proc[p] EXCEPT !.ids = @ \union ids])
    /\ UNCHANGED claims \/ \E finding \in Finding : Inserts(t, finding)
    /\ Preserves
    /\ used' \in 0..MaxRequests
    /\ UNCHANGED <<verdict, files, report, status, history>>

LEMMA Limits ==
  /\ MaxRequests \in Nat /\ MaxSources \in Nat /\ MaxClaims \in Nat /\ MaxStarts \in Nat
  /\ ClaimId \subseteq Nat \ {0}
  BY LimitsAssumption DEF ClaimId

LEMMA SpendTypes ==
  ASSUME TypeOK, Spend \/ LimitReached \/ UNCHANGED used
  PROVE  used' \in 0..MaxRequests
  BY Limits DEF TypeOK, Spend, LimitReached

LEMMA NobodyTypes == NoExecution \in Execution /\ NoResearcher \in Researcher
  BY DEF NoExecution, Execution, NoResearcher, Researcher, ProcessPhase, ResearchPhase,
         Report, NoReport

LEMMA OnEvidenceIdle ==
  ASSUME NEW phase \in {"off", "done", "queued"}
  PROVE  OnEvidence([NoResearcher EXCEPT !.at = phase])'
  BY DEF OnEvidence, NoResearcher

\* What is evidence stays so.
LEMMA SoundStays ==
  ASSUME Preserves, NEW u \in Page, Sound(u)
  PROVE  Sound(u)'
  BY DEF Preserves, Sound

LEMMA OnEvidenceStays ==
  ASSUME Preserves, NEW r \in Researcher, OnEvidence(r)
  PROVE  OnEvidence(r)'
<1>1. r.got \subseteq Page /\ r.page \subseteq Page
  BY DEF Researcher
<1>2. \A u \in r.got : Sound(u)'
  BY <1>1, SoundStays DEF OnEvidence
<1>3. r.at \in {"store", "link"} => \A u \in r.page : Intact(u)'
  BY <1>1 DEF OnEvidence, Preserves
<1>4. QED
  BY <1>2, <1>3 DEF OnEvidence

LEMMA Unmoved ==
  ASSUME TypeOK, UNCHANGED <<file, reopened, sources, stored>>
  PROVE  Preserves
  BY DEF TypeOK, Preserves, Intact

\* A researcher that keeps task, output and claims.
LEMMA QuietEffect ==
  ASSUME TypeOK, NEW p \in Process, NEW t \in Task,
         proc[p].at = "research", res[p][t].at \notin {"off", "done"},
         NEW r \in Researcher, Becomes(p, t, r), OnEvidence(r)',
         Preserves, Spend \/ LimitReached \/ UNCHANGED used,
         UNCHANGED <<task, output, claims, verdict, files, report, status, proc, history>>
  PROVE  ResearchEffect(p, t)
<1>1. task[t] \in TaskStatus /\ output[t] \in SUBSET ClaimId
  BY DEF TypeOK
<1>2. task' = [task EXCEPT ![t] = task[t]] /\ output' = [output EXCEPT ![t] = output[t]]
  BY DEF TypeOK
<1>3. used' \in 0..MaxRequests
  BY SpendTypes
<1>4. QED
  BY <1>1, <1>2, <1>3 DEF ResearchEffect

LEMMA FailureEffect ==
  ASSUME TypeOK, NEW p \in Process, NEW t \in Task,
         proc[p].at = "research", res[p][t].at \notin {"off", "done"},
         FailedTask(p, t), Spend \/ LimitReached \/ UNCHANGED used
  PROVE  ResearchEffect(p, t)
<1>1. Preserves
  BY Unmoved DEF FailedTask, ledger, disk
<1>2. [NoResearcher EXCEPT !.at = "done"] \in Researcher
  BY DEF NoResearcher, Researcher, ResearchPhase
<1>3. OnEvidence([NoResearcher EXCEPT !.at = "done"])'
  BY OnEvidenceIdle
<1>4. used' \in 0..MaxRequests
  BY SpendTypes
<1>5. "FAILED" \in TaskStatus /\ {} \in SUBSET ClaimId
  BY DEF TaskStatus
<1>6. QED
  BY <1>1, <1>2, <1>3, <1>4, <1>5 DEF ResearchEffect, FailedTask, ledger, disk

LEMMA ResearchStepEffect ==
  ASSUME RunInv, NEW p \in Process, NEW t \in Task, ResearchStep(p, t)
  PROVE  ResearchEffect(p, t)
<1> DEFINE r == res[p][t]
<1>1. TypeOK /\ r \in Researcher /\ OnEvidence(r)
  BY DEF RunInv, TypeOK, EvidenceInv
<1>2. CASE ResearchBegin(p, t)
  <2>1. PICK n \in Researcher : n = [r EXCEPT !.at = "search"]
    BY <1>1 DEF Researcher, ResearchPhase
  <2>2. Preserves
    BY <1>1, <1>2, Unmoved DEF ResearchBegin, ledger, disk
  <2>3. OnEvidence(n)
    BY <1>1, <2>1 DEF OnEvidence, Researcher
  <2>4. OnEvidence(n)'
    BY <2>2, <2>3, OnEvidenceStays
  <2>5. PICK ids \in SUBSET ClaimId : output' = [output EXCEPT ![t] = ids]
    BY <1>1, <1>2 DEF TypeOK, ResearchBegin
  <2>6. used' \in 0..MaxRequests
    BY <1>1, <1>2, SpendTypes DEF ResearchBegin
  <2>7. "RUNNING" \in TaskStatus
    BY DEF TaskStatus
  <2>8. /\ proc[p].at = "research" /\ r.at = "queued" /\ Becomes(p, t, n)
        /\ task' = [task EXCEPT ![t] = "RUNNING"]
        /\ UNCHANGED <<claims, verdict, files, report, status, proc, history>>
    BY <1>2, <2>1 DEF ResearchBegin, Works, ledger, disk
  <2>9. QED
    BY <2>2, <2>4, <2>5, <2>6, <2>7, <2>8 DEF ResearchEffect
<1>3. CASE ResearchFails(p, t) \/ FetchMismatch(p, t) \/ StoreLimit(p, t) \/ ClaimLimit(p, t)
  BY <1>1, <1>3, FailureEffect
  DEF ResearchFails, FetchMismatch, StoreLimit, ClaimLimit, Works
<1>4. CASE Search(p, t)
  <2>1. PICK urls \in SUBSET Page : Becomes(p, t, [r EXCEPT !.at = "fetch", !.urls = urls])
    BY <1>4 DEF Search
  <2>2. PICK n \in Researcher : n = [r EXCEPT !.at = "fetch", !.urls = urls]
    BY <1>1 DEF Researcher, ResearchPhase
  <2>3. Preserves
    BY <1>1, <1>4, Unmoved DEF Search, ledger, disk
  <2>4. OnEvidence(n)
    BY <1>1, <2>2 DEF OnEvidence, Researcher
  <2>5. OnEvidence(n)'
    BY <2>3, <2>4, OnEvidenceStays
  <2>6. QED
    BY <1>1, <1>4, <2>1, <2>2, <2>3, <2>5, QuietEffect DEF Search, Works, ledger, disk
<1>5. CASE FetchSkip(p, t)
  <2>1. PICK u \in r.urls : Becomes(p, t, [r EXCEPT !.urls = @ \ {u}])
    BY <1>5 DEF FetchSkip
  <2>2. PICK n \in Researcher : n = [r EXCEPT !.urls = @ \ {u}]
    BY <1>1 DEF Researcher
  <2>3. Preserves
    BY <1>1, <1>5, Unmoved DEF FetchSkip, ledger, disk
  <2>4. OnEvidence(n)
    BY <1>1, <2>2 DEF OnEvidence, Researcher
  <2>5. OnEvidence(n)'
    BY <2>3, <2>4, OnEvidenceStays
  <2>6. QED
    BY <1>1, <1>5, <2>1, <2>2, <2>3, <2>5, QuietEffect DEF FetchSkip, Works, ledger, disk
<1>6. CASE FetchPage(p, t)
  <2>1. PICK u \in r.urls :
           /\ file[u] = "none" \/ Holds(u)
           /\ Becomes(p, t, [r EXCEPT !.at = IF file[u] = "none" THEN "open" ELSE "store",
                                      !.page = {u}])
    BY <1>6 DEF FetchPage
  <2>2. u \in Page
    BY <1>1 DEF Researcher
  <2>3. PICK n \in Researcher :
           n = [r EXCEPT !.at = IF file[u] = "none" THEN "open" ELSE "store", !.page = {u}]
    BY <1>1, <2>2 DEF Researcher, ResearchPhase
  <2>4. Preserves
    BY <1>1, <1>6, Unmoved DEF FetchPage, ledger, disk
  <2>5. OnEvidence(n)
    BY <1>1, <2>1, <2>2, <2>3 DEF OnEvidence, Researcher, Holds, Intact
  <2>6. OnEvidence(n)'
    BY <2>4, <2>5, OnEvidenceStays
  <2>7. QED
    BY <1>1, <1>6, <2>1, <2>3, <2>4, <2>6, QuietEffect DEF FetchPage, Works, ledger, disk
<1>7. CASE OpenPage(p, t)
  <2>1. PICK n \in Researcher : n = [r EXCEPT !.at = "save"]
    BY <1>1 DEF Researcher, ResearchPhase
  <2>2. Preserves
    <3>1. \A u \in Page : Intact(u) => Intact(u)'
      BY <1>1, <1>7 DEF OpenPage, Intact, TypeOK, Researcher
    <3>2. QED
      BY <1>1, <1>7, <3>1 DEF OpenPage, ledger, disk, Preserves, TypeOK, Researcher
  <2>3. r.at = "open" /\ Becomes(p, t, n)
    BY <1>7, <2>1 DEF OpenPage, Works
  <2>4. OnEvidence(n)
    BY <1>1, <2>1, <2>3 DEF OnEvidence, Researcher
  <2>5. OnEvidence(n)'
    BY <2>2, <2>4, OnEvidenceStays
  <2>6. QED
    BY <1>1, <1>7, <2>2, <2>3, <2>5, QuietEffect DEF OpenPage, Works, ledger, disk
<1>8. CASE SavePage(p, t)
  <2>1. PICK n \in Researcher : n = [r EXCEPT !.at = "store"]
    BY <1>1 DEF Researcher, ResearchPhase
  <2>2. PICK left \in {"whole", "torn"} :
           /\ left = "torn" => r.page \subseteq reopened
           /\ file' = [u \in Page |-> IF u \in r.page THEN left ELSE file[u]]
    BY <1>8 DEF SavePage
  <2>3. UNCHANGED <<reopened, sources, stored>>
    BY <1>8 DEF SavePage, ledger, disk
  <2>4. Preserves
    BY <1>1, <2>2, <2>3 DEF Preserves, Intact, TypeOK
  <2>5. \A u \in r.page : Intact(u)'
    BY <1>1, <2>2, <2>3 DEF Intact, Researcher
  <2>6. r.at = "save" /\ Becomes(p, t, n)
    BY <1>8, <2>1 DEF SavePage, Works
  <2>7. \A u \in r.got : Sound(u)'
    BY <1>1, <2>4, SoundStays DEF OnEvidence, Researcher
  <2>8. OnEvidence(n)'
    BY <1>1, <2>1, <2>5, <2>6, <2>7 DEF OnEvidence, Researcher
  <2>9. QED
    BY <1>1, <1>8, <2>4, <2>6, <2>8, QuietEffect DEF SavePage, Works, ledger, disk
<1>9. CASE StorePage(p, t)
  <2>1. PICK u \in Page : r.page = {u}
    BY <1>1, <1>9 DEF StorePage, Works, OnEvidence
  <2>2. /\ r.at = "store" /\ sources' = sources \union {u}
        /\ {u} \subseteq sources \/ Cardinality(sources) < MaxSources
        /\ UNCHANGED <<file, reopened, stored>>
    BY <1>1, <1>9, <2>1 DEF StorePage, Works, disk
  <2>3. PICK n \in Researcher : n = [r EXCEPT !.at = "link"]
    BY <1>1 DEF Researcher, ResearchPhase
  <2>4. Preserves
    BY <1>1, <2>2 DEF Preserves, TypeOK, Intact
  <2>5. OnEvidence(n)
    BY <1>1, <2>2, <2>3 DEF OnEvidence, Researcher
  <2>6. OnEvidence(n)'
    BY <2>4, <2>5, OnEvidenceStays
  <2>7. Becomes(p, t, n)
    BY <1>9, <2>3 DEF StorePage
  <2>8. QED
    BY <1>1, <1>9, <2>4, <2>6, <2>7, QuietEffect DEF StorePage, Works
<1>10. CASE SnapshotPage(p, t)
  <2>1. PICK u \in Page : r.page = {u}
    BY <1>1, <1>10 DEF SnapshotPage, Works, OnEvidence
  <2>2. /\ r.at = "link" /\ Intact(u) /\ stored' = stored \union {u}
        /\ UNCHANGED <<file, reopened, sources>>
    BY <1>1, <1>10, <2>1 DEF SnapshotPage, Works, OnEvidence, disk
  <2>3. PICK n \in Researcher : n = [r EXCEPT !.at = "fetch", !.page = {}, !.urls = @ \ {u},
                                              !.got = @ \union {u}]
    BY <1>1 DEF Researcher, ResearchPhase
  <2>4. Preserves
    BY <1>1, <2>2 DEF Preserves, TypeOK, Intact
  <2>5. \A v \in n.got : Sound(v)'
    <3>1. Sound(u)'
      BY <2>2 DEF Sound, Intact
    <3>2. \A v \in r.got : Sound(v)'
      BY <1>1, <2>4, SoundStays DEF OnEvidence, Researcher
    <3>3. QED
      BY <1>1, <2>3, <3>1, <3>2 DEF Researcher
  <2>6. OnEvidence(n)'
    BY <1>1, <2>3, <2>5 DEF OnEvidence, Researcher
  <2>7. Becomes(p, t, n)
    BY <1>10, <2>1, <2>3 DEF SnapshotPage
  <2>8. QED
    BY <1>1, <1>10, <2>4, <2>6, <2>7, QuietEffect DEF SnapshotPage, Works
<1>11. CASE Generate(p, t)
  <2>1. PICK findings \in ValidFindings(r.got) :
           Becomes(p, t, [r EXCEPT !.at = "persist", !.todo = findings])
    BY <1>11 DEF Generate
  <2>2. findings \subseteq r.got \X Text /\ findings \subseteq Finding
    BY <1>1 DEF ValidFindings, Finding, Researcher
  <2>3. PICK n \in Researcher : n = [r EXCEPT !.at = "persist", !.todo = findings]
    BY <1>1, <2>2 DEF Researcher, ResearchPhase
  <2>4. Preserves
    BY <1>1, <1>11, Unmoved DEF Generate, ledger, disk
  <2>5. OnEvidence(n)
    BY <1>1, <2>2, <2>3 DEF OnEvidence, Researcher
  <2>6. OnEvidence(n)'
    BY <2>4, <2>5, OnEvidenceStays
  <2>7. QED
    BY <1>1, <1>11, <2>1, <2>3, <2>4, <2>6, QuietEffect DEF Generate, Works, ledger, disk
<1>12. ASSUME NEW finding \in Finding, NEW id \in ClaimId, Keeps(p, t, finding, id),
              UNCHANGED <<file, reopened, sources, stored>>
       PROVE  \E n \in Researcher : Becomes(p, t, n) /\ OnEvidence(n)'
  <2>1. PICK n \in Researcher :
           n = [r EXCEPT !.at = "persist", !.todo = @ \ {finding}, !.finding = {},
                         !.ids = @ \union {id}]
    BY <1>1 DEF Researcher, ResearchPhase
  <2>2. OnEvidence(n)
    BY <1>1, <2>1 DEF OnEvidence, Researcher
  <2>3. Preserves
    BY <1>1, <1>12, Unmoved
  <2>4. OnEvidence(n)'
    BY <2>2, <2>3, OnEvidenceStays
  <2>5. QED
    BY <1>12, <2>1, <2>4 DEF Keeps
<1>13. CASE ClaimLookup(p, t)
  <2>1. PICK finding \in r.todo :
           \/ \E c \in Rows(t, finding) : Keeps(p, t, finding, c.id)
           \/ Becomes(p, t, [r EXCEPT !.at = "insert", !.finding = {finding}])
    BY <1>13 DEF ClaimLookup
  <2>2. finding \in Finding /\ finding \in r.got \X Text
    BY <1>1 DEF Researcher, OnEvidence
  <2>3. UNCHANGED <<file, reopened, sources, stored, claims, verdict>> /\ Preserves
    BY <1>1, <1>13, Unmoved DEF ClaimLookup, ledger, disk
  <2>4. \E n \in Researcher : Becomes(p, t, n) /\ OnEvidence(n)'
    <3>1. CASE \E c \in Rows(t, finding) : Keeps(p, t, finding, c.id)
      BY <1>1, <1>12, <2>2, <2>3, <3>1 DEF Rows, TypeOK, ClaimRow
    <3>2. CASE Becomes(p, t, [r EXCEPT !.at = "insert", !.finding = {finding}])
      <4>1. PICK n \in Researcher : n = [r EXCEPT !.at = "insert", !.finding = {finding}]
        BY <1>1, <2>2 DEF Researcher, ResearchPhase
      <4>2. OnEvidence(n)
        BY <1>1, <2>2, <4>1 DEF OnEvidence, Researcher
      <4>3. OnEvidence(n)'
        BY <2>3, <4>2, OnEvidenceStays
      <4>4. QED
        BY <3>2, <4>1, <4>3
    <3>3. QED
      BY <2>1, <3>1, <3>2
  <2>5. QED
    BY <1>1, <1>13, <2>3, <2>4, QuietEffect DEF ClaimLookup, Works
<1>14. CASE ClaimInsert(p, t)
  <2>1. PICK finding \in r.finding :
           \/ /\ \E c \in Rows(t, finding) : Keeps(p, t, finding, c.id)
              /\ UNCHANGED claims
           \/ /\ Rows(t, finding) = {} /\ Cardinality(claims) + 1 \in ClaimId
              /\ claims' = claims \union
                   {[id |-> Cardinality(claims) + 1, task |-> t, page |-> finding[1],
                     text |-> finding[2]]}
              /\ Keeps(p, t, finding, Cardinality(claims) + 1)
    BY <1>14 DEF ClaimInsert, Found
  <2>2. finding \in Finding /\ Sound(finding[1])
    BY <1>1 DEF Researcher, OnEvidence, Finding
  <2>3. UNCHANGED <<file, reopened, sources, stored, verdict, task, output, used, files,
                    report, status, proc, history>>
    BY <1>14 DEF ClaimInsert, disk
  <2>4. \E n \in Researcher : Becomes(p, t, n) /\ OnEvidence(n)'
    BY <1>1, <1>12, <2>1, <2>2, <2>3 DEF Rows, TypeOK, ClaimRow
  <2>5. UNCHANGED claims \/ \E f \in Finding : Inserts(t, f)
    BY <2>1, <2>2 DEF Inserts
  <2>6. Preserves /\ used' \in 0..MaxRequests
    BY <1>1, <2>3, Unmoved, SpendTypes
  <2>7. /\ proc[p].at = "research" /\ r.at = "insert"
        /\ \E s \in TaskStatus : task' = [task EXCEPT ![t] = s] /\ s = task[t]
        /\ \E ids \in SUBSET ClaimId : output' = [output EXCEPT ![t] = ids]
    BY <1>1, <1>14, <2>3 DEF ClaimInsert, Works, TypeOK
  <2>8. QED
    BY <2>3, <2>4, <2>5, <2>6, <2>7 DEF ResearchEffect
<1>15. CASE ResearchEnd(p, t)
  <2>1. PICK n \in Researcher : n = [NoResearcher EXCEPT !.at = "done"]
    BY NobodyTypes DEF Researcher, ResearchPhase
  <2>2. OnEvidence(n)' /\ n.at = "done"
    BY <2>1, OnEvidenceIdle DEF NoResearcher
  <2>3. PICK ids \in SUBSET ClaimId : ids = r.ids
    BY <1>1 DEF Researcher
  <2>4. /\ Becomes(p, t, n) /\ task' = [task EXCEPT ![t] = "COMPLETED"]
        /\ output' = [output EXCEPT ![t] = ids]
        /\ Goes(p, [proc[p] EXCEPT !.ids = @ \union ids])
        /\ proc[p].at = "research" /\ r.at = "persist"
        /\ UNCHANGED <<claims, verdict, sources, stored, file, reopened, used, files, report,
                       status, history>>
    BY <1>15, <2>1, <2>3 DEF ResearchEnd, Works, ledger, disk
  <2>5. Preserves /\ used' \in 0..MaxRequests /\ "COMPLETED" \in TaskStatus
    BY <1>1, <2>4, Unmoved, SpendTypes DEF TaskStatus
  <2>6. QED
    BY <2>2, <2>4, <2>5 DEF ResearchEffect
<1>16. QED
  BY <1>2, <1>3, <1>4, <1>5, <1>6, <1>7, <1>8, <1>9, <1>10, <1>11, <1>13, <1>14,
     <1>15 DEF ResearchStep

-----------------------------------------------------------------------------
(* Every other step leaves the ledger, disk's pages and claims alone.            *)

Queued == [NoResearcher EXCEPT !.at = "queued"]

\* Researchers stay, or begin anew.
Resets ==
    /\ res' \in [Process -> [Task -> Researcher]]
    /\ \A p \in Process, t \in Task : res'[p][t] \in {res[p][t], NoResearcher, Queued}

OtherEffect ==
    /\ Resets
    /\ proc' \in [Process -> Execution]
    /\ UNCHANGED <<file, reopened, sources, stored, claims>>

LEMMA UnchangedResets ==
  ASSUME TypeOK, UNCHANGED res
  PROVE  Resets
  BY DEF TypeOK, Resets

LEMMA FansEffect ==
  ASSUME TypeOK, NEW p \in Process, NEW todo \in SUBSET Task, NEW ids \in SUBSET ClaimId,
         Fans(p, todo, ids)
  PROVE  Resets /\ proc' \in [Process -> Execution]
<1>1. Queued \in Researcher /\ NoResearcher \in Researcher
  BY NobodyTypes DEF Queued, NoResearcher, Researcher, ResearchPhase
<1>2. Resets
  BY <1>1 DEF Fans, TypeOK, Resets, Queued
<1>3. [proc[p] EXCEPT !.at = "research", !.todo = todo, !.ids = ids] \in Execution
  BY DEF TypeOK, Execution, ProcessPhase
<1>4. QED
  BY <1>2, <1>3 DEF Fans, Goes, TypeOK

LEMMA GoesType ==
  ASSUME TypeOK, NEW p \in Process, NEW e \in Execution, Goes(p, e)
  PROVE  proc' \in [Process -> Execution]
  BY DEF TypeOK, Goes

LEMMA SeenTypes ==
  ASSUME TypeOK
  PROVE  Seen \subseteq ClaimId /\ Accepted \subseteq Seen
  BY DEF TypeOK, Seen, Accepted, ClaimRow

LEMMA StartEffect ==
  ASSUME TypeOK, NEW p \in Process, NEW early \in BOOLEAN, Start(p, early)
  PROVE  OtherEffect /\ TypeOK'
<1>1. Resets
  BY NobodyTypes DEF Start, TypeOK, Resets
<1>2. [NoExecution EXCEPT !.at = "plan", !.early = early] \in Execution
  BY NobodyTypes DEF NoExecution, Execution, ProcessPhase
<1>3. proc' \in [Process -> Execution]
  BY <1>2, GoesType DEF Start
<1>4. UNCHANGED <<file, reopened, sources, stored, claims>>
  BY DEF Start, ledger, disk
<1>5. starts' \in 0..MaxStarts /\ overlapped' \in BOOLEAN
  BY Limits DEF TypeOK, Start
<1>6. UNCHANGED <<task, output, verdict, used, files, report, status>>
  BY DEF Start, ledger
<1>7. QED
  BY <1>1, <1>3, <1>4, <1>5, <1>6 DEF OtherEffect, TypeOK, Resets

LEMMA HaltEffect ==
  ASSUME TypeOK, NEW p \in Process, Halts(p)
  PROVE  OtherEffect /\ TypeOK'
<1>1. Resets
  <2>1. res' = [res EXCEPT ![p] = [t \in Task |-> NoResearcher]]
    BY DEF Halts, Kill, Abort
  <2>2. QED
    BY <2>1, NobodyTypes DEF TypeOK, Resets
<1>2. [proc[p] EXCEPT !.at = "done"] \in Execution
  BY DEF TypeOK, Execution, ProcessPhase
<1>3. proc' \in [Process -> Execution]
  BY <1>2, NobodyTypes, GoesType DEF Halts, Kill, Abort
<1>4. /\ UNCHANGED <<task, output, ledger, disk, used, files, report, history>>
      /\ status' \in FinalStatus \union {"CREATED"}
  BY DEF Halts, Kill, Abort, TypeOK, FinalStatus
<1>5. QED
  BY <1>1, <1>3, <1>4 DEF OtherEffect, TypeOK, ledger, disk, Resets, history

LEMMA GraphEffect ==
  ASSUME TypeOK, NEW p \in Process, GraphStep(p)
  PROVE  OtherEffect /\ TypeOK'
<1>1. proc[p] \in Execution
  BY DEF TypeOK
<1>2. UNCHANGED <<file, reopened, sources, stored, claims, verdict, output, history>>
  BY DEF GraphStep, PlanResume, PlanAsk, PlanCreate, Join, WriterBegin, LimitEnds,
         WriteFiles, StoreReport, Finish, ledger, disk
<1>3. used' \in 0..MaxRequests
  <2>1. Spend \/ LimitReached \/ UNCHANGED used
    BY DEF GraphStep, PlanResume, PlanAsk, PlanCreate, Join, WriterBegin, LimitEnds,
           WriteFiles, StoreReport, Finish
  <2>2. QED
    BY <2>1, SpendTypes
<1>4. ASSUME proc' \in [Process -> Execution], Resets, task' \in [Task -> TaskStatus],
             files' \in Report, report' \in Report, status' \in FinalStatus \union {"CREATED"}
      PROVE  OtherEffect /\ TypeOK'
  BY <1>2, <1>3, <1>4 DEF OtherEffect, TypeOK, Resets, history
<1>5. CASE LimitEnds(p)
  <2>1. [proc[p] EXCEPT !.at = "done"] \in Execution
    BY <1>1 DEF Execution, ProcessPhase
  <2>2. proc' \in [Process -> Execution]
    BY <1>5, <2>1, GoesType DEF LimitEnds
  <2>3. QED
    BY <1>4, <1>5, <2>2, UnchangedResets DEF LimitEnds, TypeOK, FinalStatus
<1>6. CASE PlanResume(p)
  <2>1. UNION {output[t] : t \in Completed} \in SUBSET ClaimId
    BY DEF TypeOK, Completed
  <2>2. (IF proc[p].early THEN {} ELSE {t \in Task : Runnable(t)}) \in SUBSET Task
    OBVIOUS
  <2>3. Resets /\ proc' \in [Process -> Execution]
    BY <1>6, <2>1, <2>2, FansEffect DEF PlanResume
  <2>4. QED
    BY <1>4, <1>6, <2>3 DEF PlanResume, TypeOK
<1>7. CASE PlanAsk(p)
  <2>1. [proc[p] EXCEPT !.at = "create"] \in Execution
    BY <1>1 DEF Execution, ProcessPhase
  <2>2. proc' \in [Process -> Execution]
    BY <1>7, <2>1, GoesType DEF PlanAsk
  <2>3. QED
    BY <1>4, <1>7, <2>2, UnchangedResets DEF PlanAsk, TypeOK
<1>8. CASE PlanCreate(p)
  <2>1. PICK new \in SUBSET Task :
           /\ task' = [t \in Task |-> IF t \in new THEN "PENDING" ELSE task[t]]
           /\ Fans(p, new, {})
    BY <1>8 DEF PlanCreate
  <2>2. Resets /\ proc' \in [Process -> Execution]
    BY <2>1, FansEffect
  <2>3. task' \in [Task -> TaskStatus]
    BY <2>1 DEF TypeOK, TaskStatus
  <2>4. QED
    BY <1>4, <1>8, <2>2, <2>3 DEF PlanCreate, TypeOK
<1>9. CASE Join(p)
  <2>1. Unverified(proc[p].ids) \subseteq ClaimId
    BY <1>1 DEF Unverified, Execution
  <2>2. [proc[p] EXCEPT !.at = "verify", !.pending = Unverified(proc[p].ids)] \in Execution
    BY <1>1, <2>1 DEF Execution, ProcessPhase
  <2>3. proc' \in [Process -> Execution]
    BY <1>9, <2>2, GoesType DEF Join
  <2>4. QED
    BY <1>4, <1>9, <2>3, UnchangedResets DEF Join, TypeOK
<1>10. CASE WriterBegin(p)
  <2>1. [main |-> Accepted, seen |-> Seen] \in Report
    BY SeenTypes DEF Report
  <2>2. [proc[p] EXCEPT !.at = "write", !.packet = [main |-> Accepted, seen |-> Seen]]
           \in Execution
    BY <1>1, <2>1 DEF Execution, ProcessPhase
  <2>3. proc' \in [Process -> Execution]
    BY <1>10, <2>2, GoesType DEF WriterBegin
  <2>4. QED
    BY <1>4, <1>10, <2>3, UnchangedResets DEF WriterBegin, TypeOK
<1>11. CASE WriteFiles(p)
  <2>1. PICK main \in ValidCitations(proc[p].packet.main) :
           /\ files' = [main |-> main, seen |-> proc[p].packet.seen]
           /\ Goes(p, [proc[p] EXCEPT !.at = "files", !.packet = files'])
    BY <1>11 DEF WriteFiles
  <2>2. files' \in Report
    BY <1>1, <2>1 DEF ValidCitations, Execution, Report
  <2>3. [proc[p] EXCEPT !.at = "files", !.packet = files'] \in Execution
    BY <1>1, <2>2 DEF Execution, ProcessPhase
  <2>4. proc' \in [Process -> Execution]
    BY <2>1, <2>3 DEF Goes, TypeOK
  <2>5. QED
    BY <1>4, <1>11, <2>2, <2>4, UnchangedResets DEF WriteFiles, TypeOK
<1>12. CASE StoreReport(p)
  <2>1. [proc[p] EXCEPT !.at = "final"] \in Execution /\ proc[p].packet \in Report
    BY <1>1 DEF Execution, ProcessPhase
  <2>2. proc' \in [Process -> Execution]
    BY <1>12, <2>1, GoesType DEF StoreReport
  <2>3. QED
    BY <1>4, <1>12, <2>1, <2>2, UnchangedResets DEF StoreReport, TypeOK
<1>13. CASE Finish(p)
  <2>1. [proc[p] EXCEPT !.at = "done"] \in Execution
    BY <1>1 DEF Execution, ProcessPhase
  <2>2. proc' \in [Process -> Execution]
    BY <1>13, <2>1, GoesType DEF Finish
  <2>3. Resolved \in FinalStatus
    BY DEF Resolved, FinalStatus
  <2>4. QED
    BY <1>4, <1>13, <2>2, <2>3, UnchangedResets DEF Finish, TypeOK
<1>14. QED
  BY <1>5, <1>6, <1>7, <1>8, <1>9, <1>10, <1>11, <1>12, <1>13 DEF GraphStep

LEMMA VerifyEffect ==
  ASSUME TypeOK, NEW p \in Process, NEW c \in ClaimId, VerifyStep(p, c)
  PROVE  OtherEffect /\ TypeOK'
<1>1. proc[p] \in Execution
  BY DEF TypeOK
<1>2. /\ Resets
      /\ UNCHANGED <<file, reopened, sources, stored, claims, task, output, files, report, status, history>>
  BY UnchangedResets DEF VerifyStep, VerifyBegin, VerifyCommit, VerifyFails, ledger, disk
<1>3. used' \in 0..MaxRequests
  BY SpendTypes DEF VerifyStep, VerifyBegin, VerifyCommit, VerifyFails
<1>4. verdict' \in [ClaimId -> Verdict \union {"UNVERIFIED"}]
  BY DEF VerifyStep, VerifyBegin, VerifyCommit, VerifyFails, TypeOK, ledger, disk
<1>5. proc' \in [Process -> Execution]
  <2>1. /\ [proc[p] EXCEPT !.pending = @ \ {c}, !.checking = @ \union {c}] \in Execution
        /\ [proc[p] EXCEPT !.checking = @ \ {c}] \in Execution
    BY <1>1 DEF Execution
  <2>2. QED
    BY <2>1, GoesType DEF VerifyStep, VerifyBegin, VerifyCommit, VerifyFails
<1>6. QED
  BY <1>2, <1>3, <1>4, <1>5 DEF OtherEffect, Resets, TypeOK, history

-----------------------------------------------------------------------------
(* The invariant of the run, however its executions overlap.               *)

LEMMA PreservesSources ==
  ASSUME TypeOK, LedgerInv, Preserves
  PROVE  /\ sources' \subseteq Page /\ IsFiniteSet(sources')
         /\ Cardinality(sources') <= MaxSources
<1>1. CASE UNCHANGED sources
  BY <1>1 DEF TypeOK, LedgerInv
<1>2. CASE \E u \in Page : sources' = sources \union {u} /\ Cardinality(sources) < MaxSources
  <2>1. PICK u \in Page : sources' = sources \union {u} /\ Cardinality(sources) < MaxSources
    BY <1>2
  <2>2. CASE u \in sources
    <3>1. sources' = sources
      BY <2>1, <2>2
    <3>2. QED
      BY <3>1 DEF TypeOK, LedgerInv
  <2>3. CASE u \notin sources
    <3>1. IsFiniteSet(sources') /\ Cardinality(sources') = Cardinality(sources) + 1
      BY <2>1, <2>3, FS_AddElement DEF LedgerInv
    <3>2. Cardinality(sources) \in Nat
      BY FS_CardinalityType DEF LedgerInv
    <3>3. QED
      BY <2>1, <3>1, <3>2, Limits DEF TypeOK
  <2>4. QED
    BY <2>2, <2>3
<1>3. QED
  BY <1>1, <1>2 DEF Preserves

LEMMA InsertKeepsLedger ==
  ASSUME RunInv, NEW t \in Task, NEW finding \in Finding, Inserts(t, finding), Preserves
  PROVE  /\ claims' \subseteq ClaimRow /\ EvidenceFirst'
         /\ IsFiniteSet(claims') /\ Numbered' /\ OneRowPerFinding'
<1> DEFINE n == Cardinality(claims) + 1
<1>1. PICK row \in ClaimRow :
         row = [id |-> n, task |-> t, page |-> finding[1], text |-> finding[2]]
  BY DEF Inserts, ClaimRow, Finding
<1>2. claims' = claims \union {row} /\ row.id = n /\ n \in 1..MaxClaims
  BY <1>1 DEF Inserts, ClaimId
<1>3. TypeOK /\ IsFiniteSet(claims) /\ Numbered /\ OneRowPerFinding /\ EvidenceFirst
  BY DEF RunInv, LedgerInv, EvidenceInv
<1>4. Cardinality(claims) \in Nat
  BY <1>3, FS_CardinalityType
<1>5. \A c \in claims : c \in ClaimRow /\ c.id \in Nat /\ c.id < n
  BY <1>3, <1>4, Limits DEF Numbered, TypeOK, ClaimRow, ClaimId
<1>6. row \notin claims
  BY <1>2, <1>4, <1>5
<1>7. IsFiniteSet(claims') /\ Cardinality(claims') = n
  BY <1>2, <1>3, <1>6, FS_AddElement
<1>8. Numbered'
  BY <1>2, <1>3, <1>4, <1>5, <1>7, Limits DEF Numbered
<1>9. OneRowPerFinding'
  <2>1. \A c \in claims :
           ~(c.task = row.task /\ c.page = row.page /\ c.text = row.text)
    BY <1>1 DEF Inserts, Rows
  <2>2. QED
    BY <1>2, <1>3, <2>1 DEF OneRowPerFinding
<1>10. EvidenceFirst'
  <2>1. \A u \in Page : Sound(u) => Sound(u)'
    BY SoundStays
  <2>2. \A c \in claims : c.page \in Page /\ Sound(c.page)
    BY <1>3, <1>5 DEF EvidenceFirst, Sound, Intact, ClaimRow
  <2>3. row.page \in Page /\ Sound(row.page)
    BY <1>1 DEF Inserts, ClaimRow
  <2>4. QED
    BY <1>2, <2>1, <2>2, <2>3 DEF EvidenceFirst, Sound, Intact
<1>11. claims' \subseteq ClaimRow
  BY <1>2, <1>3 DEF TypeOK
<1>12. QED
  BY <1>7, <1>8, <1>9, <1>10, <1>11

LEMMA ResearchKeepsRun ==
  ASSUME RunInv, NEW p \in Process, NEW t \in Task, ResearchEffect(p, t)
  PROVE  RunInv'
<1>1. TypeOK /\ EvidenceInv /\ LedgerInv /\ Preserves
  BY DEF RunInv, ResearchEffect
<1>2. PICK r \in Researcher, s \in TaskStatus, ids \in SUBSET ClaimId :
         /\ Becomes(p, t, r) /\ OnEvidence(r)'
         /\ task' = [task EXCEPT ![t] = s]
         /\ output' = [output EXCEPT ![t] = ids]
  BY DEF ResearchEffect
<1>3. sources' \subseteq Page /\ IsFiniteSet(sources') /\ Cardinality(sources') <= MaxSources
  BY <1>1, PreservesSources
<1>4. /\ claims' \subseteq ClaimRow /\ EvidenceFirst'
      /\ IsFiniteSet(claims') /\ Numbered' /\ OneRowPerFinding'
  <2>1. CASE UNCHANGED claims
    <3>1. \A c \in claims : c.page \in Page /\ Sound(c.page)
      BY <1>1 DEF TypeOK, ClaimRow, EvidenceInv, EvidenceFirst, Sound, Intact
    <3>2. \A u \in Page : Sound(u) => Sound(u)'
      BY <1>1, SoundStays
    <3>3. EvidenceFirst'
      BY <2>1, <3>1, <3>2 DEF EvidenceFirst, Sound, Intact
    <3>4. QED
      BY <1>1, <2>1, <3>3 DEF TypeOK, LedgerInv, Numbered, OneRowPerFinding
  <2>2. CASE \E finding \in Finding : Inserts(t, finding)
    BY <1>1, <2>2, InsertKeepsLedger
  <2>3. QED
    BY <2>1, <2>2 DEF ResearchEffect
<1>5. res' \in [Process -> [Task -> Researcher]]
  BY <1>1, <1>2 DEF TypeOK, Becomes
<1>6. \A q \in Process, x \in Task : OnEvidence(res[q][x])'
  <2>1. SUFFICES ASSUME NEW q \in Process, NEW x \in Task PROVE OnEvidence(res[q][x])'
    OBVIOUS
  <2>2. CASE q = p /\ x = t
    <3>1. res'[q][x] = r
      BY <1>1, <1>2, <2>2 DEF TypeOK, Becomes
    <3>2. QED
      BY <1>2, <3>1 DEF OnEvidence, Sound, Intact
  <2>3. CASE ~(q = p /\ x = t)
    <3>1. PICK o \in Researcher : o = res[q][x]
      BY <1>1 DEF TypeOK
    <3>2. res'[q][x] = o
      BY <1>1, <1>2, <2>3, <3>1 DEF TypeOK, Becomes
    <3>3. OnEvidence(o)
      BY <1>1, <3>1 DEF EvidenceInv
    <3>4. OnEvidence(o)'
      BY <1>1, <3>3, OnEvidenceStays
    <3>5. QED
      BY <3>2, <3>4 DEF OnEvidence, Sound, Intact
  <2>4. QED
    BY <2>2, <2>3
<1>7. proc' \in [Process -> Execution]
  <2>1. \A more \in SUBSET ClaimId : [proc[p] EXCEPT !.ids = @ \union more] \in Execution
    BY <1>1 DEF TypeOK, Execution
  <2>2. CASE UNCHANGED proc
    BY <1>1, <2>2 DEF TypeOK
  <2>3. ASSUME NEW more \in SUBSET ClaimId, Goes(p, [proc[p] EXCEPT !.ids = @ \union more])
        PROVE  proc' \in [Process -> Execution]
    BY <1>1, <2>1, <2>3, GoesType
  <2>4. QED
    BY <2>2, <2>3 DEF ResearchEffect
<1>8. TypeOK'
  BY <1>1, <1>2, <1>3, <1>4, <1>5, <1>7
  DEF TypeOK, ResearchEffect, Preserves, history
<1>9. QED
  BY <1>3, <1>4, <1>6, <1>8 DEF RunInv, EvidenceInv, LedgerInv

LEMMA OtherKeepsRun ==
  ASSUME RunInv, OtherEffect, TypeOK'
  PROVE  RunInv'
<1>1. Preserves
  BY Unmoved DEF RunInv, OtherEffect
<1>2. \A q \in Process, x \in Task : OnEvidence(res[q][x])'
  <2>1. SUFFICES ASSUME NEW q \in Process, NEW x \in Task PROVE OnEvidence(res[q][x])'
    OBVIOUS
  <2>2. PICK o \in Researcher : o = res'[q][x]
    BY DEF OtherEffect, Resets
  <2>3. OnEvidence(o)'
    <3>1. CASE o = res[q][x]
      BY <1>1, <2>2, <3>1, OnEvidenceStays DEF RunInv, EvidenceInv
    <3>2. CASE o \in {NoResearcher, Queued}
      BY <3>2 DEF OnEvidence, NoResearcher, Queued
    <3>3. QED
      BY <2>2, <3>1, <3>2 DEF OtherEffect, Resets
  <2>4. QED
    BY <2>2, <2>3 DEF OnEvidence, Sound, Intact
<1>3. EvidenceFirst' /\ LedgerInv'
  BY DEF RunInv, EvidenceInv, LedgerInv, OtherEffect, EvidenceFirst, Numbered,
         OneRowPerFinding
<1>4. QED
  BY <1>2, <1>3 DEF RunInv, EvidenceInv

LEMMA RunStep == RunInv /\ [Next]_vars => RunInv'
<1> SUFFICES ASSUME RunInv, [Next]_vars PROVE RunInv'
  OBVIOUS
<1>1. TypeOK
  BY DEF RunInv
<1>2. CASE Next
  <2>1. PICK p \in Process : \/ \E early \in BOOLEAN : Start(p, early)
                             \/ Halts(p)
                             \/ ProcessStep(p)
    BY <1>2 DEF Next, Halts
  <2>2. CASE (\E early \in BOOLEAN : Start(p, early)) \/ Halts(p) \/ GraphStep(p)
    BY <1>1, <2>2, StartEffect, HaltEffect, GraphEffect, OtherKeepsRun
  <2>3. CASE \E t \in Task : ResearchStep(p, t)
    BY <2>3, ResearchStepEffect, ResearchKeepsRun
  <2>4. CASE \E c \in ClaimId : VerifyStep(p, c)
    BY <1>1, <2>4, VerifyEffect, OtherKeepsRun
  <2>5. QED
    BY <2>1, <2>2, <2>3, <2>4 DEF ProcessStep
<1>3. CASE UNCHANGED vars
  BY <1>3 DEF vars, ledger, disk, history, RunInv, TypeOK, EvidenceInv, OnEvidence, Sound, Intact,
              EvidenceFirst, LedgerInv, Numbered, OneRowPerFinding
<1>4. QED
  BY <1>2, <1>3

LEMMA RunInit == Init => RunInv
<1> SUFFICES ASSUME Init PROVE RunInv
  OBVIOUS
<1>1. IsFiniteSet({}) /\ Cardinality({}) = 0
  BY FS_EmptySet
<1>2. NoReport \in Report
  BY DEF NoReport, Report
<1>3. proc \in [Process -> Execution] /\ res \in [Process -> [Task -> Researcher]]
  BY NobodyTypes DEF Init
<1>4. TypeOK
  <2>1. /\ task \in [Task -> TaskStatus] /\ output \in [Task -> SUBSET ClaimId]
        /\ verdict \in [ClaimId -> Verdict \union {"UNVERIFIED"}]
        /\ file \in [Page -> {"none", "torn", "whole"}]
    BY DEF Init, TaskStatus
  <2>2. /\ claims \subseteq ClaimRow /\ stored \subseteq Page /\ reopened \subseteq Page
        /\ sources \subseteq Page /\ Cardinality(sources) <= MaxSources
    <3>1. claims = {} /\ stored = {} /\ reopened = {} /\ sources = {}
      BY DEF Init
    <3>2. QED
      BY <1>1, <3>1, Limits
  <2>3. used \in 0..MaxRequests /\ starts \in 0..MaxStarts /\ overlapped \in BOOLEAN
    <3>1. used = 0 /\ starts = 0 /\ overlapped \in BOOLEAN
      BY DEF Init
    <3>2. used \in 0..MaxRequests /\ starts \in 0..MaxStarts
      BY <3>1, Limits
    <3>3. QED
      BY <3>1, <3>2
  <2>4. files \in Report /\ report \in Report /\ status \in FinalStatus \union {"CREATED"}
    BY <1>2 DEF Init
  <2>5. QED
    BY <1>3, <2>1, <2>2, <2>3, <2>4 DEF TypeOK
<1>5. EvidenceInv
  BY DEF Init, EvidenceInv, OnEvidence, NoResearcher, EvidenceFirst
<1>6. LedgerInv
  BY <1>1, Limits DEF Init, LedgerInv, Numbered, OneRowPerFinding
<1>7. QED
  BY <1>4, <1>5, <1>6 DEF RunInv

LEMMA RunInvariant == Spec => []RunInv
  BY RunInit, RunStep, PTL DEF Spec

-----------------------------------------------------------------------------
(* The invariant of executions that do not overlap.                        *)

LEMMA StepRuns ==
  ASSUME NEW p \in Process, Halts(p) \/ ProcessStep(p)
  PROVE  /\ Running(p)
         /\ \E e : Goes(p, e) \/ UNCHANGED proc
         /\ UNCHANGED history
<1>1. CASE Halts(p)
  BY <1>1 DEF Halts, Kill, Abort
<1>2. CASE GraphStep(p)
  BY <1>2 DEF GraphStep, PlanResume, PlanAsk, PlanCreate, Join, WriterBegin,
     LimitEnds, WriteFiles, StoreReport, Finish, Fans, Goes, Running
<1>3. CASE \E t \in Task : ResearchStep(p, t)
  BY <1>3 DEF ResearchStep, ResearchBegin, ResearchFails, Search, FetchSkip, FetchPage,
     FetchMismatch, OpenPage, SavePage, StorePage, SnapshotPage, StoreLimit, Generate, ClaimLookup, ClaimInsert,
     ClaimLimit, ResearchEnd, FailedTask, Works, Goes, Running
<1>4. CASE \E c \in ClaimId : VerifyStep(p, c)
  BY <1>4 DEF VerifyStep, VerifyBegin, VerifyCommit, VerifyFails, Goes, Running
<1>5. QED
  BY <1>1, <1>2, <1>3, <1>4 DEF ProcessStep

\* Only the execution that takes the step has something to keep.
LEMMA OthersIdle ==
  ASSUME TypeOK, Alone, NEW p \in Process, Halts(p) \/ ProcessStep(p),
         (FreshTasks(p) /\ FreshClaims(p) /\ PacketTrue(p))', SupportedOnly'
  PROVE  SoloParts'
<1>1. PICK e : Goes(p, e) \/ UNCHANGED proc
  BY StepRuns
<1>2. \A q \in Process : q # p => ~Running(q)' /\ proc'[q].at \in {"off", "done"}
  BY <1>1, StepRuns DEF Alone, Running, Goes, TypeOK
<1>3. Alone'
  BY <1>2 DEF Alone
<1>4. \A q \in Process : q # p => (FreshTasks(q) /\ FreshClaims(q) /\ PacketTrue(q))'
  BY <1>2 DEF FreshTasks, FreshClaims, PacketTrue
<1>5. QED
  BY <1>3, <1>4 DEF SoloParts

LEMMA SoloStart ==
  ASSUME TypeOK, SoloParts, NEW p \in Process, NEW early \in BOOLEAN, Start(p, early),
         ~overlapped'
  PROVE  SoloParts'
<1>1. \A q \in Process : ~Running(q)
  BY DEF Start
<1>2. /\ proc'[p].at = "plan" /\ proc'[p].checking = {}
      /\ \A q \in Process : q # p => proc'[q].at \in {"off", "done"}
      /\ UNCHANGED <<report, verdict>>
  BY <1>1 DEF Start, Goes, TypeOK, Running, NoExecution, ledger
<1>3. Alone'
  BY <1>2 DEF Alone, Running
<1>4. \A q \in Process : (FreshTasks(q) /\ FreshClaims(q) /\ PacketTrue(q))'
  BY <1>2 DEF FreshTasks, FreshClaims, PacketTrue
<1>5. QED
  BY <1>2, <1>3, <1>4 DEF SoloParts, SupportedOnly

LEMMA SoloResearch ==
  ASSUME RunInv, SoloParts, NEW p \in Process, NEW t \in Task, ResearchStep(p, t)
  PROVE  SoloParts'
<1>1. TypeOK /\ ResearchEffect(p, t)
  BY ResearchStepEffect DEF RunInv
<1>2. PICK r \in Researcher, s \in TaskStatus :
         /\ Becomes(p, t, r) /\ task' = [task EXCEPT ![t] = s]
         /\ s = "COMPLETED" /\ task[t] # "COMPLETED" => r.at = "done"
  BY <1>1 DEF ResearchEffect
<1>3. /\ proc'[p].at = "research" /\ proc'[p].checking = {}
      /\ proc[p].at = "research" /\ res[p][t].at \notin {"off", "done"}
      /\ UNCHANGED <<verdict, report>>
  <2>1. /\ proc[p].at = "research" /\ res[p][t].at \notin {"off", "done"}
        /\ UNCHANGED <<verdict, report>>
    BY <1>1 DEF ResearchEffect
  <2>2. proc[p].checking = {}
    BY <2>1 DEF SoloParts, FreshClaims
  <2>3. PICK e \in Execution : e = proc[p]
    BY <1>1 DEF TypeOK
  <2>4. proc'[p].at = proc[p].at /\ proc'[p].checking = proc[p].checking
    <3>1. CASE UNCHANGED proc
      BY <3>1
    <3>2. ASSUME NEW ids \in SUBSET ClaimId, Goes(p, [proc[p] EXCEPT !.ids = @ \union ids])
          PROVE  proc'[p].at = proc[p].at /\ proc'[p].checking = proc[p].checking
      BY <1>1, <2>3, <3>2 DEF Goes, TypeOK, Execution
    <3>3. QED
      BY <1>1, <3>1, <3>2 DEF ResearchEffect
  <2>5. QED
    BY <2>1, <2>2, <2>4
<1>4. FreshTasks(p)'
  <2>1. \A x \in Task : /\ x = t => res'[p][x] = r /\ task'[x] = s
                        /\ x # t => res'[p][x] = res[p][x] /\ task'[x] = task[x]
    BY <1>1, <1>2 DEF Becomes, TypeOK
  <2>2. \A x \in Task : res[p][x].at \notin {"off", "done"} => task[x] # "COMPLETED"
    BY <1>3 DEF SoloParts, FreshTasks
  <2>3. QED
    BY <1>2, <1>3, <2>1, <2>2 DEF FreshTasks
<1>5. (FreshClaims(p) /\ PacketTrue(p))'
  BY <1>3 DEF FreshClaims, PacketTrue
<1>6. SupportedOnly'
  BY <1>3 DEF SoloParts, SupportedOnly
<1>7. QED
  BY <1>1, <1>4, <1>5, <1>6, OthersIdle DEF ProcessStep, SoloParts

LEMMA SoloVerify ==
  ASSUME TypeOK, SoloParts, NEW p \in Process, NEW c \in ClaimId, VerifyStep(p, c)
  PROVE  SoloParts'
<1>1. proc[p] \in Execution /\ FreshClaims(p)
  BY DEF TypeOK, SoloParts
<1>2. /\ proc[p].at = "verify" /\ proc'[p].at = "verify"
      /\ UNCHANGED <<claims, report>>
  <2>1. CASE VerifyBegin(p, c)
    BY <1>1, <2>1 DEF VerifyBegin, Goes, TypeOK, Execution, ledger
  <2>2. CASE VerifyCommit(p, c)
    BY <1>1, <2>2 DEF VerifyCommit, Goes, TypeOK, Execution
  <2>3. CASE VerifyFails(p, c)
    BY <1>1, <2>3 DEF VerifyFails, Goes, TypeOK, Execution, ledger
  <2>4. QED
    BY <2>1, <2>2, <2>3 DEF VerifyStep
<1>3. /\ proc'[p].pending \cap proc'[p].checking = {}
      /\ \A d \in proc'[p].pending \union proc'[p].checking :
            d \in proc[p].pending \union proc[p].checking /\ verdict'[d] = verdict[d]
  <2>1. CASE VerifyBegin(p, c)
    BY <1>1, <1>2, <2>1 DEF VerifyBegin, Goes, TypeOK, Execution, FreshClaims, ledger
  <2>2. CASE VerifyCommit(p, c) \/ VerifyFails(p, c)
    BY <1>1, <1>2, <2>2 DEF VerifyCommit, VerifyFails, Goes, TypeOK, Execution, FreshClaims,
       ledger
  <2>3. QED
    BY <2>1, <2>2 DEF VerifyStep
<1>4. (FreshTasks(p) /\ FreshClaims(p) /\ PacketTrue(p))'
  BY <1>1, <1>2, <1>3 DEF FreshTasks, FreshClaims, PacketTrue
<1>5. \A d \in ClaimId : verdict[d] = "SUPPORTED" => verdict'[d] = "SUPPORTED"
  BY <1>1, <1>2 DEF VerifyStep, VerifyBegin, VerifyCommit, VerifyFails, TypeOK, ledger,
     FreshClaims
<1>6. SupportedOnly'
  <2>1. report.main \subseteq ClaimId
    BY DEF TypeOK, Report
  <2>2. QED
    BY <1>2, <1>5, <2>1 DEF SoloParts, SupportedOnly
<1>7. QED
  BY <1>4, <1>6, OthersIdle DEF ProcessStep, SoloParts

LEMMA SoloGraph ==
  ASSUME TypeOK, SoloParts, NEW p \in Process, GraphStep(p)
  PROVE  SoloParts'
<1>1. proc[p] \in Execution /\ FreshClaims(p) /\ PacketTrue(p) /\ FreshTasks(p)
  BY DEF TypeOK, SoloParts
<1>2. UNCHANGED <<claims, verdict>> /\ Seen' = Seen
  BY DEF GraphStep, PlanResume, PlanAsk, PlanCreate, Join, WriterBegin, LimitEnds,
         WriteFiles, StoreReport, Finish, ledger, Seen
<1>3. ASSUME (FreshTasks(p) /\ FreshClaims(p) /\ PacketTrue(p))', SupportedOnly'
      PROVE  SoloParts'
  BY <1>3, OthersIdle DEF ProcessStep, SoloParts
<1>4. ASSUME UNCHANGED report PROVE SupportedOnly'
  BY <1>2, <1>4 DEF SupportedOnly, SoloParts
<1>5. CASE LimitEnds(p) \/ Finish(p)
  <2>1. proc'[p].at = "done" /\ UNCHANGED report
    BY <1>1, <1>5 DEF LimitEnds, Finish, Goes, TypeOK, Execution
  <2>2. QED
    BY <1>3, <1>4, <2>1 DEF FreshTasks, FreshClaims, PacketTrue
<1>6. CASE PlanAsk(p)
  <2>1. proc'[p].at = "create" /\ proc'[p].checking = {} /\ UNCHANGED report
    BY <1>1, <1>6 DEF PlanAsk, Goes, TypeOK, Execution, FreshClaims
  <2>2. QED
    BY <1>3, <1>4, <2>1 DEF FreshTasks, FreshClaims, PacketTrue
<1>7. ASSUME NEW todo \in SUBSET Task, NEW ids, Fans(p, todo, ids), UNCHANGED report,
             proc[p].at \in {"plan", "create"}, \A t \in todo : task'[t] # "COMPLETED"
      PROVE  SoloParts'
  <2>1. proc'[p].at = "research" /\ proc'[p].checking = {}
    BY <1>1, <1>7 DEF Fans, Goes, TypeOK, Execution, FreshClaims
  <2>2. \A t \in Task : res'[p][t].at \notin {"off", "done"} => t \in todo
    BY <1>7 DEF Fans, TypeOK, NoResearcher
  <2>3. FreshTasks(p)'
    BY <1>7, <2>2 DEF FreshTasks
  <2>4. QED
    BY <1>3, <1>4, <1>7, <2>1, <2>3 DEF FreshClaims, PacketTrue
<1>8. CASE PlanResume(p)
  <2> DEFINE todo == IF proc[p].early THEN {} ELSE {t \in Task : Runnable(t)}
  <2>1. /\ Fans(p, todo, UNION {output[t] : t \in Completed})
        /\ UNCHANGED <<report, task>> /\ proc[p].at = "plan"
    BY <1>8 DEF PlanResume
  <2>2. todo \in SUBSET Task /\ \A t \in todo : task'[t] # "COMPLETED"
    BY <2>1 DEF Runnable
  <2>3. PICK rest \in SUBSET Task : rest = todo
    BY <2>2
  <2>4. PICK ids : ids = UNION {output[t] : t \in Completed}
    OBVIOUS
  <2>5. QED
    BY <1>7, <2>1, <2>2, <2>3, <2>4
<1>9. CASE PlanCreate(p)
  <2>1. PICK new \in SUBSET Task :
           /\ task' = [t \in Task |-> IF t \in new THEN "PENDING" ELSE task[t]]
           /\ Fans(p, new, {})
    BY <1>9 DEF PlanCreate
  <2>2. proc[p].at = "create" /\ UNCHANGED report /\ \A t \in new : task'[t] # "COMPLETED"
    BY <1>9, <2>1 DEF PlanCreate
  <2>3. QED
    BY <1>7, <2>1, <2>2
<1>10. CASE Join(p)
  <2>1. /\ proc'[p].at = "verify" /\ proc'[p].checking = {} /\ UNCHANGED report
        /\ proc'[p].pending = Unverified(proc[p].ids)
    BY <1>1, <1>10 DEF Join, Goes, TypeOK, Execution, FreshClaims
  <2>2. FreshClaims(p)'
    BY <1>2, <2>1 DEF FreshClaims, Unverified
  <2>3. QED
    BY <1>3, <1>4, <2>1, <2>2 DEF FreshTasks, PacketTrue
<1>11. CASE WriterBegin(p)
  <2>1. /\ proc'[p].at = "write" /\ UNCHANGED report
        /\ proc'[p].packet = [main |-> Accepted, seen |-> Seen]
    BY <1>1, <1>11 DEF WriterBegin, Goes, TypeOK, Execution
  <2>2. PacketTrue(p)'
    BY <1>2, <2>1 DEF PacketTrue, Accepted
  <2>3. QED
    BY <1>3, <1>4, <2>1, <2>2 DEF FreshTasks, FreshClaims
<1>12. CASE WriteFiles(p)
  <2>1. PICK main \in ValidCitations(proc[p].packet.main) :
           /\ files' = [main |-> main, seen |-> proc[p].packet.seen]
           /\ Goes(p, [proc[p] EXCEPT !.at = "files", !.packet = files'])
    BY <1>12 DEF WriteFiles
  <2>2. /\ proc[p].at = "write" /\ proc'[p].at = "files" /\ proc'[p].packet = files'
        /\ UNCHANGED report
    BY <1>1, <1>12, <2>1 DEF WriteFiles, Goes, TypeOK, Execution
  <2>3. main \subseteq proc[p].packet.main
    BY <2>1 DEF ValidCitations
  <2>4. PacketTrue(p)'
    BY <1>1, <1>2, <2>1, <2>2, <2>3 DEF PacketTrue
  <2>5. QED
    BY <1>3, <1>4, <2>2, <2>4 DEF FreshTasks, FreshClaims
<1>13. CASE StoreReport(p)
  <2>1. /\ proc[p].at = "files" /\ proc'[p].at = "final"
        /\ proc'[p].packet = proc[p].packet /\ report' = proc[p].packet /\ UNCHANGED files
    BY <1>1, <1>13 DEF StoreReport, Goes, TypeOK, Execution
  <2>2. PacketTrue(p)' /\ SupportedOnly'
    BY <1>1, <1>2, <2>1 DEF PacketTrue, SupportedOnly
  <2>3. QED
    BY <1>3, <2>1, <2>2 DEF FreshTasks, FreshClaims
<1>14. QED
  BY <1>5, <1>6, <1>8, <1>9, <1>10, <1>11, <1>12, <1>13 DEF GraphStep

LEMMA SoloStep == RunInv /\ SoloInv /\ [Next]_vars => SoloInv'
<1> SUFFICES ASSUME RunInv, SoloInv, [Next]_vars, ~overlapped' PROVE SoloParts'
  BY DEF SoloInv
<1>1. TypeOK
  BY DEF RunInv
<1>2. CASE Next
  <2>1. PICK p \in Process : \/ \E early \in BOOLEAN : Start(p, early)
                             \/ Halts(p)
                             \/ ProcessStep(p)
    BY <1>2 DEF Next, Halts
  <2>2. CASE \E early \in BOOLEAN : Start(p, early)
    <3>1. SoloParts
      BY <2>2 DEF Start, SoloInv
    <3>2. QED
      BY <1>1, <2>2, <3>1, SoloStart
  <2>3. CASE Halts(p) \/ ProcessStep(p)
    <3>1. SoloParts
      BY <2>3, StepRuns DEF SoloInv, history
    <3>2. CASE Halts(p)
      <4>1. proc'[p].at \in {"off", "done"} /\ UNCHANGED <<report, verdict>>
        BY <1>1, <3>2 DEF Halts, Kill, Abort, Goes, TypeOK, NoExecution, Execution, ledger
      <4>2. (FreshTasks(p) /\ FreshClaims(p) /\ PacketTrue(p) /\ SupportedOnly)'
        BY <3>1, <4>1 DEF FreshTasks, FreshClaims, PacketTrue, SupportedOnly, SoloParts
      <4>3. QED
        BY <1>1, <3>1, <3>2, <4>2, OthersIdle DEF SoloParts
    <3>3. CASE ProcessStep(p)
      BY <1>1, <3>1, <3>3, SoloGraph, SoloResearch, SoloVerify DEF ProcessStep
    <3>4. QED
      BY <2>3, <3>2, <3>3
  <2>4. QED
    BY <2>1, <2>2, <2>3
<1>3. CASE UNCHANGED vars
  BY <1>3 DEF vars, ledger, disk, history, SoloInv, SoloParts, Alone, Running, FreshTasks,
     FreshClaims, PacketTrue, SupportedOnly, Seen
<1>4. QED
  BY <1>2, <1>3

LEMMA SoloInvariant == Spec => [](RunInv /\ SoloInv)
<1>1. Init => SoloInv
  BY DEF Init, SoloInv, SoloParts, Alone, Running, FreshTasks, FreshClaims, PacketTrue,
         SupportedOnly, NoExecution, NoReport
<1>2. QED
  BY <1>1, RunInvariant, SoloStep, PTL DEF Spec

-----------------------------------------------------------------------------
(* Action properties.                                                      *)

LEMMA GraphKeepsWork ==
  ASSUME NEW p \in Process, GraphStep(p)
  PROVE  /\ output' = output /\ verdict' = verdict
         /\ \A t \in Completed : task'[t] = "COMPLETED"
<1>1. CASE PlanResume(p) \/ PlanAsk(p) \/ Join(p)
  BY <1>1 DEF PlanResume, PlanAsk, Join, ledger, Completed
<1>2. CASE WriterBegin(p) \/ LimitEnds(p) \/ WriteFiles(p) \/ StoreReport(p) \/ Finish(p)
  BY <1>2 DEF WriterBegin, LimitEnds, WriteFiles, StoreReport, Finish, ledger, Completed
<1>3. CASE PlanCreate(p)
  BY <1>3 DEF PlanCreate, ledger, Completed
<1>4. QED
  BY <1>1, <1>2, <1>3 DEF GraphStep

\* The steps of one execution that runs alone.
LEMMA RedoneStep ==
  ASSUME RunInv, SoloInv, [Next]_vars, ~overlapped'
  PROVE  /\ \A t \in Completed : task'[t] = "COMPLETED" /\ output'[t] = output[t]
         /\ \A c \in ClaimId : verdict[c] # "UNVERIFIED" => verdict'[c] = verdict[c]
<1>1. TypeOK
  BY DEF RunInv
<1>2. ASSUME UNCHANGED <<task, output, verdict>>
      PROVE  /\ \A t \in Completed : task'[t] = "COMPLETED" /\ output'[t] = output[t]
             /\ \A c \in ClaimId : verdict[c] # "UNVERIFIED" => verdict'[c] = verdict[c]
  BY <1>2 DEF Completed
<1>3. CASE UNCHANGED vars
  BY <1>2, <1>3 DEF vars, ledger
<1>4. ASSUME NEW p \in Process, (\E early \in BOOLEAN : Start(p, early)) \/ Halts(p)
      PROVE  UNCHANGED <<task, output, verdict>>
  BY <1>4 DEF Start, Halts, Kill, Abort, ledger
<1>5. ASSUME NEW p \in Process, ProcessStep(p)
      PROVE  SoloParts
  BY <1>5, StepRuns DEF history, SoloInv
<1>6. ASSUME NEW p \in Process, NEW t \in Task, ResearchStep(p, t)
      PROVE  /\ \A x \in Completed : task'[x] = "COMPLETED" /\ output'[x] = output[x]
             /\ UNCHANGED verdict
  <2>1. ResearchEffect(p, t) /\ SoloParts
    BY <1>5, <1>6, ResearchStepEffect DEF ProcessStep
  <2>2. t \notin Completed
    BY <2>1 DEF ResearchEffect, SoloParts, FreshTasks, Completed
  <2>3. QED
    BY <1>1, <2>1, <2>2 DEF ResearchEffect, TypeOK, Completed
<1>7. ASSUME NEW p \in Process, NEW c \in ClaimId, VerifyStep(p, c)
      PROVE  /\ UNCHANGED <<task, output>>
             /\ \A d \in ClaimId : verdict[d] # "UNVERIFIED" => verdict'[d] = verdict[d]
  <2>1. FreshClaims(p)
    BY <1>5, <1>7 DEF ProcessStep, SoloParts
  <2>2. QED
    BY <1>1, <1>7, <2>1 DEF VerifyStep, VerifyBegin, VerifyCommit, VerifyFails, TypeOK,
       FreshClaims, ledger
<1>8. QED
  BY <1>2, <1>3, <1>4, <1>6, <1>7, GraphKeepsWork DEF Next, Halts, ProcessStep,
     Completed

\* A run that ends as completed has only completed tasks, and a verdict on every claim.
LEMMA ResolvedCompleted ==
  ASSUME TypeOK, Resolved = "COMPLETED"
  PROVE  /\ \A t \in Task : task[t] \in {"absent", "COMPLETED"}
         /\ Seen = {c.id : c \in claims}
<1>1. /\ ~ \E t \in Task : Runnable(t)
      /\ ~ \E c \in claims : verdict[c.id] = "UNVERIFIED"
  BY DEF Resolved
<1>2. QED
  BY <1>1 DEF Runnable, Seen

LEMMA EndStep ==
  ASSUME RunInv, SoloInv, [Next]_vars, ~overlapped', NEW p \in Process,
         proc[p].at = "final", proc'[p].at = "done"
  PROVE  /\ files' = report'
         /\ status' = "COMPLETED" =>
              /\ \A t \in Task : task'[t] \in {"absent", "COMPLETED"}
              /\ report'.seen = {c.id : c \in claims'}
<1>1. TypeOK /\ proc[p] \in Execution
  BY DEF RunInv, TypeOK
<1>2. PICK q \in Process : \/ \E early \in BOOLEAN : Start(q, early)
                           \/ Halts(q)
                           \/ ProcessStep(q)
  BY DEF Next, Halts, vars
<1>3. ~ \E early \in BOOLEAN : Start(q, early)
  BY <1>1 DEF Start, Goes, TypeOK, Running, NoExecution
<1>4. SoloParts /\ q = p
  <2>1. /\ UNCHANGED history /\ Running(q) /\ Running(p)
    BY <1>2, <1>3, StepRuns DEF Running
  <2>2. SoloParts
    BY <2>1 DEF history, SoloInv
  <2>3. QED
    BY <2>1, <2>2 DEF SoloParts, Alone
<1>5. Abort(p) \/ Finish(p)
  <2>1. Halts(p) => Abort(p)
    BY <1>1 DEF Halts, Kill, Goes, TypeOK, NoExecution
  <2>2. ~ \E t \in Task : ResearchStep(p, t)
    BY ResearchStepEffect DEF ResearchEffect
  <2>3. ~ \E c \in ClaimId : VerifyStep(p, c)
    BY DEF VerifyStep, VerifyBegin, VerifyCommit, VerifyFails
  <2>4. Abort(p) \/ GraphStep(p)
    BY <1>2, <1>3, <1>4, <2>1, <2>2, <2>3 DEF ProcessStep
  <2>5. QED
    BY <2>4 DEF GraphStep, PlanResume, PlanAsk, PlanCreate, Join, WriterBegin, LimitEnds,
       WriteFiles, StoreReport
<1>6. files = report /\ report.seen = Seen /\ UNCHANGED <<files, report, task, claims>>
  BY <1>4, <1>5 DEF SoloParts, PacketTrue, Abort, Finish, ledger
<1>7. status' = "COMPLETED" => Resolved = "COMPLETED"
  BY <1>5 DEF Abort, Finish
<1>8. QED
  BY <1>1, <1>6, <1>7, ResolvedCompleted

-----------------------------------------------------------------------------
(* Theorems.                                                               *)

\* Type correctness of the run, its executions and its researchers.
THEOREM PipelineTypes == Spec => []TypeOK
<1>1. RunInv => TypeOK
  BY DEF RunInv
<1>2. QED
  BY <1>1, RunInvariant, PTL

\* Every claim rests on a stored page whose file is whole, through any number of
\* kills, restarts and overlapping executions; unless the file was opened for
\* writing again, by a researcher that had found none.
THEOREM EvidenceBeforeClaims == Spec => []EvidenceFirst
<1>1. RunInv => EvidenceFirst
  BY DEF RunInv, EvidenceInv
<1>2. QED
  BY <1>1, RunInvariant, PTL

\* A task never has two claims of one finding, also when executions overlap.
THEOREM NoDuplicateClaims == Spec => []OneRowPerFinding
<1>1. RunInv => OneRowPerFinding
  BY DEF RunInv, LedgerInv
<1>2. QED
  BY <1>1, RunInvariant, PTL

\* Overlapping executions together stay within the run's limits: requests are
\* counted, and sources and claims inserted, under the run's row lock.
THEOREM LimitsKept == Spec => []WithinLimits
<1>1. RunInv => WithinLimits
  BY Limits DEF RunInv, TypeOK, LedgerInv, Numbered, WithinLimits
<1>2. QED
  BY <1>1, RunInvariant, PTL

\* No claim that the verifier turned down is in a stored report, as long as
\* executions do not overlap.
THEOREM SupportedReport == Spec => []ReportSupported
<1>1. RunInv /\ SoloInv => ReportSupported
  BY DEF SoloInv, SoloParts, SupportedOnly, ReportSupported
<1>2. QED
  BY <1>1, SoloInvariant, PTL

\* A completed task keeps its claims and a stored verdict stands, through any
\* number of kills and restarts of executions that do not overlap.
THEOREM WorkStands == Spec => NothingRedone
<1>1. RunInv /\ SoloInv /\ [Next]_vars =>
        [~overlapped' =>
            /\ \A t \in Completed : task'[t] = "COMPLETED" /\ output'[t] = output[t]
            /\ \A c \in ClaimId : verdict[c] # "UNVERIFIED" => verdict'[c] = verdict[c]]_vars
  BY RedoneStep
<1>2. QED
  BY <1>1, SoloInvariant, PTL DEF Spec, NothingRedone

\* An execution leaves files that agree with the report's row, and says
\* "completed" only of a run that is.
THEOREM HonestEnd == Spec => EndsHonestly
<1>1. RunInv /\ SoloInv /\ [Next]_vars =>
        [\A p \in Process :
            ~overlapped' /\ proc[p].at = "final" /\ proc'[p].at = "done" =>
              /\ files' = report'
              /\ status' = "COMPLETED" =>
                   /\ \A t \in Task : task'[t] \in {"absent", "COMPLETED"}
                   /\ report'.seen = {c.id : c \in claims'}]_vars
  BY EndStep
<1>2. QED
  BY <1>1, SoloInvariant, PTL DEF Spec, EndsHonestly
=============================================================================
