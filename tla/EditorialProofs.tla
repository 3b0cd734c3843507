--------------------------- MODULE EditorialProofs ---------------------------
(***************************************************************************)
(* What holds of reviews, publication and rechecks for every number of     *)
(* claims, reviewers, workers, attempts, pages and every budget.           *)
(***************************************************************************)
EXTENDS Editorial, WorkItemProofs, TLAPS

(***************************************************************************)
(* Reviewers.  One request is open at a time, and what it loaded is still  *)
(* so when it commits, unless a writer stored another report meanwhile.    *)
(***************************************************************************)

Open(c) == client[c].at # "idle"

\* A decision is one of what is decided on.
Fits(q) ==
    /\ q.at = "claim" => q.decision \in {"APPROVED", "TURNED_DOWN"}
    /\ q.at = "report" => q.decision \in {"APPROVED", "REJECTED"}

DecisionsFit == \A c \in Client : Fits(client[c])

TypeInv == TypeOK /\ DecisionsFit

OneOpen == \A c, d \in Client : Open(c) /\ Open(d) => c = d

Publishing == {"load", "check", "md", "json", "publish"}

LoadedTrue(c) ==
    /\ client[c].status = report.status
    /\ client[c].at = "claim" =>
          \A k \in client[c].claim : client[c].review = review[k]
    /\ client[c].at \in {"report", "load", "check", "md", "json"} =>
          client[c].content = report.content
    /\ client[c].at = "report" /\ client[c].decision = "APPROVED" => Approvable
    /\ client[c].at \in Publishing => report.status \in Gate
    /\ client[c].at \in {"json", "publish"} => published.md = report.content
    /\ client[c].at = "publish" => published.json = report.content

\* Nobody has reviewed a report yet that was stored after the row was loaded.
Loaded(c) == IF client[c].late THEN report.status = "PENDING" ELSE LoadedTrue(c)

ReviewParts ==
    /\ OneOpen
    /\ \A c \in Client : Open(c) => Loaded(c)
    /\ PublicationGate
    /\ PublishedWhole

(***************************************************************************)
(* Rechecks.  The row, the request and the subprocess agree, whichever of  *)
(* them is interrupted, and however transactions overlap.                  *)
(***************************************************************************)

AtWork == {"originals", "fetch", "verify", "compare", "archive", "build", "version",
           "complete"}

NoRequests == ~item.cancel /\ ~item.pause /\ ~item.finish

ExecAgrees ==
    /\ exec.at # "off" => item.status = "LEASED" /\ item.attempts > 0
    /\ exec.at \in AtWork => request.status = "RUNNING"
    /\ exec.at = "exit" /\ exec.ok => request.status = "COMPLETED"
    /\ builder["recheck"].at # "off" => exec.at = "build"

RecheckParts == NoRequests /\ ExecAgrees /\ RecheckEndAgrees

(***************************************************************************)
(* The report through a recheck that nobody else's rebuilding disturbs.    *)
(***************************************************************************)

Archives == report.content \in latest

VersionParts ==
    ~rebuilt =>
        /\ builder["rebuild"].at = "off"
        /\ exec.at = "build" => Archives

\* Of the first attempt: what it compares with is what the report tells.
FirstAttempt == request.fresh /\ item.attempts <= 1 /\ ~rebuilt

ToldBefore ==
    /\ report.content.verdict = exec.verdict
    /\ report.content.snapshot = exec.snapshot

FollowParts ==
    FirstAttempt =>
        /\ exec.at = "off" /\ item.attempts = 0 => Fresh
        /\ exec.at \in {"begin", "originals", "version", "complete"} => Fresh
        /\ exec.at = "fetch" => exec.verdict = verdict /\ exec.snapshot = snapshot
        /\ exec.at \in {"fetch", "verify", "compare"} =>
              ToldBefore /\ (~exec.fetched => exec.snapshot = snapshot)
        /\ builder["recheck"].at # "off" =>
              /\ builder["recheck"].draft.verdict = verdict
              /\ builder["recheck"].draft.snapshot = snapshot
        /\ request.status = "COMPLETED" => Fresh

-----------------------------------------------------------------------------
(* Values.                                                                 *)

LEMMA NothingTypes ==
  /\ NoContent \in Content /\ Idle \in ClientState /\ NoBuilder \in BuilderState
  /\ NoExecution \in Execution
<1>1. NoContent \in Content
  BY DEF NoContent, Content, Verdict, Page
<1>2. NoContent.verdict \in [Claim -> Verdict]
  BY DEF NoContent, Verdict
<1>3. QED
  BY <1>1, <1>2 DEF Idle, ClientState, ClientPhase, ReviewStatus, ReportStatus,
     NoBuilder, BuilderState, BuilderPhase, NoExecution, Execution, ExecPhase, Page

LEMMA DraftTypes ==
  ASSUME verdict \in [Claim -> Verdict], snapshot \in Page, NEW draft \in Drafts
  PROVE  draft \in Content /\ draft.verdict = verdict /\ draft.snapshot = snapshot
<1>1. PICK cites \in ValidCitations :
         draft = [cites |-> cites, verdict |-> verdict, snapshot |-> snapshot]
  BY DEF Drafts
<1>2. cites \subseteq Claim
  BY DEF ValidCitations, Accepted
<1>3. QED
  BY <1>1, <1>2 DEF Content

LEMMA SpendType ==
  ASSUME left \in Budget, NEW kind \in {"decisions", "rechecks", "rebuilds"}, Spend(kind)
  PROVE  left' \in Budget
  BY DEF Budget, Spend

-----------------------------------------------------------------------------
(* The two kinds of steps: of a reviewer's request, and all others.        *)

ClientAct(c) ==
    \/ \E k \in Claim, decision \in {"APPROVED", "TURNED_DOWN"} : ReviewClaim(c, k, decision)
    \/ \E decision \in {"APPROVED", "REJECTED"} : ReviewReport(c, decision)
    \/ Publish(c) \/ Interrupted(c) \/ ClientStep(c)

BuilderAct(b) ==
    \/ BuildRead(b) \/ BuildMdTmp(b) \/ BuildJsonTmp(b)
    \/ BuildMd(b) \/ BuildJson(b) \/ BuildStore(b)

Restarts == Raises \/ Killed \/ WorkerLost

\* The recheck's subprocess apart from its writer.
ExecAct ==
    \/ \E w \in Worker : Take(w)
    \/ Begin \/ Originals \/ FetchFails \/ \E page \in 0..left.pages : Fetch(page)
    \/ \E k \in Claim : Verify(k)
    \/ Compare \/ Archive \/ Version \/ Complete \/ FinishWork

LEMMA NextKinds ==
  ASSUME Next
  PROVE  \/ \E c \in Client : ClientAct(c)
         \/ AskRecheck \/ ExecAct \/ Restarts
         \/ \E b \in Builder : BuilderAct(b)
         \/ BuildEnds
  BY DEF Next, ExecStep, ClientAct, ExecAct, Restarts, Raise, BuildRaises, BuilderAct, Builder

LEMMA ClientFrame ==
  ASSUME NEW c \in Client, ClientAct(c)
  PROVE  UNCHANGED <<evidence, writing, latest, recheck, rebuilt>>
  BY DEF ClientAct, ClientStep, ReviewClaim, ReviewReport, Publish, Interrupted, CommitClaim,
         CommitReport, PublishRead, PublishCheck, PublishMd, PublishJson, CommitPublish, counts

LEMMA OtherFrame ==
  ASSUME \/ AskRecheck \/ ExecAct \/ Restarts \/ BuildEnds
         \/ \E b \in Builder : BuilderAct(b)
  PROVE  \/ UNCHANGED <<human, report>>
         \/ \E b \in Builder : BuildStore(b)
<1>1. CASE AskRecheck \/ Restarts \/ BuildEnds
  BY <1>1 DEF AskRecheck, Restarts, Raises, Killed, WorkerLost, BuildEnds
<1>2. CASE ExecAct
  BY <1>2 DEF ExecAct, Take, Begin, Originals, FetchFails, Fetch, Verify, Compare, Archive,
     Version, Complete, FinishWork
<1>3. CASE \E b \in Builder : BuilderAct(b)
  BY <1>3 DEF BuilderAct, BuildRead, BuildMdTmp, BuildJsonTmp, BuildMd, BuildJson
<1>4. QED
  BY <1>1, <1>2, <1>3

-----------------------------------------------------------------------------
(* Types.                                                                  *)

LEMMA OpensType ==
  ASSUME TypeInv, NEW c \in Client, NEW state \in ClientState, Fits(state), Opens(c, state)
  PROVE  client' \in [Client -> ClientState] /\ DecisionsFit' /\ left' \in Budget
  BY SpendType DEF TypeInv, TypeOK, Opens, DecisionsFit

LEMMA ClosesType ==
  ASSUME TypeInv, NEW c \in Client, Closes(c)
  PROVE  client' \in [Client -> ClientState] /\ DecisionsFit'
<1>1. Fits(Idle)
  BY DEF Fits, Idle
<1>2. QED
  BY <1>1, NothingTypes DEF TypeInv, TypeOK, Closes, DecisionsFit

\* What a request changes of the report is its status.
LEMMA ReportStatusType ==
  ASSUME TypeOK, NEW old, NEW new \in ReportStatus,
         report' = [report EXCEPT !.status = Column(@, old, new)]
  PROVE  /\ report' \in [content : Content, status : ReportStatus]
         /\ report'.content = report.content
         /\ report'.status \in {report.status, new}
  BY DEF TypeOK, Column

LEMMA ClientTypes ==
  ASSUME TypeInv, NEW c \in Client, ClientAct(c)
  PROVE  TypeInv' /\ report'.content = report.content
<1> DEFINE q == client[c]
<1>1. /\ TypeOK /\ q \in ClientState /\ Fits(q) /\ Idle \in ClientState
      /\ review \in [Claim -> ReviewStatus] /\ report.status \in ReportStatus
      /\ report.content \in Content /\ files.md \in Content
      /\ left \in Budget /\ overtaken \in BOOLEAN
  BY NothingTypes DEF TypeInv, TypeOK, FilePair, DecisionsFit
<1>2. UNCHANGED <<evidence, writing, latest, recheck, rebuilt>>
  BY ClientFrame
<1>3. ASSUME client' \in [Client -> ClientState], DecisionsFit', left' \in Budget,
             review' \in [Claim -> ReviewStatus], published' \in FilePair,
             approved' \in Content, overtaken' \in BOOLEAN,
             report' \in [content : Content, status : ReportStatus]
      PROVE  TypeInv'
  BY <1>1, <1>2, <1>3 DEF TypeInv, TypeOK, evidence, writing, recheck
<1>4. ASSUME NEW k \in Claim, NEW decision \in {"APPROVED", "TURNED_DOWN"},
             ReviewClaim(c, k, decision)
      PROVE  TypeInv' /\ report'.content = report.content
  <2>1. PICK s \in ClientState :
           s = [Idle EXCEPT !.at = "claim", !.claim = {k}, !.decision = decision,
                            !.review = review[k], !.status = report.status]
    BY <1>1 DEF Idle, ClientState, ClientPhase, ReviewStatus
  <2>2. Opens(c, s) /\ UNCHANGED <<review, published, approved, overtaken, report>>
    BY <1>4, <2>1 DEF ReviewClaim
  <2>3. Fits(s)
    BY <2>1 DEF Fits, Idle
  <2>4. QED
    BY <1>1, <1>3, <2>2, <2>3, OpensType DEF TypeOK
<1>5. ASSUME NEW decision \in {"APPROVED", "REJECTED"}, ReviewReport(c, decision)
      PROVE  TypeInv' /\ report'.content = report.content
  <2>1. PICK s \in ClientState :
           s = [Idle EXCEPT !.at = "report", !.decision = decision,
                            !.status = report.status, !.content = report.content]
    BY <1>1 DEF Idle, ClientState, ClientPhase, ReviewStatus, ReportStatus
  <2>2. Opens(c, s) /\ UNCHANGED <<review, published, approved, overtaken, report>>
    BY <1>5, <2>1 DEF ReviewReport
  <2>3. Fits(s)
    BY <2>1 DEF Fits, Idle
  <2>4. QED
    BY <1>1, <1>3, <2>2, <2>3, OpensType DEF TypeOK
<1>6. CASE Publish(c)
  <2>1. PICK s \in ClientState :
           s = [Idle EXCEPT !.at = "load", !.status = report.status,
                            !.content = report.content]
    BY <1>1 DEF Idle, ClientState, ClientPhase
  <2>2. Opens(c, s) /\ UNCHANGED <<review, published, approved, overtaken, report>>
    BY <1>6, <2>1 DEF Publish
  <2>3. Fits(s)
    BY <2>1 DEF Fits, Idle
  <2>4. QED
    BY <1>1, <1>3, <2>2, <2>3, OpensType DEF TypeOK
<1>7. CASE Interrupted(c)
  BY <1>1, <1>3, <1>7, ClosesType DEF Interrupted, TypeOK, counts
<1>8. CASE CommitClaim(c)
  <2>1. q.at = "claim" /\ Closes(c) /\ UNCHANGED <<published, approved, overtaken, left>>
    BY <1>8 DEF CommitClaim, counts
  <2>2. report' = [report EXCEPT !.status = Column(@, q.status, "PENDING")]
    BY <1>8 DEF CommitClaim, StatusAfterReview
  <2>3. q.decision \in ReviewStatus
    BY <1>1, <2>1 DEF Fits, ReviewStatus
  <2>4. review' \in [Claim -> ReviewStatus]
    BY <1>1, <1>8, <2>3 DEF CommitClaim, Column, ClientState
  <2>5. "PENDING" \in ReportStatus
    BY DEF ReportStatus
  <2>6. QED
    BY <1>1, <1>3, <2>1, <2>2, <2>4, <2>5, ReportStatusType, ClosesType DEF TypeOK
<1>9. CASE CommitReport(c)
  <2>1. q.at = "report" /\ Closes(c) /\ UNCHANGED <<review, published, left>>
    BY <1>9 DEF CommitReport, counts
  <2>2. report' = [report EXCEPT !.status = Column(@, q.status, q.decision)]
    BY <1>9 DEF CommitReport
  <2>3. q.decision \in ReportStatus
    BY <1>1, <2>1 DEF Fits, ReportStatus
  <2>4. approved' \in Content /\ overtaken' \in BOOLEAN
    BY <1>1, <1>9 DEF CommitReport, ClientState, TypeOK
  <2>5. QED
    BY <1>1, <1>3, <2>1, <2>2, <2>3, <2>4, ReportStatusType, ClosesType DEF TypeOK
<1>10. CASE PublishCheck(c)
  <2>1. CASE Closes(c)
    BY <1>1, <1>3, <1>10, <2>1, ClosesType DEF PublishCheck, TypeOK, counts
  <2>2. CASE client' = [client EXCEPT ![c].at = "md"]
    <3>1. client' \in [Client -> ClientState] /\ DecisionsFit'
      BY <1>1, <2>2 DEF TypeInv, TypeOK, DecisionsFit, Fits, ClientState, ClientPhase
    <3>2. QED
      BY <1>1, <1>3, <1>10, <3>1 DEF PublishCheck, TypeOK, counts
  <2>3. QED
    BY <1>10, <2>1, <2>2 DEF PublishCheck
<1>11. CASE PublishMd(c)
  <2>1. client' \in [Client -> ClientState] /\ DecisionsFit'
    BY <1>1, <1>11 DEF PublishMd, TypeInv, TypeOK, DecisionsFit, Fits, ClientState, ClientPhase
  <2>2. published' \in FilePair
    BY <1>1, <1>11 DEF PublishMd, TypeOK, FilePair, ClientState
  <2>3. QED
    BY <1>1, <1>3, <1>11, <2>1, <2>2 DEF PublishMd, TypeOK, counts
<1>12. CASE PublishJson(c)
  <2>1. PICK s \in ClientState : s = [q EXCEPT !.at = "publish", !.content = NoContent]
    BY <1>1, NothingTypes DEF ClientState, ClientPhase
  <2>2. Fits(s)
    BY <1>1, <2>1 DEF Fits, ClientState
  <2>3. client' = [client EXCEPT ![c] = s]
    BY <1>12, <2>1 DEF PublishJson
  <2>4. client' \in [Client -> ClientState] /\ DecisionsFit'
    BY <1>1, <2>2, <2>3 DEF TypeInv, TypeOK, DecisionsFit
  <2>5. published' \in FilePair
    BY <1>1, <1>12 DEF PublishJson, TypeOK, FilePair, ClientState
  <2>6. QED
    BY <1>1, <1>3, <1>12, <2>4, <2>5 DEF PublishJson, TypeOK, counts
<1>13. CASE CommitPublish(c)
  <2>1. /\ Closes(c) /\ UNCHANGED <<review, published, approved, left>>
        /\ overtaken' \in BOOLEAN
        /\ report' = [report EXCEPT !.status = Column(@, q.status, "PUBLISHED")]
    BY <1>1, <1>13 DEF CommitPublish, counts
  <2>2. "PUBLISHED" \in ReportStatus
    BY DEF ReportStatus
  <2>3. QED
    BY <1>1, <1>3, <2>1, <2>2, ReportStatusType, ClosesType DEF TypeOK
<1>14. CASE PublishRead(c)
  <2>1. CASE Closes(c)
    BY <1>1, <1>3, <1>14, <2>1, ClosesType DEF PublishRead, TypeOK, counts
  <2>2. CASE client' = [client EXCEPT ![c] = [@ EXCEPT !.at = "check", !.content = files.md]]
    <3>1. PICK s \in ClientState : s = [q EXCEPT !.at = "check", !.content = files.md]
      BY <1>1 DEF ClientState, ClientPhase
    <3>2. Fits(s)
      BY <1>1, <3>1 DEF Fits, ClientState
    <3>3. client' = [client EXCEPT ![c] = s]
      BY <2>2, <3>1
    <3>4. client' \in [Client -> ClientState] /\ DecisionsFit'
      BY <1>1, <3>2, <3>3 DEF TypeInv, TypeOK, DecisionsFit
    <3>5. QED
      BY <1>1, <1>3, <1>14, <3>4 DEF PublishRead, TypeOK, counts
  <2>3. QED
    BY <1>14, <2>1, <2>2 DEF PublishRead
<1>15. QED
  BY <1>4, <1>5, <1>6, <1>7, <1>8, <1>9, <1>10, <1>11, <1>12, <1>13, <1>14
     DEF ClientAct, ClientStep

LEMMA StopsType ==
  ASSUME TypeOK, NEW b \in Builder, Stops(b)
  PROVE  builder' \in [Builder -> BuilderState] /\ tmp' \in TmpPair
  BY NothingTypes DEF TypeOK, Stops, NoTmp, TmpPair

LEMMA BuilderTypes ==
  ASSUME TypeInv, NEW b \in Builder, BuilderAct(b) \/ BuildEnds
  PROVE  TypeInv'
<1>1. /\ TypeOK /\ builder[b] \in BuilderState /\ "rebuild" \in Builder
      /\ NoBuilder \in BuilderState /\ builder[b].draft \in Content
      /\ tmp \in TmpPair /\ files \in FilePair
  BY NothingTypes DEF TypeInv, TypeOK, Builder, BuilderState
<1>2. UNCHANGED <<review, published, evidence, latest, item, request>>
  BY DEF BuilderAct, BuildRead, BuildMdTmp, BuildJsonTmp, BuildMd, BuildJson, BuildStore,
         BuildEnds, recheck, human
<1>3. ASSUME builder' \in [Builder -> BuilderState], tmp' \in TmpPair, files' \in FilePair,
             UNCHANGED <<human, report, exec>>, rebuilt' \in BOOLEAN, left' \in Budget
      PROVE  TypeInv'
  <2>1. DecisionsFit'
    BY <1>3 DEF human, TypeInv, DecisionsFit
  <2>2. QED
    BY <1>1, <1>2, <1>3, <2>1 DEF TypeInv, TypeOK, human, evidence
<1>4. CASE BuildRead(b)
  <2>1. PICK draft \in Drafts :
           builder' = [builder EXCEPT ![b] = [at |-> "mdtmp", draft |-> draft]]
    BY <1>4 DEF BuildRead
  <2>2. draft \in Content
    BY <1>1, DraftTypes DEF TypeOK
  <2>3. builder' \in [Builder -> BuilderState]
    BY <1>1, <2>1, <2>2 DEF TypeOK, BuilderState, BuilderPhase
  <2>4. rebuilt' \in BOOLEAN /\ left' \in Budget
    BY <1>1, <1>4, SpendType DEF BuildRead, TypeOK, counts
  <2>5. UNCHANGED <<human, files, tmp, report, exec>>
    BY <1>4 DEF BuildRead, recheck
  <2>6. QED
    BY <1>1, <1>3, <2>3, <2>4, <2>5 DEF TypeOK
<1>5. CASE BuildMdTmp(b) \/ BuildJsonTmp(b) \/ BuildMd(b) \/ BuildJson(b)
  <2>1. PICK phase \in BuilderPhase : builder' = [builder EXCEPT ![b].at = phase]
    BY <1>5 DEF BuildMdTmp, BuildJsonTmp, BuildMd, BuildJson, BuilderPhase
  <2>2. [builder[b] EXCEPT !.at = phase] \in BuilderState
    BY <1>1 DEF BuilderState
  <2>3. builder' \in [Builder -> BuilderState]
    BY <1>1, <2>1, <2>2 DEF TypeOK
  <2>4. tmp' \in TmpPair
    BY <1>1, <1>5 DEF BuildMdTmp, BuildJsonTmp, BuildMd, BuildJson, TmpPair
  <2>5. files' \in FilePair
    <3>1. CASE BuildMdTmp(b) \/ BuildJsonTmp(b)
      BY <1>1, <3>1 DEF BuildMdTmp, BuildJsonTmp
    <3>2. CASE BuildMd(b)
      BY <1>1, <3>2 DEF BuildMd, TmpPair, FilePair
    <3>3. CASE BuildJson(b)
      BY <1>1, <3>3 DEF BuildJson, TmpPair, FilePair
    <3>4. QED
      BY <1>5, <3>1, <3>2, <3>3
  <2>6. UNCHANGED <<human, report, exec, rebuilt, left>>
    BY <1>5 DEF BuildMdTmp, BuildJsonTmp, BuildMd, BuildJson, recheck, counts
  <2>7. QED
    BY <1>1, <1>3, <2>3, <2>4, <2>5, <2>6 DEF TypeOK
<1>6. CASE BuildStore(b)
  <2>1. builder' \in [Builder -> BuilderState]
    BY <1>1, <1>6 DEF BuildStore, TypeOK
  <2>2. report' \in [content : Content, status : ReportStatus]
    BY <1>1, <1>6 DEF BuildStore, ReportStatus
  <2>3. exec' \in Execution
    <3>1. exec \in Execution /\ [exec EXCEPT !.at = "version"] \in Execution
      BY <1>1 DEF TypeOK, Execution, ExecPhase
    <3>2. QED
      BY <1>6, <3>1 DEF BuildStore
  <2>4. ASSUME NEW c \in Client
        PROVE  client'[c] \in ClientState /\ Fits(client'[c])
    <3>1. client[c] \in ClientState /\ Fits(client[c])
      BY <1>1 DEF TypeOK, TypeInv, DecisionsFit
    <3>2. PICK overtakes \in BOOLEAN : client'[c] = [client[c] EXCEPT !.late = overtakes]
      BY <1>6 DEF BuildStore
    <3>3. QED
      BY <3>1, <3>2 DEF ClientState, Fits
  <2>5. client' \in [Client -> ClientState] /\ DecisionsFit'
    BY <1>6, <2>4 DEF BuildStore, DecisionsFit
  <2>6. approved' \in Content /\ overtaken' \in BOOLEAN
    BY <1>6, NothingTypes DEF BuildStore
  <2>7. UNCHANGED <<files, tmp, rebuilt, left>>
    BY <1>6 DEF BuildStore, counts
  <2>8. QED
    BY <1>1, <1>2, <2>1, <2>2, <2>3, <2>5, <2>6, <2>7 DEF TypeInv, TypeOK, evidence
<1>7. CASE BuildEnds
  <2>1. builder' \in [Builder -> BuilderState] /\ tmp' \in TmpPair
    BY <1>1, <1>7, StopsType DEF BuildEnds
  <2>2. UNCHANGED <<human, files, report, exec, rebuilt, left>>
    BY <1>7 DEF BuildEnds, recheck, counts
  <2>3. QED
    BY <1>1, <1>3, <2>1, <2>2 DEF TypeOK
<1>8. QED
  BY <1>4, <1>5, <1>6, <1>7 DEF BuilderAct

LEMMA ExecTypes ==
  ASSUME TypeInv, ExecAct
  PROVE  TypeInv' /\ UNCHANGED <<human, report, writing, counts>>
<1>1. /\ TypeOK /\ exec \in Execution /\ item \in Item /\ request \in RecheckRequest
      /\ verdict \in [Claim -> Verdict] /\ snapshot \in Page /\ report.content \in Content
      /\ NoExecution \in Execution
  BY NothingTypes DEF TypeInv, TypeOK
<1>2. UNCHANGED <<human, report, writing, counts>>
  BY DEF ExecAct, Take, Begin, Originals, FetchFails, Fetch, Verify, Compare, Archive,
     Version, Complete, FinishWork
<1>3. DecisionsFit'
  BY <1>2 DEF human, TypeInv, DecisionsFit
<1>4. ASSUME verdict' \in [Claim -> Verdict], snapshot' \in Page, latest' \in SUBSET Content,
             item' \in Item, request' \in RecheckRequest, exec' \in Execution
      PROVE  TypeInv' /\ UNCHANGED <<human, report, writing, counts>>
  BY <1>1, <1>2, <1>3, <1>4 DEF TypeInv, TypeOK, human, writing, counts
<1>5. \A phase \in ExecPhase : [exec EXCEPT !.at = phase] \in Execution
  BY <1>1 DEF Execution
<1>6. CASE \E w \in Worker : Take(w)
  <2>1. item' \in Item
    BY <1>1, <1>6, ClaimedType DEF Take
  <2>2. exec' \in Execution
    BY <1>1, <1>6 DEF Take, Execution, ExecPhase, NoExecution
  <2>3. QED
    BY <1>1, <1>4, <1>6, <2>1, <2>2 DEF Take, TypeOK, evidence
<1>7. CASE Begin
  <2>1. exec' \in Execution
    <3>1. CASE Already
      BY <1>1, <1>7, <3>1 DEF Begin, Execution, ExecPhase
    <3>2. CASE ~Already
      BY <1>1, <1>7, <3>2 DEF Begin, Goes, Execution, ExecPhase
    <3>3. QED
      BY <3>1, <3>2
  <2>2. request' \in RecheckRequest
    BY <1>1, <1>7 DEF Begin, RecheckRequest, RecheckStatus
  <2>3. QED
    BY <1>1, <1>4, <1>7, <2>1, <2>2 DEF Begin, TypeOK, evidence
<1>8. CASE Originals
  <2>1. exec' \in Execution
    BY <1>1, <1>8 DEF Originals, Execution, ExecPhase
  <2>2. QED
    BY <1>1, <1>4, <1>8, <2>1 DEF Originals, TypeOK, evidence
<1>9. CASE \E page \in 0..left.pages : Fetch(page)
  <2>1. PICK page \in 0..left.pages : Fetch(page)
    BY <1>9
  <2>2. snapshot' \in Page
    BY <1>1, <2>1 DEF Fetch, Page, TypeOK, Budget
  <2>3. exec' \in Execution
    BY <1>1, <2>1 DEF Fetch, Execution, ExecPhase
  <2>4. QED
    BY <1>1, <1>4, <2>1, <2>2, <2>3 DEF Fetch, TypeOK
<1>10. CASE FetchFails
  <2>1. exec' \in Execution
    BY <1>5, <1>10 DEF FetchFails, Goes, ExecPhase
  <2>2. QED
    BY <1>1, <1>4, <1>10, <2>1 DEF FetchFails, TypeOK, evidence
<1>11. CASE \E k \in Claim : Verify(k)
  <2>1. exec' \in Execution
    <3>1. PICK k \in Claim : Verify(k)
      BY <1>11
    <3>2. PICK phase \in ExecPhase : phase = IF exec.todo = {k} THEN "compare" ELSE exec.at
      BY <1>1 DEF Execution, ExecPhase
    <3>3. exec' = [exec EXCEPT !.todo = @ \ {k}, !.at = phase]
      BY <3>1, <3>2 DEF Verify
    <3>4. QED
      BY <1>1, <3>3 DEF Execution
  <2>2. verdict' \in [Claim -> Verdict]
    <3>1. PICK k \in Claim, v \in Verdict : verdict' = [verdict EXCEPT ![k] = v]
      BY <1>11 DEF Verify, Verdict
    <3>2. QED
      BY <1>1, <3>1
  <2>3. QED
    BY <1>1, <1>4, <1>11, <2>1, <2>2 DEF Verify, TypeOK
<1>12. CASE Compare
  <2>1. exec' \in Execution
    BY <1>1, <1>12 DEF Compare, Execution, ExecPhase
  <2>2. QED
    BY <1>1, <1>4, <1>12, <2>1 DEF Compare, TypeOK, evidence
<1>13. CASE Archive
  <2>1. exec' \in Execution
    BY <1>5, <1>13 DEF Archive, Goes, ExecPhase
  <2>2. latest' \in SUBSET Content
    BY <1>1, <1>13 DEF Archive, Kept
  <2>3. QED
    BY <1>1, <1>4, <1>13, <2>1, <2>2 DEF Archive, TypeOK, evidence
<1>14. CASE Version
  <2>1. exec' \in Execution
    BY <1>1, <1>14 DEF Version, Execution, ExecPhase
  <2>2. latest' \in SUBSET Content
    BY <1>1, <1>14 DEF Version, Kept, TypeOK
  <2>3. QED
    BY <1>1, <1>4, <1>14, <2>1, <2>2 DEF Version, TypeOK, evidence
<1>15. CASE Complete
  <2>1. exec' \in Execution
    BY <1>1, <1>15 DEF Complete, Execution, ExecPhase
  <2>2. request' \in RecheckRequest
    BY <1>1, <1>15 DEF Complete, RecheckRequest, RecheckStatus, Execution
  <2>3. QED
    BY <1>1, <1>4, <1>15, <2>1, <2>2 DEF Complete, TypeOK, evidence
<1>16. CASE FinishWork
  <2>1. Outcome(item, exec.ok) \in
           {"CANCELLED", "SUCCEEDED", "PAUSED", "FINALIZE", "RETRY", "FAILED"}
    BY <1>1, OutcomeType DEF Execution
  <2>2. item' \in Item
    BY <1>1, <1>16, <2>1, FinishedType DEF FinishWork
  <2>3. request' \in RecheckRequest
    BY <1>1, <1>16 DEF FinishWork, RequestAfter, RecheckRequest, RecheckStatus
  <2>4. QED
    BY <1>1, <1>4, <1>16, <2>2, <2>3 DEF FinishWork, TypeOK, evidence
<1>17. QED
  BY <1>6, <1>7, <1>8, <1>9, <1>10, <1>11, <1>12, <1>13, <1>14, <1>15, <1>16 DEF ExecAct

LEMMA RestTypes ==
  ASSUME TypeInv, AskRecheck \/ Restarts
  PROVE  TypeInv'
<1>1. /\ TypeOK /\ exec \in Execution /\ item \in Item /\ request \in RecheckRequest
      /\ NoExecution \in Execution /\ "recheck" \in Builder
  BY NothingTypes DEF TypeInv, TypeOK, Builder
<1>2. UNCHANGED <<human, evidence, report, latest, files, rebuilt>> /\ DecisionsFit'
  BY DEF AskRecheck, Restarts, Raises, Killed, WorkerLost, writing, human, counts, TypeInv,
         DecisionsFit
<1>3. builder' \in [Builder -> BuilderState] /\ tmp' \in TmpPair
  <2>1. CASE AskRecheck
    BY <1>1, <2>1 DEF AskRecheck, writing, TypeOK
  <2>2. CASE Restarts
    BY <1>1, <2>2, StopsType DEF Restarts, Raises, Killed, WorkerLost
  <2>3. QED
    BY <2>1, <2>2
<1>4. ASSUME item' \in Item, request' \in RecheckRequest, exec' \in Execution,
             left' \in Budget
      PROVE  TypeInv'
  BY <1>1, <1>2, <1>3, <1>4 DEF TypeInv, TypeOK, human, evidence
<1>5. CASE AskRecheck
  <2>1. Fresh \in BOOLEAN
    BY DEF Fresh
  <2>2. request' \in RecheckRequest
    BY <1>5, <2>1 DEF AskRecheck, RecheckRequest, RecheckStatus
  <2>3. item' \in Item
    BY <1>5, NewItemType DEF AskRecheck
  <2>4. left' \in Budget /\ UNCHANGED exec
    BY <1>1, <1>5, SpendType DEF AskRecheck, TypeOK
  <2>5. QED
    BY <1>1, <1>4, <2>2, <2>3, <2>4
<1>6. CASE Restarts
  <2>1. exec' \in Execution
    BY <1>1, <1>6 DEF Restarts, Raises, Killed, WorkerLost, Execution, ExecPhase, NoExecution
  <2>2. item' \in Item
    BY <1>1, <1>6 DEF Restarts, Raises, Killed, WorkerLost, Item
  <2>3. request' \in RecheckRequest
    BY <1>1, <1>6 DEF Restarts, Raises, Killed, WorkerLost, RecheckRequest, RecheckStatus
  <2>4. left' \in Budget
    BY <1>1, <1>6 DEF Restarts, Raises, Killed, WorkerLost, TypeOK, counts
  <2>5. QED
    BY <1>4, <2>1, <2>2, <2>3, <2>4
<1>7. QED
  BY <1>5, <1>6

LEMMA TypeInit == Init => TypeInv
<1> SUFFICES ASSUME Init PROVE TypeInv
  OBVIOUS
<1>1. /\ NoContent \in Content /\ Idle \in ClientState /\ NoBuilder \in BuilderState
      /\ NoExecution \in Execution /\ snapshot \in Page
  BY NothingTypes DEF Init, Page
<1>2. verdict \in [Claim -> Verdict] /\ review \in [Claim -> ReviewStatus]
  BY DEF Init, ReviewStatus
<1>3. PICK content \in Drafts :
         /\ report = [content |-> content, status |-> "PENDING"]
         /\ files = [md |-> content, json |-> content]
  BY DEF Init
<1>4. content \in Content
  BY <1>1, <1>2, DraftTypes
<1>5. /\ report \in [content : Content, status : ReportStatus]
      /\ files \in FilePair
  BY <1>3, <1>4 DEF FilePair, ReportStatus
<1>6. /\ published \in FilePair /\ approved \in Content /\ latest \in SUBSET Content
      /\ tmp \in TmpPair /\ overtaken \in BOOLEAN
  BY <1>1 DEF Init, FilePair, TmpPair, NoTmp
<1>7. /\ client \in [Client -> ClientState] /\ builder \in [Builder -> BuilderState]
      /\ exec \in Execution
  BY <1>1 DEF Init
<1>8. item \in Item
  <2>1. PICK new \in Item : new = NewItem
    BY NewItemType
  <2>2. [new EXCEPT !.status = "SUCCEEDED"] \in Item
    BY DEF Item, WorkStatus
  <2>3. QED
    BY <2>1, <2>2 DEF Init
<1>9. request \in RecheckRequest
  BY DEF Init, RecheckRequest, RecheckStatus
<1>10. rebuilt \in BOOLEAN /\ left \in Budget
  BY BoundsAssumption DEF Init
<1>11. DecisionsFit
  BY DEF Init, DecisionsFit, Fits, Idle
<1>12. QED
  BY <1>1, <1>2, <1>5, <1>6, <1>7, <1>8, <1>9, <1>10, <1>11 DEF TypeInv, TypeOK

LEMMA TypeStep == TypeInv /\ [Next]_vars => TypeInv'
<1> SUFFICES ASSUME TypeInv, [Next]_vars PROVE TypeInv'
  OBVIOUS
<1>1. CASE Next
  <2>1. CASE \E c \in Client : ClientAct(c)
    BY <2>1, ClientTypes
  <2>2. CASE AskRecheck \/ Restarts
    BY <2>2, RestTypes
  <2>3. CASE ExecAct
    BY <2>3, ExecTypes
  <2>4. CASE BuildEnds \/ \E b \in Builder : BuilderAct(b)
    <3>1. "rebuild" \in Builder
      BY DEF Builder
    <3>2. QED
      BY <2>4, <3>1, BuilderTypes
  <2>5. QED
    BY <1>1, <2>1, <2>2, <2>3, <2>4, NextKinds
<1>2. CASE UNCHANGED vars
  <2>1. UNCHANGED <<review, verdict, snapshot, report, files, tmp, published, latest, client,
                    builder, item, request, exec, approved, overtaken, rebuilt, left>>
    BY <1>2 DEF vars, human, evidence, writing, recheck, counts
  <2>2. TypeOK'
    BY <2>1 DEF TypeInv, TypeOK
  <2>3. DecisionsFit'
    BY <2>1 DEF TypeInv, DecisionsFit
  <2>4. QED
    BY <2>2, <2>3 DEF TypeInv
<1>3. QED
  BY <1>1, <1>2

LEMMA TypeInvariant == Spec => []TypeInv
  BY TypeInit, TypeStep, PTL DEF Spec

\* Every row, file and request stays within its type and its bounds, whatever is
\* killed, retried or overlaps.
THEOREM EditorialTypes == Spec => []TypeOK
<1>1. TypeInv => TypeOK
  BY DEF TypeInv
<1>2. QED
  BY TypeInvariant, <1>1, PTL

-----------------------------------------------------------------------------
(* Reviewers.                                                              *)

LEMMA ReviewInit == Init => ReviewParts
<1> SUFFICES ASSUME Init PROVE ReviewParts
  OBVIOUS
<1>1. \A c \in Client : ~Open(c)
  BY DEF Init, Open, Idle
<1>2. report.status = "PENDING"
  BY DEF Init
<1>3. QED
  BY <1>1, <1>2 DEF ReviewParts, OneOpen, PublicationGate, PublishedWhole, Gate

\* A request that opens is the only one.
LEMMA OpensAlone ==
  ASSUME TypeInv, Overlap = FALSE, NEW c \in Client, NEW state, Opens(c, state)
  PROVE  /\ \A d \in Client \ {c} : ~Open(d) /\ ~Open(d)'
         /\ client'[c] = state
         /\ OneOpen'
  BY DEF TypeInv, TypeOK, Opens, MayBegin, Open, OneOpen

\* A request that goes on stays the only one.
LEMMA GoesOnAlone ==
  ASSUME TypeInv, OneOpen, NEW c \in Client, Open(c), NEW state,
         client' = [client EXCEPT ![c] = state]
  PROVE  /\ \A d \in Client \ {c} : ~Open(d) /\ ~Open(d)'
         /\ client'[c] = state
         /\ OneOpen'
  BY DEF TypeInv, TypeOK, Open, OneOpen

\* What is left to show of a request's step: its own data, and the report.
LEMMA ReviewOne ==
  ASSUME NEW c \in Client, OneOpen', \A d \in Client \ {c} : ~Open(d)',
         (Open(c) => Loaded(c))', PublicationGate', PublishedWhole'
  PROVE  ReviewParts'
  BY DEF ReviewParts

LEMMA IdleClosed ==
  ASSUME NEW c \in Client, client'[c] = Idle
  PROVE  ~Open(c)'
  BY DEF Open, Idle

\* The row as a request loaded it is the row it commits to.
LEMMA Committed ==
  ASSUME TypeOK, NEW new, report' = [report EXCEPT !.status = Column(@, report.status, new)]
  PROVE  report' = [report EXCEPT !.status = new]
  BY DEF TypeOK, Column

LEMMA ReviewClient ==
  ASSUME TypeInv, ReviewParts, Overlap = FALSE, NEW c \in Client, ClientAct(c)
  PROVE  ReviewParts'
<1> DEFINE q == client[c]
<1>1. /\ TypeOK /\ OneOpen /\ PublicationGate /\ PublishedWhole
      /\ q \in ClientState /\ q.late \in BOOLEAN
      /\ Open(c) /\ ~q.late => LoadedTrue(c)
      /\ Open(c) /\ q.late => report.status = "PENDING"
      /\ report \in [content : Content, status : ReportStatus]
      /\ published \in FilePair /\ review \in [Claim -> ReviewStatus]
  BY DEF TypeInv, TypeOK, ReviewParts, Loaded, ClientState
<1>2. ASSUME NEW state, Opens(c, state),
             UNCHANGED <<review, published, approved, overtaken, report>>,
             state.at \in {"claim", "report", "load"}, state.status = report.status,
             ~state.late,
             state.at = "claim" => \A k \in state.claim : state.review = review[k],
             state.at \in {"report", "load"} => state.content = report.content,
             state.at = "report" /\ state.decision = "APPROVED" => Approvable,
             state.at = "load" => report.status \in Gate
      PROVE  ReviewParts'
  <2>1. \A d \in Client \ {c} : ~Open(d)'
    BY <1>2, OpensAlone
  <2>2. client'[c] = state /\ OneOpen'
    BY <1>2, OpensAlone
  <2>3. LoadedTrue(c)'
    BY <1>2, <2>2 DEF LoadedTrue, Approvable, Publishing
  <2>4. Loaded(c)'
    BY <1>2, <2>2, <2>3 DEF Loaded
  <2>5. PublicationGate' /\ PublishedWhole'
    BY <1>1, <1>2 DEF PublicationGate, PublishedWhole
  <2>6. QED
    BY <2>1, <2>2, <2>4, <2>5, ReviewOne
<1>3. ASSUME NEW k \in Claim, NEW decision \in {"APPROVED", "TURNED_DOWN"},
             ReviewClaim(c, k, decision)
      PROVE  ReviewParts'
  <2>1. PICK s : s = [Idle EXCEPT !.at = "claim", !.claim = {k}, !.decision = decision,
                                  !.review = review[k], !.status = report.status]
    OBVIOUS
  <2>2. /\ s.at = "claim" /\ s.claim = {k} /\ s.review = review[k]
        /\ s.status = report.status /\ s.late = FALSE
    BY <2>1 DEF Idle
  <2>3. Opens(c, s) /\ UNCHANGED <<review, published, approved, overtaken, report>>
    BY <1>3, <2>1 DEF ReviewClaim
  <2>4. QED
    BY <1>2, <2>2, <2>3
<1>4. ASSUME NEW decision \in {"APPROVED", "REJECTED"}, ReviewReport(c, decision)
      PROVE  ReviewParts'
  <2>1. PICK s : s = [Idle EXCEPT !.at = "report", !.decision = decision,
                                  !.status = report.status, !.content = report.content]
    OBVIOUS
  <2>2. /\ s.at = "report" /\ s.decision = decision /\ s.content = report.content
        /\ s.status = report.status /\ s.late = FALSE
    BY <2>1 DEF Idle
  <2>3. Opens(c, s) /\ UNCHANGED <<review, published, approved, overtaken, report>>
    BY <1>4, <2>1 DEF ReviewReport
  <2>4. decision = "APPROVED" => Approvable
    BY <1>4 DEF ReviewReport
  <2>5. QED
    BY <1>2, <2>2, <2>3, <2>4
<1>5. CASE Publish(c)
  <2>1. PICK s : s = [Idle EXCEPT !.at = "load", !.status = report.status,
                                  !.content = report.content]
    OBVIOUS
  <2>2. /\ s.at = "load" /\ s.content = report.content /\ s.status = report.status
        /\ s.late = FALSE
    BY <2>1 DEF Idle
  <2>3. /\ Opens(c, s) /\ UNCHANGED <<review, published, approved, overtaken, report>>
        /\ report.status \in Gate
    BY <1>5, <2>1 DEF Publish
  <2>4. QED
    BY <1>2, <2>2, <2>3
<1>6. ASSUME Open(c), Closes(c), PublicationGate', PublishedWhole'
      PROVE  ReviewParts'
  <2>1. \A d \in Client \ {c} : ~Open(d)'
    BY <1>1, <1>6, GoesOnAlone DEF Closes
  <2>2. client'[c] = Idle /\ OneOpen'
    BY <1>1, <1>6, GoesOnAlone DEF Closes
  <2>3. ~Open(c)'
    BY <2>2, IdleClosed
  <2>4. QED
    BY <1>6, <2>1, <2>2, <2>3, ReviewOne
<1>7. CASE Interrupted(c)
  <2>1. PublicationGate' /\ PublishedWhole'
    BY <1>1, <1>7 DEF Interrupted, PublicationGate, PublishedWhole
  <2>2. QED
    BY <1>6, <1>7, <2>1 DEF Interrupted, Open
<1>8. CASE CommitClaim(c)
  <2>1. Open(c) /\ Closes(c)
    BY <1>8 DEF CommitClaim, Open
  <2>2. report'.status = Column(report.status, q.status, "PENDING")
    BY <1>1, <1>8 DEF CommitClaim, StatusAfterReview
  <2>3. report.status = "PENDING" \/ q.status = report.status
    BY <1>1, <2>1 DEF LoadedTrue
  <2>4. report'.status = "PENDING"
    BY <2>2, <2>3 DEF Column
  <2>5. QED
    BY <1>6, <2>1, <2>4 DEF PublicationGate, PublishedWhole, Gate
<1>9. ASSUME Open(c), Closes(c), report'.status \in Gate => overtaken'
      PROVE  ReviewParts'
  <2>1. PublicationGate' /\ PublishedWhole'
    BY <1>9 DEF PublicationGate, PublishedWhole, Gate
  <2>2. QED
    BY <1>6, <1>9, <2>1
<1>10. CASE CommitReport(c)
  <2>1. /\ Open(c) /\ Closes(c) /\ UNCHANGED <<review, published>>
        /\ overtaken' = (q.late /\ report'.status \in Gate)
    BY <1>10 DEF CommitReport, Open
  <2>2. CASE q.late
    BY <1>9, <2>1, <2>2
  <2>3. CASE ~q.late
    <3>1. /\ q.status = report.status /\ q.content = report.content
          /\ q.decision = "APPROVED" => Approvable
          /\ q.decision \in {"APPROVED", "REJECTED"}
      BY <1>1, <1>10, <2>1, <2>3 DEF LoadedTrue, CommitReport, TypeInv, DecisionsFit, Fits
    <3>2. report' = [report EXCEPT !.status = q.decision]
      BY <1>1, <1>10, <3>1, Committed DEF CommitReport
    <3>3. report'.status = q.decision /\ report'.content = report.content
      BY <1>1, <3>2
    <3>4. q.decision = "APPROVED" => approved' = report.content
      BY <1>10, <3>1 DEF CommitReport
    <3>5. PublicationGate' /\ PublishedWhole'
      BY <2>1, <3>1, <3>3, <3>4 DEF PublicationGate, PublishedWhole, Gate, Approvable
    <3>6. QED
      BY <1>6, <2>1, <3>5
  <2>4. QED
    BY <1>1, <2>2, <2>3
<1>11. ASSUME Open(c), NEW state, client' = [client EXCEPT ![c] = state],
              UNCHANGED <<review, approved, overtaken, report>>, state.late = q.late,
              ~q.late => LoadedTrue(c)' /\ PublishedWhole'
       PROVE  ReviewParts'
  <2>1. \A d \in Client \ {c} : ~Open(d)'
    BY <1>1, <1>11, GoesOnAlone
  <2>2. OneOpen' /\ client'[c] = state
    BY <1>1, <1>11, GoesOnAlone
  <2>3. PublicationGate'
    BY <1>1, <1>11 DEF PublicationGate
  <2>4. Loaded(c)'
    BY <1>1, <1>11, <2>2 DEF Loaded
  <2>5. PublishedWhole'
    BY <1>1, <1>11 DEF PublishedWhole
  <2>6. QED
    BY <2>1, <2>2, <2>3, <2>4, <2>5, ReviewOne
<1>12. ASSUME Open(c), ~q.late, q.at \in {"load", "check", "md", "json"}
       PROVE  /\ q.status = report.status /\ q.content = report.content
              /\ report.status \in Gate
              /\ q.at = "json" => published.md = report.content
  BY <1>1, <1>12 DEF LoadedTrue, Publishing
<1>13. CASE PublishRead(c) \/ PublishCheck(c)
  <2>1. /\ Open(c) /\ q.at \in {"load", "check"}
        /\ UNCHANGED <<review, approved, overtaken, report, published>>
    BY <1>13 DEF PublishRead, PublishCheck, Open
  <2>2. PublishedWhole' /\ PublicationGate'
    BY <1>1, <2>1 DEF PublishedWhole, PublicationGate
  <2>3. CASE Closes(c)
    BY <1>6, <2>1, <2>2, <2>3
  <2>4. CASE ~Closes(c)
    <3>1. PICK phase \in {"check", "md"} :
             client' = [client EXCEPT ![c] = [@ EXCEPT !.at = phase, !.content = q.content]]
      <4>1. CASE PublishRead(c)
        BY <1>1, <2>4, <4>1 DEF PublishRead, HashMatches
      <4>2. CASE PublishCheck(c)
        <5>1. [q EXCEPT !.at = "md"] = [q EXCEPT !.at = "md", !.content = q.content]
          BY <1>1 DEF ClientState
        <5>2. client' = [client EXCEPT ![c] = [q EXCEPT !.at = "md"]]
          BY <1>1, <2>4, <4>2 DEF PublishCheck, TypeOK
        <5>3. QED
          BY <5>1, <5>2
      <4>3. QED
        BY <1>13, <4>1, <4>2
    <3>2. PICK s \in ClientState : s = [q EXCEPT !.at = phase, !.content = q.content]
      BY <1>1 DEF ClientState, ClientPhase
    <3>3. client' = [client EXCEPT ![c] = s] /\ client'[c] = s
      BY <1>1, <3>1, <3>2 DEF TypeOK
    <3>4. s.at = phase /\ s.status = q.status /\ s.content = q.content /\ s.late = q.late
      BY <1>1, <3>2 DEF ClientState
    <3>5. ~q.late => LoadedTrue(c)'
      BY <1>12, <2>1, <3>3, <3>4 DEF LoadedTrue, Publishing
    <3>6. QED
      BY <1>11, <2>1, <2>2, <3>3, <3>4, <3>5
  <2>5. QED
    BY <2>3, <2>4
<1>14. CASE PublishMd(c)
  <2>1. Open(c) /\ q.at = "md" /\ UNCHANGED <<review, approved, overtaken, report>>
    BY <1>14 DEF PublishMd, Open
  <2>2. PICK s \in ClientState : s = [q EXCEPT !.at = "json"]
    BY <1>1 DEF ClientState, ClientPhase
  <2>3. client' = [client EXCEPT ![c] = s] /\ client'[c] = s
    BY <1>1, <1>14, <2>2 DEF PublishMd, TypeOK
  <2>4. s.at = "json" /\ s.status = q.status /\ s.content = q.content /\ s.late = q.late
    BY <1>1, <2>2 DEF ClientState
  <2>5. ASSUME ~q.late
        PROVE  LoadedTrue(c)' /\ PublishedWhole'
    <3>1. published' = [published EXCEPT !.md = report.content]
      BY <1>12, <1>14, <2>1, <2>5 DEF PublishMd
    <3>2. published'.md = report.content /\ published'.json = published.json
      BY <1>1, <3>1 DEF FilePair
    <3>3. LoadedTrue(c)'
      BY <1>12, <2>1, <2>3, <2>4, <2>5, <3>2 DEF LoadedTrue, Publishing
    <3>4. PublishedWhole'
      BY <1>1, <2>1, <3>1 DEF PublishedWhole, FilePair
    <3>5. QED
      BY <3>3, <3>4
  <2>6. QED
    BY <1>11, <2>1, <2>3, <2>4, <2>5
<1>15. CASE PublishJson(c)
  <2>1. Open(c) /\ q.at = "json" /\ UNCHANGED <<review, approved, overtaken, report>>
    BY <1>15 DEF PublishJson, Open
  <2>2. PICK s \in ClientState : s = [q EXCEPT !.at = "publish", !.content = NoContent]
    BY <1>1, NothingTypes DEF ClientState, ClientPhase
  <2>3. client' = [client EXCEPT ![c] = s] /\ client'[c] = s
    BY <1>1, <1>15, <2>2 DEF PublishJson, TypeOK
  <2>4. s.at = "publish" /\ s.status = q.status /\ s.late = q.late
    BY <1>1, <2>2 DEF ClientState
  <2>5. ASSUME ~q.late
        PROVE  LoadedTrue(c)' /\ PublishedWhole'
    <3>1. published' = [published EXCEPT !.json = report.content]
      BY <1>12, <1>15, <2>1, <2>5 DEF PublishJson
    <3>2. published'.md = report.content /\ published'.json = report.content
      BY <1>1, <1>12, <2>1, <2>5, <3>1 DEF FilePair
    <3>3. LoadedTrue(c)'
      BY <1>12, <2>1, <2>3, <2>4, <2>5, <3>2 DEF LoadedTrue, Publishing
    <3>4. PublishedWhole'
      BY <1>1, <2>1, <3>1 DEF PublishedWhole, FilePair
    <3>5. QED
      BY <3>3, <3>4
  <2>6. QED
    BY <1>11, <2>1, <2>3, <2>4, <2>5
<1>16. CASE CommitPublish(c)
  <2>1. /\ Open(c) /\ Closes(c) /\ UNCHANGED <<review, published, approved>>
        /\ overtaken' = (overtaken \/ (q.late /\ report'.status \in Gate))
    BY <1>16 DEF CommitPublish, Open
  <2>2. CASE q.late
    BY <1>9, <2>1, <2>2
  <2>3. CASE ~q.late
    <3>1. /\ q.status = report.status /\ report.status \in Gate
          /\ published.md = report.content /\ published.json = report.content
      BY <1>1, <1>16, <2>1, <2>3 DEF LoadedTrue, CommitPublish, Publishing
    <3>2. report' = [report EXCEPT !.status = "PUBLISHED"]
      BY <1>1, <1>16, <3>1, Committed DEF CommitPublish
    <3>3. report'.content = report.content
      BY <1>1, <3>2
    <3>4. published = [md |-> report.content, json |-> report.content]
      BY <1>1, <3>1 DEF FilePair
    <3>5. overtaken' = overtaken
      BY <1>1, <2>1, <2>3 DEF TypeOK
    <3>6. PublicationGate' /\ PublishedWhole'
      BY <1>1, <2>1, <3>1, <3>3, <3>4, <3>5 DEF PublicationGate, PublishedWhole
    <3>7. QED
      BY <1>6, <2>1, <3>6
  <2>4. QED
    BY <1>1, <2>2, <2>3
<1>17. QED
  BY <1>3, <1>4, <1>5, <1>7, <1>8, <1>10, <1>13, <1>14, <1>15, <1>16 DEF ClientAct, ClientStep

\* A writer stores a report whenever it is done: whatever request is open is late.
LEMMA ReviewOther ==
  ASSUME TypeInv, ReviewParts,
         \/ AskRecheck \/ ExecAct \/ Restarts \/ BuildEnds
         \/ \E b \in Builder : BuilderAct(b)
  PROVE  ReviewParts'
<1>1. CASE UNCHANGED <<human, report>>
  <2>1. UNCHANGED <<review, published, client, approved, overtaken, report>>
    BY <1>1 DEF human
  <2>2. OneOpen' /\ PublicationGate' /\ PublishedWhole'
    BY <2>1 DEF ReviewParts, OneOpen, Open, PublicationGate, PublishedWhole
  <2>3. (\A c \in Client : Open(c) => Loaded(c))'
    BY <2>1 DEF ReviewParts, Open, Loaded, LoadedTrue, Approvable
  <2>4. QED
    BY <2>2, <2>3 DEF ReviewParts
<1>2. CASE \E b \in Builder : BuildStore(b)
  <2>1. report'.status = "PENDING"
    BY <1>2 DEF BuildStore
  <2>2. ASSUME NEW c \in Client
        PROVE  client'[c].at = client[c].at /\ (client'[c].late <=> Open(c))
    <3>1. client[c] \in ClientState
      BY DEF TypeInv, TypeOK
    <3>2. client'[c] = [client[c] EXCEPT !.late = client[c].at # "idle"]
      BY <1>2 DEF BuildStore
    <3>3. QED
      BY <3>1, <3>2 DEF ClientState, Open
  <2>3. OneOpen'
    BY <2>2 DEF ReviewParts, OneOpen, Open
  <2>4. (\A c \in Client : Open(c) => Loaded(c))'
    BY <2>1, <2>2 DEF Loaded, Open
  <2>5. QED
    BY <2>1, <2>3, <2>4 DEF ReviewParts, PublicationGate, PublishedWhole, Gate
<1>3. QED
  BY <1>1, <1>2, OtherFrame

LEMMA ReviewStep ==
  ASSUME Overlap = FALSE
  PROVE  TypeInv /\ ReviewParts /\ [Next]_vars => ReviewParts'
<1> SUFFICES ASSUME TypeInv, ReviewParts, [Next]_vars PROVE ReviewParts'
  OBVIOUS
<1>1. CASE Next
  BY <1>1, NextKinds, ReviewClient, ReviewOther
<1>2. CASE UNCHANGED vars
  <2>1. UNCHANGED <<review, published, client, approved, overtaken, report>>
    BY <1>2 DEF vars, human
  <2>2. OneOpen' /\ PublicationGate' /\ PublishedWhole'
    BY <2>1 DEF ReviewParts, OneOpen, Open, PublicationGate, PublishedWhole
  <2>3. (\A c \in Client : Open(c) => Loaded(c))'
    BY <2>1 DEF ReviewParts, Open, Loaded, LoadedTrue, Approvable
  <2>4. QED
    BY <2>2, <2>3 DEF ReviewParts
<1>3. QED
  BY <1>1, <1>2

\* README.md:230-231: a report passes the gate only in the form its reviewer
\* approved, and while every claim it refers to is approved; whatever rechecks,
\* rebuilds and dying requests do and whenever they commit, as long as reviewers'
\* requests do not overlap, and but for a report that was stored while an approval
\* or a publication of its predecessor was under way.
THEOREM GateHolds ==
  ASSUME Overlap = FALSE
  PROVE  Spec => []PublicationGate
<1>1. TypeInv /\ ReviewParts /\ [Next]_vars => ReviewParts'
  BY ReviewStep
<1>2. ReviewParts => PublicationGate
  BY DEF ReviewParts
<1>3. QED
  BY TypeInvariant, ReviewInit, <1>1, <1>2, PTL DEF Spec

\* The published files are the two files of the report marked as published, again
\* unless it was stored while its predecessor was being published; however two
\* writers mixed the files that publication reads.
THEOREM PublishedInFull ==
  ASSUME Overlap = FALSE
  PROVE  Spec => []PublishedWhole
<1>1. TypeInv /\ ReviewParts /\ [Next]_vars => ReviewParts'
  BY ReviewStep
<1>2. ReviewParts => PublishedWhole
  BY DEF ReviewParts
<1>3. QED
  BY TypeInvariant, ReviewInit, <1>1, <1>2, PTL DEF Spec

-----------------------------------------------------------------------------
(* The recheck's row, request and subprocess.                              *)

LEMMA RecheckInit == Init => RecheckParts
<1> SUFFICES ASSUME Init PROVE RecheckParts
  OBVIOUS
<1>1. item = [NewItem EXCEPT !.status = "SUCCEEDED"] /\ request.status = "COMPLETED"
  BY DEF Init
<1>2. NoRequests /\ item.status = "SUCCEEDED"
  BY <1>1 DEF NewItem, NoRequests
<1>3. exec.at = "off" /\ builder["recheck"].at = "off"
  BY DEF Init, NoExecution, NoBuilder, Builder
<1>4. QED
  BY <1>1, <1>2, <1>3 DEF RecheckParts, ExecAgrees, RecheckEndAgrees, AtWork

\* A recheck is never paused, cancelled or cut short: it ends, or is retried.
LEMMA RecheckOutcome ==
  ASSUME NEW i \in Item, NEW ok \in BOOLEAN, ~i.cancel, ~i.pause, ~i.finish
  PROVE  \/ ok /\ Outcome(i, ok) = "SUCCEEDED"
         \/ ~ok /\ Outcome(i, ok) \in {"RETRY", "FAILED"}
  BY DEF Item, Outcome

LEMMA RecheckFinished ==
  ASSUME NEW i \in Item, NEW o \in {"SUCCEEDED", "RETRY", "FAILED"},
         ~i.cancel, ~i.pause, ~i.finish
  PROVE  /\ ~Finished(i, o).cancel /\ ~Finished(i, o).pause /\ ~Finished(i, o).finish
         /\ Finished(i, o).status = IF o = "RETRY" THEN "QUEUED" ELSE o
         /\ Finished(i, o).attempts = i.attempts
  BY DEF Item, Finished

LEMMA RecheckExec ==
  ASSUME TypeInv, RecheckParts, ExecAct
  PROVE  RecheckParts'
<1>1. /\ exec \in Execution /\ item \in Item /\ request \in RecheckRequest
      /\ NoRequests /\ ExecAgrees /\ RecheckEndAgrees
      /\ item.attempts \in Nat
  BY AttemptsAssumption DEF TypeInv, TypeOK, RecheckParts, Item
<1>2. UNCHANGED builder
  BY ExecTypes DEF writing
<1>3. ASSUME UNCHANGED <<item, request>>, exec.at # "off",
             exec'.at \in AtWork => exec.at \in AtWork \/ request.status = "RUNNING",
             exec'.at = "exit" /\ exec'.ok => request.status = "COMPLETED",
             exec.at = "build" => exec'.at = "build"
      PROVE  RecheckParts'
  BY <1>1, <1>2, <1>3 DEF RecheckParts, NoRequests, ExecAgrees, RecheckEndAgrees
<1>4. \A phase \in ExecPhase : [exec EXCEPT !.at = phase].at = phase
  BY <1>1 DEF Execution
<1>5. CASE \E w \in Worker : Take(w)
  <2>1. PICK w \in Worker : Take(w)
    BY <1>5
  <2>2. item' = Claimed(item, w) /\ exec.at = "off" /\ UNCHANGED request
    BY <2>1 DEF Take
  <2>3. item'.status = "LEASED" /\ item'.attempts > 0 /\ NoRequests'
    BY <1>1, <2>2 DEF Claimed, Item, NoRequests
  <2>4. exec'.at = "begin"
    BY <2>1 DEF Take, NoExecution
  <2>5. QED
    BY <1>1, <1>2, <2>2, <2>3, <2>4 DEF RecheckParts, ExecAgrees, RecheckEndAgrees, AtWork
<1>6. CASE Begin
  <2>1. CASE Already
    <3>1. exec'.at = "exit" /\ UNCHANGED <<item, request>> /\ exec.at = "begin"
      BY <1>1, <1>6, <2>1 DEF Begin, Execution
    <3>2. QED
      BY <1>3, <2>1, <3>1 DEF Already, AtWork
  <2>2. CASE ~Already
    <3>1. exec'.at = "originals" /\ UNCHANGED item /\ exec.at = "begin"
      BY <1>1, <1>6, <2>2 DEF Begin, Goes, Execution
    <3>2. request'.status = "RUNNING"
      BY <1>1, <1>6, <2>2 DEF Begin, RecheckRequest
    <3>3. QED
      BY <1>1, <1>2, <3>1, <3>2 DEF RecheckParts, NoRequests, ExecAgrees, RecheckEndAgrees
  <2>3. QED
    BY <2>1, <2>2
<1>7. CASE Originals \/ FetchFails \/ \E page \in 0..left.pages : Fetch(page)
  <2>1. UNCHANGED <<item, request>> /\ exec.at \in {"originals", "fetch"}
    BY <1>7 DEF Originals, FetchFails, Fetch
  <2>2. exec'.at \in {"fetch", "verify"}
    BY <1>1, <1>7 DEF Originals, FetchFails, Fetch, Goes, Execution
  <2>3. QED
    BY <1>3, <2>1, <2>2 DEF AtWork
<1>8. CASE \E k \in Claim : Verify(k)
  <2>1. UNCHANGED <<item, request>> /\ exec.at = "verify"
    BY <1>8 DEF Verify
  <2>2. exec'.at \in {"verify", "compare"}
    BY <1>1, <1>8, <2>1 DEF Verify, Execution
  <2>3. QED
    BY <1>3, <2>1, <2>2 DEF AtWork
<1>9. CASE Compare
  <2>1. UNCHANGED <<item, request>> /\ exec.at = "compare"
    BY <1>9 DEF Compare
  <2>2. exec'.at \in {"archive", "complete"}
    BY <1>9 DEF Compare, NoExecution
  <2>3. QED
    BY <1>3, <2>1, <2>2 DEF AtWork
<1>10. CASE Archive
  <2>1. UNCHANGED <<item, request>> /\ exec.at = "archive"
    BY <1>10 DEF Archive
  <2>2. exec'.at = "build"
    BY <1>1, <1>10 DEF Archive, Goes, Execution
  <2>3. QED
    BY <1>3, <2>1, <2>2 DEF AtWork
<1>11. CASE Version
  <2>1. UNCHANGED <<item, request>> /\ exec.at = "version"
    BY <1>11 DEF Version
  <2>2. exec'.at = "complete"
    BY <1>11 DEF Version, NoExecution
  <2>3. QED
    BY <1>3, <2>1, <2>2 DEF AtWork
<1>12. CASE Complete
  <2>1. UNCHANGED item /\ exec.at = "complete"
    BY <1>12 DEF Complete
  <2>2. exec'.at = "exit"
    BY <1>12 DEF Complete, NoExecution
  <2>3. request'.status = "COMPLETED"
    BY <1>1, <1>12 DEF Complete, RecheckRequest
  <2>4. QED
    BY <1>1, <1>2, <2>1, <2>2, <2>3 DEF RecheckParts, NoRequests, ExecAgrees, RecheckEndAgrees,
       AtWork
<1>13. CASE FinishWork
  <2>1. /\ exec.at = "exit" /\ exec'.at = "off" /\ exec.ok \in BOOLEAN
        /\ item' = Finished(item, Outcome(item, exec.ok))
        /\ request' = RequestAfter(Outcome(item, exec.ok))
    BY <1>1, <1>13 DEF FinishWork, NoExecution, Execution
  <2>2. PICK o : o = Outcome(item, exec.ok)
    OBVIOUS
  <2>3. /\ o \in {"SUCCEEDED", "RETRY", "FAILED"}
        /\ o = "SUCCEEDED" => request.status = "COMPLETED"
    BY <1>1, <2>1, <2>2, RecheckOutcome DEF NoRequests, ExecAgrees
  <2>4. NoRequests' /\ item'.status = IF o = "RETRY" THEN "QUEUED" ELSE o
    BY <1>1, <2>1, <2>2, <2>3, RecheckFinished DEF NoRequests
  <2>5. CASE o = "FAILED"
    <3>1. request'.status = "FAILED"
      BY <1>1, <2>1, <2>2, <2>5 DEF RequestAfter, RecheckRequest
    <3>2. QED
      BY <1>1, <1>2, <2>1, <2>4, <2>5, <3>1 DEF RecheckParts, ExecAgrees, RecheckEndAgrees,
         AtWork
  <2>6. CASE o # "FAILED"
    <3>1. request' = request
      BY <2>1, <2>2, <2>6 DEF RequestAfter
    <3>2. QED
      BY <1>1, <1>2, <2>1, <2>3, <2>4, <2>6, <3>1 DEF RecheckParts, ExecAgrees,
         RecheckEndAgrees, AtWork
  <2>7. QED
    BY <2>5, <2>6
<1>14. QED
  BY <1>5, <1>6, <1>7, <1>8, <1>9, <1>10, <1>11, <1>12, <1>13 DEF ExecAct

LEMMA RecheckRest ==
  ASSUME TypeInv, RecheckParts,
         \/ \E c \in Client : ClientAct(c)
         \/ AskRecheck \/ Restarts \/ BuildEnds
         \/ \E b \in Builder : BuilderAct(b)
  PROVE  RecheckParts'
<1>1. /\ exec \in Execution /\ item \in Item /\ request \in RecheckRequest
      /\ NoRequests /\ ExecAgrees /\ RecheckEndAgrees
      /\ item.attempts \in Nat /\ builder \in [Builder -> BuilderState]
      /\ "recheck" \in Builder /\ "rebuild" \in Builder
  BY AttemptsAssumption DEF TypeInv, TypeOK, RecheckParts, Item, Builder
<1>2. CASE \E c \in Client : ClientAct(c)
  <2>1. UNCHANGED <<item, request, exec, builder>>
    BY <1>2, ClientFrame DEF recheck, writing
  <2>2. QED
    BY <1>1, <2>1 DEF RecheckParts, NoRequests, ExecAgrees, RecheckEndAgrees
<1>3. CASE AskRecheck
  <2>1. item' = NewItem /\ UNCHANGED <<exec, builder>> /\ item.status # "LEASED"
    BY <1>3 DEF AskRecheck, writing, ActiveStatus
  <2>2. NoRequests' /\ item'.status = "QUEUED"
    BY <2>1 DEF NewItem, NoRequests
  <2>3. exec'.at = "off" /\ builder'["recheck"].at = "off"
    BY <1>1, <2>1 DEF ExecAgrees
  <2>4. QED
    BY <2>2, <2>3 DEF RecheckParts, ExecAgrees, RecheckEndAgrees, AtWork
<1>4. CASE Restarts
  <2>1. builder'["recheck"].at = "off"
    BY <1>1, <1>4 DEF Restarts, Raises, Killed, WorkerLost, Stops, NoBuilder
  <2>2. exec.at # "off" /\ item.status = "LEASED" /\ item.attempts > 0
    BY <1>1, <1>4 DEF Restarts, Raises, Killed, WorkerLost, Running, ExecAgrees
  <2>3. item'.status = "LEASED" /\ item'.attempts > 0 /\ NoRequests'
    BY <1>1, <1>4, <2>2 DEF Restarts, Raises, Killed, WorkerLost, Item, NoRequests
  <2>4. exec'.at \in {"off", "exit"} /\ ~exec'.ok
    BY <1>4 DEF Restarts, Raises, Killed, WorkerLost, NoExecution
  <2>5. QED
    BY <2>1, <2>3, <2>4 DEF RecheckParts, ExecAgrees, RecheckEndAgrees, AtWork
<1>5. CASE BuildEnds
  <2>1. UNCHANGED <<item, request, exec>> /\ builder'["recheck"] = builder["recheck"]
    BY <1>1, <1>5 DEF BuildEnds, Stops, recheck, counts
  <2>2. QED
    BY <1>1, <2>1 DEF RecheckParts, NoRequests, ExecAgrees, RecheckEndAgrees
<1>6. ASSUME NEW b \in Builder, BuilderAct(b)
      PROVE  RecheckParts'
  <2>1. UNCHANGED <<item, request>>
    BY <1>6 DEF BuilderAct, BuildRead, BuildMdTmp, BuildJsonTmp, BuildMd, BuildJson,
       BuildStore, recheck
  <2>2. CASE BuildStore(b) /\ b = "recheck"
    <3>1. exec.at = "build"
      BY <1>1, <2>2 DEF BuildStore, ExecAgrees
    <3>2. builder'["recheck"].at = "off" /\ exec'.at = "version"
      BY <1>1, <2>2 DEF BuildStore, NoBuilder, Execution
    <3>3. QED
      BY <1>1, <2>1, <3>1, <3>2 DEF RecheckParts, NoRequests, ExecAgrees, RecheckEndAgrees,
         AtWork
  <2>3. CASE ~(BuildStore(b) /\ b = "recheck")
    <3>1. UNCHANGED exec
      BY <1>6, <2>3 DEF BuilderAct, BuildRead, BuildMdTmp, BuildJsonTmp, BuildMd, BuildJson,
       BuildStore, recheck
    <3>2. builder'["recheck"].at # "off" => exec.at = "build"
      BY <1>1, <1>6, <2>3 DEF BuilderAct, BuildRead, BuildMdTmp, BuildJsonTmp, BuildMd, BuildJson,
       BuildStore, ExecAgrees
    <3>3. QED
      BY <1>1, <2>1, <3>1, <3>2 DEF RecheckParts, NoRequests, ExecAgrees, RecheckEndAgrees
  <2>4. QED
    BY <2>2, <2>3
<1>7. QED
  BY <1>2, <1>3, <1>4, <1>5, <1>6

LEMMA RecheckStep == TypeInv /\ RecheckParts /\ [Next]_vars => RecheckParts'
<1> SUFFICES ASSUME TypeInv, RecheckParts, [Next]_vars PROVE RecheckParts'
  OBVIOUS
<1>1. CASE Next
  BY <1>1, NextKinds, RecheckExec, RecheckRest
<1>2. CASE UNCHANGED vars
  <2>1. UNCHANGED <<item, request, exec, builder>>
    BY <1>2 DEF vars, recheck, writing
  <2>2. QED
    BY <2>1 DEF RecheckParts, NoRequests, ExecAgrees, RecheckEndAgrees
<1>3. QED
  BY <1>1, <1>2

LEMMA RecheckInvariant == Spec => [](TypeInv /\ RecheckParts)
<1>1. Init => TypeInv /\ RecheckParts
  BY TypeInit, RecheckInit
<1>2. TypeInv /\ RecheckParts /\ [Next]_vars => (TypeInv /\ RecheckParts)'
  BY TypeStep, RecheckStep
<1>3. QED
  BY <1>1, <1>2, PTL DEF Spec

\* The request tells how its work item ended, whatever dies between two commits
\* and however transactions overlap: an exit with success follows the commit of
\* the request, and finish_work fails the request with the item.
THEOREM RequestsTellTheEnd == Spec => []RecheckEndAgrees
<1>1. RecheckParts => RecheckEndAgrees
  BY DEF RecheckParts
<1>2. QED
  BY RecheckInvariant, <1>1, PTL

\* The evidence of a completed recheck is final: a later attempt finds the
\* request completed and leaves before it fetches anything.
THEOREM CompletedIsFinal == Spec => CompletedOnce
<1> DEFINE Final == request.status = "COMPLETED" =>
                       UNCHANGED evidence /\ request'.status # "RUNNING"
<1>1. ASSUME TypeInv, RecheckParts, Next PROVE Final
  <2> SUFFICES ASSUME request.status = "COMPLETED"
               PROVE  UNCHANGED evidence /\ request'.status # "RUNNING"
    OBVIOUS
  <2>1. exec.at \notin AtWork /\ request \in RecheckRequest
    BY <1>1 DEF RecheckParts, ExecAgrees, TypeInv, TypeOK
  <2>2. CASE \E c \in Client : ClientAct(c)
    BY <2>2, ClientFrame DEF recheck
  <2>3. CASE AskRecheck \/ Restarts \/ BuildEnds
    BY <2>1, <2>3 DEF AskRecheck, Restarts, Raises, Killed, WorkerLost, BuildEnds, recheck,
       RecheckRequest
  <2>4. CASE \E b \in Builder : BuilderAct(b)
    BY <2>4 DEF BuilderAct, BuildRead, BuildMdTmp, BuildJsonTmp, BuildMd, BuildJson,
       BuildStore, recheck
  <2>5. CASE ExecAct
    <3>1. \/ \E w \in Worker : Take(w)
          \/ Begin \/ FinishWork
      BY <2>1, <2>5 DEF ExecAct, Originals, Fetch, FetchFails, Verify, Compare, Archive,
         Version, Complete, AtWork
    <3>2. CASE (\E w \in Worker : Take(w)) \/ Begin
      BY <3>2 DEF Take, Begin, Already
    <3>3. CASE FinishWork
      BY <2>1, <3>3 DEF FinishWork, RequestAfter, RecheckRequest
    <3>4. QED
      BY <3>1, <3>2, <3>3
  <2>6. QED
    BY <1>1, <2>2, <2>3, <2>4, <2>5, NextKinds
<1>2. TypeInv /\ RecheckParts /\ [Next]_vars => [Final]_vars
  BY <1>1
<1>3. QED
  BY RecheckInvariant, <1>2, PTL DEF Spec, CompletedOnce

-----------------------------------------------------------------------------
(* The report through a recheck.                                           *)

FlowInv == TypeInv /\ RecheckParts /\ VersionParts /\ FollowParts

LEMMA FlowInit == Init => VersionParts /\ FollowParts
<1> SUFFICES ASSUME Init PROVE VersionParts /\ FollowParts
  OBVIOUS
<1>1. exec.at = "off" /\ builder["rebuild"].at = "off" /\ builder["recheck"].at = "off"
  BY DEF Init, NoExecution, NoBuilder, Builder
<1>2. PICK content \in Drafts : report = [content |-> content, status |-> "PENDING"]
  BY DEF Init
<1>3. verdict \in [Claim -> Verdict] /\ snapshot \in Page
  BY DEF Init, Page
<1>4. content.verdict = verdict /\ content.snapshot = snapshot
  BY <1>3, DraftTypes
<1>5. Fresh
  BY <1>2, <1>4 DEF Fresh
<1>6. QED
  BY <1>1, <1>5 DEF VersionParts, FollowParts

\* A step that leaves the report's content, the evidence and the recheck alone.
LEMMA FlowKept ==
  ASSUME VersionParts, FollowParts,
         UNCHANGED <<evidence, latest, item, request, exec>>,
         report'.content = report.content,
         ~rebuilt' =>
             ~rebuilt /\ (builder["rebuild"].at = "off" => builder'["rebuild"].at = "off"),
         builder'["recheck"].at # "off" =>
             /\ builder["recheck"].at # "off"
             /\ builder'["recheck"].draft = builder["recheck"].draft
  PROVE  VersionParts' /\ FollowParts'
<1>1. UNCHANGED <<verdict, snapshot>>
  BY DEF evidence
<1>2. VersionParts'
  BY DEF VersionParts, Archives
<1>3. FirstAttempt' => FirstAttempt
  BY DEF FirstAttempt
<1>4. (Fresh' <=> Fresh) /\ (ToldBefore' <=> ToldBefore)
  BY <1>1 DEF Fresh, ToldBefore
<1>5. FollowParts'
  BY <1>1, <1>3, <1>4 DEF FollowParts
<1>6. QED
  BY <1>2, <1>5

LEMMA FlowBuilder ==
  ASSUME FlowInv, NEW b \in Builder, BuilderAct(b)
  PROVE  VersionParts' /\ FollowParts'
<1>1. /\ TypeOK /\ ExecAgrees /\ VersionParts /\ FollowParts
      /\ builder \in [Builder -> BuilderState] /\ exec \in Execution
      /\ rebuilt \in BOOLEAN /\ "recheck" \in Builder /\ "rebuild" \in Builder
      /\ b \in {"recheck", "rebuild"}
  BY DEF FlowInv, TypeInv, TypeOK, RecheckParts, Builder
<1>2. UNCHANGED <<evidence, latest, item, request>>
  BY DEF BuilderAct, BuildRead, BuildMdTmp, BuildJsonTmp, BuildMd, BuildJson,
       BuildStore, recheck
<1>3. UNCHANGED <<verdict, snapshot>>
  BY <1>2 DEF evidence
<1>4. CASE BuildRead(b)
  <2>1. UNCHANGED <<report, exec>>
    BY <1>4 DEF BuildRead, recheck
  <2>2. PICK draft \in Drafts : builder' = [builder EXCEPT ![b] = [at |-> "mdtmp", draft |-> draft]]
    BY <1>4 DEF BuildRead
  <2>3. draft.verdict = verdict /\ draft.snapshot = snapshot
    BY <1>1, DraftTypes DEF TypeOK
  <2>4. CASE b = "rebuild"
    <3>1. rebuilt'
      BY <1>1, <1>4, <2>4 DEF BuildRead
    <3>2. QED
      BY <3>1 DEF VersionParts, FollowParts, FirstAttempt
  <2>5. CASE b = "recheck"
    <3>1. UNCHANGED rebuilt /\ builder'["rebuild"] = builder["rebuild"]
      BY <1>1, <1>4, <2>2, <2>5 DEF BuildRead, counts
    <3>2. VersionParts'
      BY <1>1, <1>2, <2>1, <3>1 DEF VersionParts, Archives
    <3>3. (FirstAttempt' <=> FirstAttempt) /\ (Fresh' <=> Fresh) /\ (ToldBefore' <=> ToldBefore)
      BY <1>2, <1>3, <2>1, <3>1 DEF FirstAttempt, Fresh, ToldBefore
    <3>4. /\ builder'["recheck"].draft.verdict = verdict'
          /\ builder'["recheck"].draft.snapshot = snapshot'
      BY <1>1, <1>3, <2>2, <2>3, <2>5
    <3>5. FollowParts'
      BY <1>1, <1>2, <1>3, <2>1, <3>3, <3>4 DEF FollowParts
    <3>6. QED
      BY <3>2, <3>5
  <2>6. QED
    BY <1>1, <2>4, <2>5
<1>5. CASE BuildMdTmp(b) \/ BuildJsonTmp(b) \/ BuildMd(b) \/ BuildJson(b)
  <2>1. UNCHANGED <<report, exec, rebuilt>>
    BY <1>5 DEF BuildMdTmp, BuildJsonTmp, BuildMd, BuildJson, recheck, counts
  <2>2. PICK phase \in BuilderPhase \ {"off"} : builder' = [builder EXCEPT ![b].at = phase]
    BY <1>5 DEF BuildMdTmp, BuildJsonTmp, BuildMd, BuildJson, BuilderPhase
  <2>3. builder[b].at # "off"
    BY <1>5 DEF BuildMdTmp, BuildJsonTmp, BuildMd, BuildJson
  <2>4. \A d \in Builder : /\ builder'[d].at = "off" <=> builder[d].at = "off"
                           /\ builder'[d].draft = builder[d].draft
    BY <1>1, <2>2, <2>3 DEF BuilderState
  <2>5. QED
    BY <1>1, <1>2, <2>1, <2>4, FlowKept
<1>6. CASE BuildStore(b)
  <2>1. UNCHANGED rebuilt /\ builder[b].at = "store"
    BY <1>6 DEF BuildStore, counts
  <2>2. CASE b = "rebuild"
    <3>1. rebuilt'
      BY <1>1, <2>1, <2>2 DEF VersionParts
    <3>2. QED
      BY <3>1 DEF VersionParts, FollowParts, FirstAttempt
  <2>3. CASE b = "recheck"
    <3>1. /\ builder'["rebuild"] = builder["rebuild"] /\ builder'["recheck"].at = "off"
          /\ exec'.at = "version"
      BY <1>1, <1>6, <2>3 DEF BuildStore, NoBuilder, Execution
    <3>2. report'.content = builder["recheck"].draft
      BY <1>6, <2>3 DEF BuildStore
    <3>3. exec.at = "build"
      BY <1>1, <2>1, <2>3 DEF ExecAgrees
    <3>4. VersionParts'
      BY <1>1, <2>1, <3>1 DEF VersionParts
    <3>5. FirstAttempt' => FirstAttempt
      BY <1>2, <2>1 DEF FirstAttempt
    <3>6. FirstAttempt' => Fresh'
      BY <1>1, <1>3, <2>1, <2>3, <3>2, <3>5 DEF FollowParts, Fresh
    <3>7. FollowParts'
      BY <3>1, <3>6 DEF FollowParts
    <3>8. QED
      BY <3>4, <3>7
  <2>4. QED
    BY <1>1, <2>2, <2>3
<1>7. QED
  BY <1>4, <1>5, <1>6 DEF BuilderAct

LEMMA FlowExec ==
  ASSUME FlowInv, ExecAct
  PROVE  VersionParts' /\ FollowParts'
<1>1. /\ exec \in Execution /\ item \in Item /\ request \in RecheckRequest
      /\ NoRequests /\ ExecAgrees /\ VersionParts /\ FollowParts
      /\ item.attempts \in Nat /\ report.content \in Content
  BY AttemptsAssumption DEF FlowInv, TypeInv, TypeOK, RecheckParts, Item
<1>2. UNCHANGED <<report, builder, rebuilt>>
  BY ExecTypes DEF FlowInv, writing, counts
<1>3. ASSUME UNCHANGED latest, exec'.at # "build" \/ exec.at = "build"
      PROVE  VersionParts'
  BY <1>1, <1>2, <1>3 DEF VersionParts, Archives
<1>4. Fresh' <=> report.content.verdict = verdict' /\ report.content.snapshot = snapshot'
  BY <1>2 DEF Fresh
<1>5. CASE \E w \in Worker : Take(w)
  <2>1. PICK w \in Worker : Take(w)
    BY <1>5
  <2>2. /\ item' = Claimed(item, w) /\ exec.at = "off" /\ UNCHANGED <<request, latest>>
        /\ UNCHANGED <<verdict, snapshot>>
    BY <2>1 DEF Take, evidence
  <2>3. item'.attempts = item.attempts + 1
    BY <1>1, <2>2 DEF Claimed, Item
  <2>4. exec'.at = "begin"
    BY <2>1 DEF Take, NoExecution
  <2>5. builder["recheck"].at = "off"
    BY <1>1, <2>2 DEF ExecAgrees
  <2>6. FirstAttempt' => FirstAttempt /\ item.attempts = 0
    BY <1>1, <1>2, <2>2, <2>3 DEF FirstAttempt
  <2>7. FirstAttempt' => Fresh'
    BY <1>1, <1>4, <2>2, <2>6 DEF FollowParts, Fresh
  <2>8. FollowParts'
    BY <1>2, <2>4, <2>5, <2>7 DEF FollowParts
  <2>9. QED
    BY <1>3, <2>2, <2>4, <2>8
<1>6. CASE Begin
  <2>1. /\ exec.at = "begin" /\ UNCHANGED <<item, latest, verdict, snapshot>>
        /\ builder["recheck"].at = "off" /\ exec'.at \in {"exit", "originals"}
    BY <1>1, <1>6 DEF Begin, evidence, ExecAgrees, Goes, Execution
  <2>2. request'.fresh = request.fresh
    BY <1>1, <1>6 DEF Begin, RecheckRequest
  <2>3. FirstAttempt' => FirstAttempt
    BY <1>2, <2>1, <2>2 DEF FirstAttempt
  <2>4. FirstAttempt' => Fresh'
    BY <1>1, <1>4, <2>1, <2>3 DEF FollowParts, Fresh
  <2>5. FollowParts'
    BY <1>2, <2>1, <2>4 DEF FollowParts
  <2>6. QED
    BY <1>3, <2>1, <2>5
<1>7. CASE Originals
  <2>1. /\ exec.at = "originals" /\ UNCHANGED <<item, request, latest, verdict, snapshot>>
        /\ builder["recheck"].at = "off" /\ request.status = "RUNNING"
    BY <1>1, <1>7 DEF Originals, evidence, ExecAgrees, AtWork
  <2>2. exec'.at = "fetch" /\ exec'.verdict = verdict /\ exec'.snapshot = snapshot
    BY <1>1, <1>7 DEF Originals, Execution
  <2>3. FirstAttempt' => FirstAttempt
    BY <1>2, <2>1 DEF FirstAttempt
  <2>4. FirstAttempt' => ToldBefore'
    BY <1>1, <1>2, <2>1, <2>2, <2>3 DEF FollowParts, Fresh, ToldBefore
  <2>5. FollowParts'
    BY <1>2, <2>1, <2>2, <2>4 DEF FollowParts
  <2>6. QED
    BY <1>3, <2>1, <2>2, <2>5
<1>8. CASE FetchFails \/ \E page \in 0..left.pages : Fetch(page)
  <2>1. /\ exec.at = "fetch" /\ UNCHANGED <<item, request, latest, verdict>>
        /\ builder["recheck"].at = "off" /\ request.status = "RUNNING"
    BY <1>1, <1>8 DEF FetchFails, Fetch, evidence, ExecAgrees, AtWork
  <2>2. /\ exec'.at = "verify" /\ exec'.verdict = exec.verdict /\ exec'.snapshot = exec.snapshot
        /\ exec'.fetched \/ (exec'.fetched = exec.fetched /\ UNCHANGED snapshot)
    BY <1>1, <1>8 DEF FetchFails, Fetch, evidence, Goes, Execution
  <2>3. FirstAttempt' => FirstAttempt
    BY <1>2, <2>1 DEF FirstAttempt
  <2>4. FirstAttempt' => ToldBefore' /\ (~exec'.fetched => exec'.snapshot = snapshot')
    BY <1>1, <1>2, <2>1, <2>2, <2>3 DEF FollowParts, ToldBefore
  <2>5. FollowParts'
    BY <1>2, <2>1, <2>2, <2>4 DEF FollowParts
  <2>6. QED
    BY <1>3, <2>1, <2>2, <2>5
<1>9. CASE \E k \in Claim : Verify(k)
  <2>1. /\ exec.at = "verify" /\ UNCHANGED <<item, request, latest, snapshot>>
        /\ builder["recheck"].at = "off" /\ request.status = "RUNNING"
    BY <1>1, <1>9 DEF Verify, ExecAgrees, AtWork
  <2>2. /\ exec'.at \in {"verify", "compare"} /\ exec'.verdict = exec.verdict
        /\ exec'.snapshot = exec.snapshot /\ exec'.fetched = exec.fetched
    BY <1>1, <1>9, <2>1 DEF Verify, Execution
  <2>3. FirstAttempt' => FirstAttempt
    BY <1>2, <2>1 DEF FirstAttempt
  <2>4. FirstAttempt' => ToldBefore' /\ (~exec'.fetched => exec'.snapshot = snapshot')
    BY <1>1, <1>2, <2>1, <2>2, <2>3 DEF FollowParts, ToldBefore
  <2>5. FollowParts'
    BY <1>2, <2>1, <2>2, <2>4 DEF FollowParts
  <2>6. QED
    BY <1>3, <2>1, <2>2, <2>5
<1>10. CASE Compare
  <2>1. /\ exec.at = "compare" /\ UNCHANGED <<item, request, latest, verdict, snapshot>>
        /\ builder["recheck"].at = "off" /\ request.status = "RUNNING"
    BY <1>1, <1>10 DEF Compare, evidence, ExecAgrees, AtWork
  <2>2. exec'.at = IF EvidenceChanged THEN "archive" ELSE "complete"
    BY <1>10 DEF Compare, NoExecution
  <2>3. FirstAttempt' => FirstAttempt
    BY <1>2, <2>1 DEF FirstAttempt
  <2>4. FirstAttempt' /\ exec'.at = "complete" => Fresh'
    <3> SUFFICES ASSUME FirstAttempt', exec'.at = "complete" PROVE Fresh'
      OBVIOUS
    <3>1. ToldBefore /\ (~exec.fetched => exec.snapshot = snapshot)
      BY <1>1, <2>1, <2>3 DEF FollowParts
    <3>2. exec.verdict = verdict /\ (exec.fetched => exec.snapshot = snapshot)
      BY <2>2 DEF EvidenceChanged
    <3>3. QED
      BY <1>4, <2>1, <3>1, <3>2 DEF ToldBefore
  <2>5. FollowParts'
    BY <1>2, <2>1, <2>2, <2>4 DEF FollowParts
  <2>6. QED
    BY <1>3, <2>1, <2>2, <2>5
<1>11. CASE Archive
  <2>1. /\ exec.at = "archive" /\ UNCHANGED <<item, request, verdict, snapshot>>
        /\ builder["recheck"].at = "off" /\ request.status = "RUNNING"
        /\ latest' = {report.content}
    BY <1>1, <1>11 DEF Archive, evidence, ExecAgrees, AtWork, Kept
  <2>2. exec'.at = "build"
    BY <1>1, <1>11 DEF Archive, Goes, Execution
  <2>3. Archives'
    BY <1>2, <2>1 DEF Archives
  <2>4. VersionParts'
    BY <1>1, <1>2, <2>3 DEF VersionParts
  <2>5. FollowParts'
    BY <1>2, <2>1, <2>2 DEF FollowParts
  <2>6. QED
    BY <2>4, <2>5
<1>12. CASE Version
  <2>1. /\ exec.at = "version" /\ UNCHANGED <<item, request, verdict, snapshot>>
        /\ builder["recheck"].at = "off" /\ request.status = "RUNNING"
    BY <1>1, <1>12 DEF Version, evidence, ExecAgrees, AtWork
  <2>2. exec'.at = "complete"
    BY <1>12 DEF Version, NoExecution
  <2>3. FirstAttempt' => FirstAttempt
    BY <1>2, <2>1 DEF FirstAttempt
  <2>4. FirstAttempt' => Fresh'
    BY <1>1, <1>4, <2>1, <2>3 DEF FollowParts, Fresh
  <2>5. VersionParts'
    BY <1>1, <1>2, <2>2 DEF VersionParts
  <2>6. FollowParts'
    BY <1>2, <2>1, <2>2, <2>4 DEF FollowParts
  <2>7. QED
    BY <2>5, <2>6
<1>13. CASE Complete
  <2>1. /\ exec.at = "complete" /\ UNCHANGED <<item, latest, verdict, snapshot>>
        /\ builder["recheck"].at = "off"
    BY <1>1, <1>13 DEF Complete, evidence, ExecAgrees
  <2>2. exec'.at = "exit"
    BY <1>13 DEF Complete, NoExecution
  <2>3. request'.fresh = request.fresh
    BY <1>1, <1>13 DEF Complete, RecheckRequest
  <2>4. FirstAttempt' => FirstAttempt
    BY <1>2, <2>1, <2>3 DEF FirstAttempt
  <2>5. FirstAttempt' => Fresh'
    BY <1>1, <1>4, <2>1, <2>4 DEF FollowParts, Fresh
  <2>6. FollowParts'
    BY <1>2, <2>1, <2>2, <2>5 DEF FollowParts
  <2>7. QED
    BY <1>3, <2>1, <2>2, <2>6
<1>14. CASE FinishWork
  <2>1. /\ exec.at = "exit" /\ exec'.at = "off" /\ UNCHANGED <<latest, verdict, snapshot>>
        /\ builder["recheck"].at = "off" /\ item.attempts > 0
        /\ item' = Finished(item, Outcome(item, exec.ok))
    BY <1>1, <1>14 DEF FinishWork, NoExecution, evidence, ExecAgrees
  <2>2. exec.ok \in BOOLEAN
    BY <1>1 DEF Execution
  <2>3. Outcome(item, exec.ok) \in {"SUCCEEDED", "RETRY", "FAILED"}
    BY <1>1, <2>2, RecheckOutcome DEF NoRequests
  <2>4. item'.attempts = item.attempts
    BY <1>1, <2>1, <2>3, RecheckFinished DEF NoRequests
  <2>5. request'.fresh = request.fresh /\ (request'.status = "COMPLETED" =>
                                             request.status = "COMPLETED")
    BY <1>1, <1>14 DEF FinishWork, RequestAfter, RecheckRequest
  <2>6. FirstAttempt' => FirstAttempt
    BY <1>2, <2>4, <2>5 DEF FirstAttempt
  <2>7. FirstAttempt' /\ request'.status = "COMPLETED" => Fresh'
    BY <1>1, <1>4, <2>1, <2>5, <2>6 DEF FollowParts, Fresh
  <2>8. FollowParts'
    BY <1>1, <1>2, <2>1, <2>4, <2>7 DEF FollowParts
  <2>9. QED
    BY <1>3, <2>1, <2>8
<1>15. QED
  BY <1>5, <1>6, <1>7, <1>8, <1>9, <1>10, <1>11, <1>12, <1>13, <1>14 DEF ExecAct

LEMMA FlowRest ==
  ASSUME FlowInv, (\E c \in Client : ClientAct(c)) \/ AskRecheck \/ Restarts \/ BuildEnds
  PROVE  VersionParts' /\ FollowParts'
<1>1. /\ item \in Item /\ request \in RecheckRequest /\ ExecAgrees
      /\ VersionParts /\ FollowParts /\ item.attempts \in Nat
      /\ builder \in [Builder -> BuilderState] /\ "recheck" \in Builder /\ "rebuild" \in Builder
  BY AttemptsAssumption DEF FlowInv, TypeInv, TypeOK, RecheckParts, Item, Builder
<1>2. CASE \E c \in Client : ClientAct(c)
  <2>1. UNCHANGED <<evidence, latest, item, request, exec, builder, rebuilt>>
    BY <1>2, ClientFrame DEF recheck, writing
  <2>2. report'.content = report.content
    BY <1>2, ClientTypes DEF FlowInv
  <2>3. QED
    BY <1>1, <2>1, <2>2, FlowKept
<1>3. CASE BuildEnds
  <2>1. UNCHANGED <<evidence, latest, item, request, exec, report, rebuilt>>
    BY <1>3 DEF BuildEnds, Stops, recheck, counts
  <2>2. builder'["rebuild"].at = "off" /\ builder'["recheck"] = builder["recheck"]
    BY <1>1, <1>3 DEF BuildEnds, Stops, NoBuilder
  <2>3. QED
    BY <1>1, <2>1, <2>2, FlowKept
<1>4. CASE AskRecheck
  <2>1. /\ UNCHANGED <<verdict, snapshot, report, builder, rebuilt, latest, exec>>
        /\ item.status # "LEASED" /\ request'.fresh = Fresh /\ request'.status = "QUEUED"
    BY <1>4 DEF AskRecheck, evidence, writing, ActiveStatus
  <2>2. exec.at = "off" /\ builder["recheck"].at = "off"
    BY <1>1, <2>1 DEF ExecAgrees
  <2>3. FirstAttempt' => Fresh'
    BY <2>1 DEF FirstAttempt, Fresh
  <2>4. VersionParts'
    BY <1>1, <2>1, <2>2 DEF VersionParts
  <2>5. FollowParts'
    BY <2>1, <2>2, <2>3 DEF FollowParts
  <2>6. QED
    BY <2>4, <2>5
<1>5. CASE Restarts
  <2>1. UNCHANGED <<verdict, snapshot, report, rebuilt, latest>>
    BY <1>5 DEF Restarts, Raises, Killed, WorkerLost, evidence, counts
  <2>2. builder'["recheck"].at = "off" /\ builder'["rebuild"] = builder["rebuild"]
    BY <1>1, <1>5 DEF Restarts, Raises, Killed, WorkerLost, Stops, NoBuilder
  <2>3. exec'.at \in {"off", "exit"} /\ exec.at # "off"
    BY <1>5 DEF Restarts, Raises, Killed, WorkerLost, Running, NoExecution
  <2>4. item'.attempts = item.attempts /\ item.attempts > 0
    BY <1>1, <1>5, <2>3 DEF Restarts, Raises, Killed, WorkerLost, Item, ExecAgrees
  <2>5. request'.fresh = request.fresh /\ (request'.status = "COMPLETED" =>
                                             request.status = "COMPLETED")
    BY <1>1, <1>5 DEF Restarts, Raises, Killed, WorkerLost, RecheckRequest
  <2>6. (FirstAttempt' => FirstAttempt) /\ (Fresh' <=> Fresh)
    BY <2>1, <2>4, <2>5 DEF FirstAttempt, Fresh
  <2>7. VersionParts'
    BY <1>1, <2>1, <2>2, <2>3 DEF VersionParts
  <2>8. FollowParts'
    BY <1>1, <2>2, <2>3, <2>4, <2>5, <2>6 DEF FollowParts
  <2>9. QED
    BY <2>7, <2>8
<1>6. QED
  BY <1>2, <1>3, <1>4, <1>5

LEMMA FlowStep == FlowInv /\ [Next]_vars => VersionParts' /\ FollowParts'
<1> SUFFICES ASSUME FlowInv, [Next]_vars PROVE VersionParts' /\ FollowParts'
  OBVIOUS
<1>1. CASE Next
  BY <1>1, NextKinds, FlowBuilder, FlowExec, FlowRest
<1>2. CASE UNCHANGED vars
  <2>1. UNCHANGED <<evidence, latest, item, request, exec, report, builder, rebuilt>>
    BY <1>2 DEF vars, recheck, writing, counts
  <2>2. QED
    BY <2>1, FlowKept DEF FlowInv
<1>3. QED
  BY <1>1, <1>2

LEMMA FlowInvariant == Spec => []FlowInv
<1>1. Init => FlowInv
  BY TypeInit, RecheckInit, FlowInit DEF FlowInv
<1>2. FlowInv /\ [Next]_vars => FlowInv'
  BY TypeStep, RecheckStep, FlowStep DEF FlowInv
<1>3. QED
  BY <1>1, <1>2, PTL DEF Spec

\* rechecks.py archives the report before it asks the writer for a new one: as
\* long as no operator rebuilt it, what the writer replaces is in a version.
THEOREM ReplacedIsArchived == Spec => ArchivedFirst
<1> DEFINE First == builder["recheck"].at = "store" /\ report' # report /\ ~rebuilt =>
                       report.content \in latest
<1>1. FlowInv => First
  BY DEF FlowInv, RecheckParts, ExecAgrees, VersionParts, Archives
<1>2. FlowInv /\ [Next]_vars => [First]_vars
  BY <1>1
<1>3. QED
  BY FlowInvariant, <1>2, PTL DEF Spec, ArchivedFirst

\* A report that told the evidence keeps telling it: either the recheck finds
\* nothing changed, or it rebuilt the report before it completes the request.
THEOREM FollowsEvidence == Spec => []ReportFollows
<1>1. FlowInv => ReportFollows
  BY DEF FlowInv, FollowParts, FirstAttempt, ReportFollows
<1>2. QED
  BY FlowInvariant, <1>1, PTL
=============================================================================
