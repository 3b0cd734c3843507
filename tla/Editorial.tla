------------------------------ MODULE Editorial ------------------------------
(***************************************************************************)
(* What happens to a finished run's claims and report: human review of     *)
(* claims and of the report, publication (app/operations.py with           *)
(* record_claim_review and record_report_review), the recheck of a source  *)
(* and the claims drawn from it by a worker's subprocess (app/rechecks.py, *)
(* work items of kind "recheck_claim"), and the writer that rebuilds the   *)
(* report for a recheck or for "ops rebuild-report" (app/agents/writer.py).*)
(*                                                                         *)
(* The claims modelled are those of one source: a recheck treats all of    *)
(* them.  A report's content stands for its text and its hash; two reports *)
(* have one content when they cite the same claims on the same evidence.   *)
(* A review that rejects a claim and one that asks for more research are   *)
(* one decision here, TURNED_DOWN: no reader tells them apart.             *)
(*                                                                         *)
(* Reviews and publications take no lock: a read and a later commit.       *)
(* Whatever a recheck or a rebuild commits may come in between; Overlap    *)
(* says whether another reviewer's request may.  Two publications at once, *)
(* which share published.md.tmp and published.json.tmp, are not followed.  *)
(* Executions of the recheck do not overlap: a worker that is killed takes *)
(* its subprocess along (orphans are RunLifecycle's subject), and the run  *)
(* itself is not executed again meanwhile.                                 *)
(***************************************************************************)
EXTENDS WorkItem

CONSTANTS
    Claim,          \* claims of the source
    Client,         \* reviewers' requests under way at the same time
    Overlap,        \* may reviewers' requests overlap with one another?
    Budgets         \* bound: how many reviewers' requests, rechecks, rebuilds and
                    \* new contents of the page meet in a behaviour, and whether
                    \* executions may fail in it

ASSUME OverlapAssumption == Overlap \in BOOLEAN
Budget ==
    [decisions : Nat, rechecks : Nat, rebuilds : Nat, pages : Nat, mortal : BOOLEAN]

ASSUME BoundsAssumption == Budgets \subseteq Budget

VARIABLES
    review,      \* claims.review_status
    verdict,     \* claims.status and the verification row, written together
    snapshot,    \* the page content the claims are linked to
    report,      \* the row of research_reports
    files,       \* report.md and report.json
    tmp,         \* report.md.tmp and report.json.tmp, which writers share
    published,   \* published.md and published.json
    latest,      \* the latest of the report's archived versions, if any
    client,      \* client[c]: what c's open request has loaded
    builder,     \* builder[b]: a run of writer_node
    item,        \* the row of work_items of kind "recheck_claim"
    request,     \* the claim_recheck_requests row the item stands for
    exec,        \* the subprocess of the item
    approved,    \* what a reviewer approved since the report was stored (history)
    overtaken,   \* approved or published by a request that had loaded the
                 \* report before the present one was stored (history)
    rebuilt,     \* has an operator rebuilt the report? (history)
    left         \* what is left of the budget

human == <<review, published, client, approved, overtaken>>
evidence == <<verdict, snapshot>>
writing == <<files, tmp, builder>>
recheck == <<item, request, exec>>
counts == <<rebuilt, left>>
vars == <<human, evidence, report, writing, latest, recheck, counts>>

\* Accepted by the writer; turned down and to be told; turned down.
Verdict == {"SUPPORTED", "CONTRADICTED", "UNSUPPORTED"}
ReviewStatus == {"PENDING", "APPROVED", "TURNED_DOWN"}
ReportStatus == {"PENDING", "APPROVED", "REJECTED", "PUBLISHED"}
Gate == {"APPROVED", "PUBLISHED"}
RecheckStatus == {"QUEUED", "RUNNING", "COMPLETED", "FAILED"}
Page == Nat

\* cites: the claims among the report's sources.
Content == [cites : SUBSET Claim, verdict : [Claim -> Verdict], snapshot : Page]
NoContent == [cites |-> {}, verdict |-> [k \in Claim |-> "UNSUPPORTED"], snapshot |-> 0]
FilePair == [md : Content, json : Content]
\* Empty: no such file.
TmpPair == [md : SUBSET Content, json : SUBSET Content]
NoTmp == [md |-> {}, json |-> {}]

ClientPhase == {"idle", "claim", "report", "load", "check", "md", "json", "publish"}
\* late: a new report was stored since the request loaded the row (history).
ClientState ==
    [at : ClientPhase, claim : SUBSET Claim, decision : ReviewStatus \union ReportStatus,
     review : ReviewStatus, status : ReportStatus, content : Content, late : BOOLEAN]
Idle ==
    [at |-> "idle", claim |-> {}, decision |-> "PENDING", review |-> "PENDING",
     status |-> "PENDING", content |-> NoContent, late |-> FALSE]

Builder == {"recheck", "rebuild"}
BuilderPhase == {"off", "mdtmp", "jsontmp", "md", "json", "store"}
BuilderState == [at : BuilderPhase, draft : Content]
NoBuilder == [at |-> "off", draft |-> NoContent]

\* fresh: when the recheck was asked for, the report told the evidence of that
\* moment (history).
RecheckRequest == [status : RecheckStatus, fresh : BOOLEAN]

ExecPhase == {"off", "begin", "originals", "fetch", "verify", "compare", "archive",
              "build", "version", "complete", "exit"}
Execution ==
    [at : ExecPhase, ok : BOOLEAN, fetched : BOOLEAN, todo : SUBSET Claim,
     verdict : [Claim -> Verdict], snapshot : Page, report : Content]
NoExecution ==
    [at |-> "off", ok |-> FALSE, fetched |-> FALSE, todo |-> {},
     verdict |-> NoContent.verdict, snapshot |-> 0, report |-> NoContent]

TypeOK ==
    /\ review \in [Claim -> ReviewStatus]
    /\ verdict \in [Claim -> Verdict]
    /\ snapshot \in Page
    /\ report \in [content : Content, status : ReportStatus]
    /\ files \in FilePair
    /\ tmp \in TmpPair
    /\ published \in FilePair
    /\ latest \in SUBSET Content
    /\ client \in [Client -> ClientState]
    /\ builder \in [Builder -> BuilderState]
    /\ item \in Item
    /\ request \in RecheckRequest
    /\ exec \in Execution
    /\ approved \in Content
    /\ overtaken \in BOOLEAN
    /\ rebuilt \in BOOLEAN
    /\ left \in Budget

Accepted == {k \in Claim : verdict[k] = "SUPPORTED" /\ review[k] # "TURNED_DOWN"}
Contradicted == {k \in Claim : verdict[k] = "CONTRADICTED"}

\* What a draft that validate_writer_draft accepts may cite: accepted claims in
\* the report itself, some of them if there are any; and turned down ones as
\* contradictions, every contradicted claim among them.  A report without
\* accepted claims is written without the model.
ValidCitations ==
    {main \union others :
        main \in {m \in SUBSET Accepted : m = {} => Accepted = {}},
        others \in {o \in SUBSET (Claim \ Accepted) :
                      /\ Contradicted \ Accepted \subseteq o
                      /\ Accepted = {} => o = Contradicted}}

Drafts ==
    {[cites |-> cites, verdict |-> verdict, snapshot |-> snapshot] :
        cites \in ValidCitations}

\* A completed run: its writer stored a report, some claims were approved
\* already.  The source's last recheck, if any, changed nothing.
Init ==
    /\ review \in [Claim -> {"PENDING", "APPROVED"}]
    /\ verdict \in [Claim -> Verdict]
    /\ snapshot = 0
    /\ \E content \in Drafts :
          /\ report = [content |-> content, status |-> "PENDING"]
          /\ files = [md |-> content, json |-> content]
    /\ tmp = NoTmp
    /\ published = [md |-> NoContent, json |-> NoContent]
    /\ latest = {}
    /\ client = [c \in Client |-> Idle]
    /\ builder = [b \in Builder |-> NoBuilder]
    /\ item = [NewItem EXCEPT !.status = "SUCCEEDED"]
    /\ request = [status |-> "COMPLETED", fresh |-> TRUE]
    /\ exec = NoExecution
    /\ approved = NoContent
    /\ overtaken = FALSE
    /\ rebuilt = FALSE
    /\ left \in Budgets

Spend(kind) == left[kind] > 0 /\ left' = [left EXCEPT ![kind] = @ - 1]

\* Of a reviewer's request.
MayBegin == Overlap \/ \A c \in Client : client[c].at = "idle"

-----------------------------------------------------------------------------
(* Reviewers.                                                              *)

Opens(c, state) ==
    /\ MayBegin
    /\ client[c].at = "idle"
    /\ Spend("decisions")
    /\ client' = [client EXCEPT ![c] = state]

Closes(c) == client' = [client EXCEPT ![c] = Idle]

\* record_claim_review loads the claim and the report ...
ReviewClaim(c, k, decision) ==
    /\ Opens(c, [Idle EXCEPT !.at = "claim", !.claim = {k}, !.decision = decision,
                             !.review = review[k], !.status = report.status])
    /\ UNCHANGED <<review, published, approved, overtaken, evidence, report, writing,
                   latest, recheck, rebuilt>>

\* ... and commits the decision, taking back what was said of the report.
StatusAfterReviewVariantKeeps == report.status
StatusAfterReview == "PENDING"

CommitClaim(c) ==
    LET q == client[c]
    IN  /\ q.at = "claim"
        /\ review' = [k \in Claim |-> IF k \in q.claim
                                      THEN Column(review[k], q.review, q.decision)
                                      ELSE review[k]]
        /\ report' = [report EXCEPT !.status = Column(@, q.status, StatusAfterReview)]
        /\ Closes(c)
        /\ UNCHANGED <<published, approved, overtaken, evidence, writing,
                       latest, recheck, counts>>

\* An approval needs the approval of every claim the report refers to.
Approvable == \A k \in report.content.cites : review[k] = "APPROVED"

ReviewReport(c, decision) ==
    /\ decision = "APPROVED" => Approvable
    /\ Opens(c, [Idle EXCEPT !.at = "report", !.decision = decision,
                             !.status = report.status, !.content = report.content])
    /\ UNCHANGED <<review, published, approved, overtaken, evidence, report, writing,
                   latest, recheck, rebuilt>>

CommitReport(c) ==
    LET q == client[c]
    IN  /\ q.at = "report"
        /\ report' = [report EXCEPT !.status = Column(@, q.status, q.decision)]
        /\ approved' = IF q.decision = "APPROVED" THEN q.content ELSE approved
        /\ overtaken' = (q.late /\ report'.status \in Gate)
        /\ Closes(c)
        /\ UNCHANGED <<review, published, evidence, writing, latest, recheck, counts>>

\* publish_report loads the report, and reads each file, whose hash must be the
\* row's; what it copies is what it read.
HashMatchesVariantAny(bytes, content) == TRUE
HashMatches(bytes, content) == bytes = content

Publish(c) ==
    /\ report.status \in Gate
    /\ Opens(c, [Idle EXCEPT !.at = "load", !.status = report.status,
                             !.content = report.content])
    /\ UNCHANGED <<review, published, approved, overtaken, evidence, report, writing,
                   latest, recheck, rebuilt>>

PublishRead(c) ==
    /\ client[c].at = "load"
    /\ IF HashMatches(files.md, client[c].content)
       THEN client' = [client EXCEPT ![c] = [@ EXCEPT !.at = "check", !.content = files.md]]
       ELSE Closes(c)
    /\ UNCHANGED <<review, published, approved, overtaken, evidence, report,
                   writing, latest, recheck, counts>>

PublishCheck(c) ==
    /\ client[c].at = "check"
    /\ IF HashMatches(files.json, client[c].content)
       THEN client' = [client EXCEPT ![c].at = "md"]
       ELSE Closes(c)
    /\ UNCHANGED <<review, published, approved, overtaken, evidence, report,
                   writing, latest, recheck, counts>>

PublishMd(c) ==
    /\ client[c].at = "md"
    /\ published' = [published EXCEPT !.md = client[c].content]
    /\ client' = [client EXCEPT ![c].at = "json"]
    /\ UNCHANGED <<review, approved, overtaken, evidence, report, writing,
                   latest, recheck, counts>>

PublishJson(c) ==
    /\ client[c].at = "json"
    /\ published' = [published EXCEPT !.json = client[c].content]
    /\ client' = [client EXCEPT ![c] = [@ EXCEPT !.at = "publish", !.content = NoContent]]
    /\ UNCHANGED <<review, approved, overtaken, evidence, report, writing,
                   latest, recheck, counts>>

\* record_report_review checks the gate again, on the row loaded before.
CommitPublish(c) ==
    LET q == client[c]
    IN  /\ q.at = "publish"
        /\ report' = [report EXCEPT !.status = Column(@, q.status, "PUBLISHED")]
        /\ overtaken' = (overtaken \/ (q.late /\ report'.status \in Gate))
        /\ Closes(c)
        /\ UNCHANGED <<review, published, approved, evidence, writing, latest,
                       recheck, counts>>

\* The request's process dies: the transaction is lost, the files stay.
Interrupted(c) ==
    /\ client[c].at # "idle"
    /\ Closes(c)
    /\ UNCHANGED <<review, published, approved, overtaken, evidence, report,
                   writing, latest, recheck, counts>>

-----------------------------------------------------------------------------
(* writer_node.                                                            *)

BuildRead(b) ==
    /\ builder[b].at = "off"
    /\ \/ b = "recheck" /\ exec.at = "build" /\ UNCHANGED counts
       \/ b = "rebuild" /\ Spend("rebuilds") /\ rebuilt' = TRUE
    /\ \E draft \in Drafts :
          builder' = [builder EXCEPT ![b] = [at |-> "mdtmp", draft |-> draft]]
    /\ UNCHANGED <<human, evidence, report, files, tmp, latest, recheck>>

\* Both files are written beside the old ones first, under names that another
\* writer of the report uses as well, ...
BuildMdTmp(b) ==
    /\ builder[b].at = "mdtmp"
    /\ tmp' = [tmp EXCEPT !.md = {builder[b].draft}]
    /\ builder' = [builder EXCEPT ![b].at = "jsontmp"]
    /\ UNCHANGED <<human, evidence, report, files, latest, recheck, counts>>

BuildJsonTmp(b) ==
    /\ builder[b].at = "jsontmp"
    /\ tmp' = [tmp EXCEPT !.json = {builder[b].draft}]
    /\ builder' = [builder EXCEPT ![b].at = "md"]
    /\ UNCHANGED <<human, evidence, report, files, latest, recheck, counts>>

\* ... and then renamed, whoever wrote them last.  (A file that is still being
\* written when it is renamed has no stored hash either: it counts as another's.)
BuildMd(b) ==
    /\ builder[b].at = "md"
    /\ \E text \in tmp.md : files' = [files EXCEPT !.md = text]
    /\ tmp' = [tmp EXCEPT !.md = {}]
    /\ builder' = [builder EXCEPT ![b].at = "json"]
    /\ UNCHANGED <<human, evidence, report, latest, recheck, counts>>

BuildJson(b) ==
    /\ builder[b].at = "json"
    /\ \E text \in tmp.json : files' = [files EXCEPT !.json = text]
    /\ tmp' = [tmp EXCEPT !.json = {}]
    /\ builder' = [builder EXCEPT ![b].at = "store"]
    /\ UNCHANGED <<human, evidence, report, latest, recheck, counts>>

\* Renamed by the other writer: this one raises (BuildEnds, BuildRaises).
Missing(b) ==
    \/ builder[b].at = "md" /\ tmp.md = {}
    \/ builder[b].at = "json" /\ tmp.json = {}

\* upsert_research_report: whatever was stored, the new report is unreviewed.
BuildStore(b) ==
    /\ builder[b].at = "store"
    /\ report' = [content |-> builder[b].draft, status |-> "PENDING"]
    /\ builder' = [builder EXCEPT ![b] = NoBuilder]
    /\ exec' = IF b = "recheck" THEN [exec EXCEPT !.at = "version"] ELSE exec
    /\ client' = [c \in Client |-> [client[c] EXCEPT !.late = client[c].at # "idle"]]
    /\ approved' = NoContent /\ overtaken' = FALSE
    /\ UNCHANGED <<review, published, evidence, files, tmp, latest, item, request,
                   counts>>

\* A writer ends early.  What it leaves beside the report's files matters to the
\* other writer only: a later one writes them again before it renames them.
Stops(b) ==
    /\ builder' = [builder EXCEPT ![b] = NoBuilder]
    /\ tmp' = IF \A d \in Builder \ {b} : builder[d].at = "off" THEN NoTmp ELSE tmp

\* The operator's process: the model fails, a limit is reached, a file is missing.
BuildEnds ==
    /\ builder["rebuild"].at # "off"
    /\ Stops("rebuild")
    /\ UNCHANGED <<human, evidence, report, files, latest, recheck, counts>>

-----------------------------------------------------------------------------
(* Rechecks.                                                               *)

Fresh == report.content.verdict = verdict /\ report.content.snapshot = snapshot

\* request_claim_recheck and enqueue_claim_recheck.
AskRecheck ==
    /\ Spend("rechecks")
    /\ item.status \notin ActiveStatus
    /\ item' = NewItem
    /\ request' = [status |-> "QUEUED", fresh |-> Fresh]
    /\ UNCHANGED <<human, evidence, report, writing, latest, exec, rebuilt>>

\* A worker claims the item and starts the subprocess.
Take(w) ==
    /\ exec.at = "off"
    /\ Claimable(item)
    /\ item' = Claimed(item, w)
    /\ exec' = [NoExecution EXCEPT !.at = "begin"]
    /\ UNCHANGED <<human, evidence, report, writing, latest, request, counts>>

Goes(phase) == exec' = [exec EXCEPT !.at = phase]

\* A request completed by an earlier attempt is not executed again.
AlreadyVariantNever == FALSE
Already == request.status = "COMPLETED"

Begin ==
    /\ exec.at = "begin"
    /\ IF Already
       THEN /\ exec' = [exec EXCEPT !.at = "exit", !.ok = TRUE]
            /\ UNCHANGED request
       ELSE /\ Goes("originals")
            /\ request' = [request EXCEPT !.status = "RUNNING"]
    /\ UNCHANGED <<human, evidence, report, writing, latest, item, counts>>

\* What the recheck compares its results with, as this attempt finds it.
Originals ==
    /\ exec.at = "originals"
    /\ exec' = [exec EXCEPT !.at = "fetch", !.todo = Claim, !.verdict = verdict,
                            !.snapshot = snapshot, !.report = report.content]
    /\ UNCHANGED <<human, evidence, report, writing, latest, item, request, counts>>

\* The page is fetched, stored, and every claim of the source linked to it.
Fetch(page) ==
    /\ exec.at = "fetch"
    /\ snapshot' = page
    /\ exec' = [exec EXCEPT !.at = "verify", !.fetched = TRUE]
    /\ UNCHANGED <<human, verdict, report, writing, latest, item, request, counts>>

FetchFails ==
    /\ exec.at = "fetch"
    /\ Goes("verify")
    /\ UNCHANGED <<human, evidence, report, writing, latest, item, request, counts>>

\* The claims of an unavailable page are unsupported without asking a verifier.
Verify(k) ==
    /\ exec.at = "verify"
    /\ k \in exec.todo
    /\ \E v \in (IF exec.fetched THEN Verdict ELSE {"UNSUPPORTED"}) :
          verdict' = [verdict EXCEPT ![k] = v]
    /\ exec' = [exec EXCEPT !.todo = @ \ {k},
                            !.at = IF exec.todo = {k} THEN "compare" ELSE @]
    /\ UNCHANGED <<human, snapshot, report, writing, latest, item, request, counts>>

EvidenceChangedVariantVerdict == exec.verdict # verdict
EvidenceChanged ==
    exec.verdict # verdict \/ (exec.fetched /\ exec.snapshot # snapshot)

Compare ==
    /\ exec.at = "compare"
    /\ exec' = [NoExecution EXCEPT !.at = IF EvidenceChanged THEN "archive" ELSE "complete",
                                    !.report = exec.report]
    /\ UNCHANGED <<human, evidence, report, writing, latest, item, request, counts>>

\* snapshot_research_report_version: a new row, unless the latest tells the same.
KeptVariantNothing == latest
Kept == {report.content}

Archive ==
    /\ exec.at = "archive"
    /\ latest' = Kept
    /\ Goes("build")
    /\ UNCHANGED <<human, evidence, report, writing, item, request, counts>>

Version ==
    /\ exec.at = "version"
    /\ latest' = IF report.content # exec.report THEN Kept ELSE latest
    /\ exec' = [NoExecution EXCEPT !.at = "complete"]
    /\ UNCHANGED <<human, evidence, report, writing, item, request, counts>>

Complete ==
    /\ exec.at = "complete"
    /\ request' = [request EXCEPT !.status = "COMPLETED"]
    /\ exec' = [NoExecution EXCEPT !.at = "exit", !.ok = TRUE]
    /\ UNCHANGED <<human, evidence, report, writing, latest, item, counts>>

\* An exception: the request waits for the next attempt, even one that is completed
\* already, when the row cannot be read again after the last commit.
Running == exec.at # "off" /\ (exec.at = "exit" => exec.ok)

Raises ==
    /\ Running
    /\ request' = [request EXCEPT !.status = "QUEUED"]
    /\ exec' = [NoExecution EXCEPT !.at = "exit"]
    /\ Stops("recheck")
    /\ UNCHANGED <<human, evidence, report, files, latest, item, counts>>

Raise == left.mortal /\ Raises

BuildRaises == Missing("recheck") /\ Raises

\* The process is killed, even between its last commit and its exit.
Killed ==
    /\ left.mortal
    /\ Running
    /\ exec' = [NoExecution EXCEPT !.at = "exit"]
    /\ Stops("recheck")
    /\ UNCHANGED <<human, evidence, report, files, latest, item, request, counts>>

\* Its worker is killed too: only the lease's end is noticed, by another worker.
WorkerLost ==
    /\ left.mortal
    /\ exec.at # "off"
    /\ exec' = NoExecution
    /\ item' = [item EXCEPT !.expired = TRUE]
    /\ Stops("recheck")
    /\ UNCHANGED <<human, evidence, report, files, latest, request, counts>>

\* finish_work for an item of kind "recheck_claim".
RequestAfterVariantKeeps(outcome) == request
RequestAfter(outcome) ==
    IF outcome = "FAILED" THEN [request EXCEPT !.status = "FAILED"] ELSE request

FinishWork ==
    /\ exec.at = "exit"
    /\ item' = Finished(item, Outcome(item, exec.ok))
    /\ request' = RequestAfter(Outcome(item, exec.ok))
    /\ exec' = NoExecution
    /\ UNCHANGED <<human, evidence, report, writing, latest, counts>>

-----------------------------------------------------------------------------
ClientStep(c) ==
    \/ CommitClaim(c) \/ CommitReport(c)
    \/ PublishRead(c) \/ PublishCheck(c) \/ PublishMd(c) \/ PublishJson(c)
    \/ CommitPublish(c)

ExecStep ==
    \/ \E w \in Worker : Take(w)
    \/ Begin \/ Originals \/ FetchFails \/ \E page \in 0..left.pages : Fetch(page)
    \/ \E k \in Claim : Verify(k)
    \/ Compare \/ Archive
    \/ BuildRead("recheck") \/ BuildMdTmp("recheck") \/ BuildJsonTmp("recheck")
    \/ BuildMd("recheck") \/ BuildJson("recheck") \/ BuildStore("recheck") \/ BuildRaises
    \/ Version \/ Complete \/ FinishWork

Next ==
    \/ \E c \in Client :
          \/ \E k \in Claim, decision \in {"APPROVED", "TURNED_DOWN"} :
                ReviewClaim(c, k, decision)
          \/ \E decision \in {"APPROVED", "REJECTED"} : ReviewReport(c, decision)
          \/ Publish(c) \/ Interrupted(c) \/ ClientStep(c)
    \/ AskRecheck
    \/ ExecStep
    \/ Raise \/ Killed \/ WorkerLost
    \/ BuildRead("rebuild") \/ BuildMdTmp("rebuild") \/ BuildJsonTmp("rebuild")
    \/ BuildMd("rebuild") \/ BuildJson("rebuild") \/ BuildStore("rebuild") \/ BuildEnds

Spec == Init /\ [][Next]_vars

\* A worker's subprocess goes on: each of its calls is bounded in time.
FairSpec == Spec /\ WF_vars(ExecStep)

-----------------------------------------------------------------------------
\* README.md:230-231: publication is blocked until the report and every claim
\* it uses were approved.  Kept through reviews, rebuilds and rechecks that
\* commit at any moment of a review or a publication, whatever dies in the
\* middle, as long as reviewers' requests do not overlap; but for the report
\* stored while an approval or a publication of the one before it was under way,
\* which takes its status without having been approved (operations.py:174).
PublicationGate ==
    report.status \in Gate /\ ~overtaken =>
        /\ report.content = approved
        /\ \A k \in report.content.cites : review[k] = "APPROVED"

\* A report marked as published is the one in both published files, although
\* the writer replaces report.md and report.json before their row, two writers
\* may mix their files, and each file is read and copied by itself.  Again but
\* for a report stored while another one was being published: it is marked, and
\* the published files are its predecessor's.
PublishedWhole ==
    report.status = "PUBLISHED" /\ ~overtaken =>
        published = [md |-> report.content, json |-> report.content]

\* A recheck replaces a report only when it is in the latest version (an operator
\* who rebuilds the report keeps none).
ArchivedFirst ==
    [][builder["recheck"].at = "store" /\ report' # report /\ ~rebuilt =>
          report.content \in latest]_vars

\* As long as a recheck is completed its evidence is final: no later attempt,
\* after a crash between the commit and the exit, fetches or verifies again.
\* (An exception after that commit puts the request back, and finish_work of a
\* last attempt may fail it: it is no longer completed then.)
CompletedOnce ==
    [][request.status = "COMPLETED" =>
          UNCHANGED evidence /\ request'.status # "RUNNING"]_vars

\* The request tells how its work item ended; the dashboard only reads the
\* request.
RecheckEndAgrees ==
    /\ item.status = "SUCCEEDED" => request.status = "COMPLETED"
    /\ item.status = "FAILED" => request.status = "FAILED"

\* A report that told the evidence when a recheck was asked for tells it again
\* once the recheck is completed by its first attempt and nobody else rebuilds.
ReportFollows ==
    request.status = "COMPLETED" /\ request.fresh /\ item.attempts <= 1 /\ ~rebuilt
        => Fresh

\* Every recheck ends, unless its worker was lost in the last attempt.
RecheckSettles ==
    item.status \in ActiveStatus
        ~> \/ item.status \in TerminalStatus
           \/ item.status = "LEASED" /\ item.expired /\ item.attempts = MaxAttempts

-----------------------------------------------------------------------------
\* docs/research-pipeline-roadmap.md:269: a rejected claim is left out of the
\* next version of the report.
RejectedExcluded ==
    [][\A b \in Builder :
          builder[b].at = "off" /\ builder'[b].at # "off" =>
              \A k \in builder'[b].draft.cites : review[k] # "TURNED_DOWN"]_vars
=============================================================================
