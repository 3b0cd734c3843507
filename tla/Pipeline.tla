------------------------------ MODULE Pipeline ------------------------------
(***************************************************************************)
(* One research run as its subprocess executes it: the LangGraph pipeline  *)
(* planner -> researchers -> research_join -> verifiers -> writer          *)
(* (app/graph.py, app/agents) over the evidence ledger in PostgreSQL       *)
(* (app/db/repositories.py), the page files (app/source_store.py) and the  *)
(* run's limits (app/budget.py).                                           *)
(*                                                                         *)
(* Each commit of the code is a step.  An execution may be killed at any   *)
(* step and be started again; two overlap when a worker lost its lease but *)
(* its subprocess runs on (RunLifecycle), and "overlapped" records that.   *)
(*                                                                         *)
(* What a model or the web answers is any of the answers that pass the     *)
(* code's validation, or a failure, retries included.  Of the limits,      *)
(* requests stand for tokens and run time too: the same transaction checks *)
(* the three and the same exception leaves it.  A graph thread's           *)
(* checkpoint adds no claim to those of the completed tasks.               *)
(***************************************************************************)
EXTENDS Naturals, FiniteSets

CONSTANTS
    Process,         \* executions of the run
    Task,            \* rows of research_tasks that may come to exist
    Page,            \* web pages: a source, its snapshot and its file
    Text,            \* statements a researcher may draw from a page
    MaxRequests,     \* max_external_requests
    MaxSources,      \* max_sources
    MaxClaims,       \* max_claims
    MaxResearchers,  \* max_parallel_researchers
    MaxVerifiers,    \* max_parallel_verifiers
    MaxStarts        \* bound: executions started

ASSUME LimitsAssumption ==
    {MaxRequests, MaxSources, MaxClaims, MaxStarts} \subseteq Nat
ASSUME ParallelAssumption == {MaxResearchers, MaxVerifiers} \subseteq Nat \ {0}

VARIABLES
    task,        \* task[t]: its status, or "absent"
    output,      \* output[t]: claim_ids of a completed task
    claims,      \* rows of the claims table
    verdict,     \* verdict[id]: the claim's status and its verification row
    file,        \* file[u]: data/runs/<run>/sources/<hash>.txt
    reopened,    \* pages whose file was opened for writing again (history)
    sources,     \* pages with a source row
    stored,      \* pages with a snapshot row
    used,        \* external_requests_used
    files,       \* what report.md and report.json hold
    report,      \* the row of research_reports
    status,      \* research_runs.status as the executions leave it
    proc,        \* proc[p]: the graph state of execution p
    res,         \* res[p][t]: the researcher of task t in execution p
    starts,      \* executions started so far
    overlapped   \* two executions have been alive at once (history)

vars == <<task, output, claims, verdict, file, reopened, sources, stored, used, files,
          report, status, proc, res, starts, overlapped>>

ledger == <<claims, verdict, sources, stored>>
disk == <<file, reopened>>
history == <<starts, overlapped>>

ClaimId == 1..MaxClaims
Finding == Page \X Text
ClaimRow == [id : ClaimId, task : Task, page : Page, text : Text]
TaskStatus == {"absent", "PENDING", "RUNNING", "COMPLETED", "FAILED"}
Verdict == {"SUPPORTED", "CONTRADICTED"}      \* accepted by the writer, or not
FinalStatus == {"COMPLETED", "COMPLETED_WITH_ERRORS", "FAILED"}

\* main: claims cited in the report's own statements; seen: every claim whose
\* verdict the writer was given.
Report == [main : SUBSET ClaimId, seen : SUBSET ClaimId]
NoReport == [main |-> {}, seen |-> {}]

ProcessPhase == {"off", "plan", "create", "research", "verify", "write", "files",
                 "final", "done"}
Execution ==
    [at : ProcessPhase, early : BOOLEAN, todo : SUBSET Task,
     ids : SUBSET ClaimId,         \* claim_ids of the graph state
     pending : SUBSET ClaimId,     \* claims to verify
     checking : SUBSET ClaimId,    \* claims a verifier works on
     packet : Report]              \* main: accepted claims

ResearchPhase == {"off", "queued", "search", "fetch", "open", "save", "store", "link",
                  "persist", "insert", "done"}
Researcher ==
    [at : ResearchPhase, urls : SUBSET Page, page : SUBSET Page, got : SUBSET Page,
     todo : SUBSET Finding, finding : SUBSET Finding, ids : SUBSET ClaimId]

NoExecution == [at |-> "off", early |-> FALSE, todo |-> {}, ids |-> {},
                pending |-> {}, checking |-> {}, packet |-> NoReport]
NoResearcher == [at |-> "off", urls |-> {}, page |-> {}, got |-> {}, todo |-> {},
                 finding |-> {}, ids |-> {}]

TypeOK ==
    /\ task \in [Task -> TaskStatus]
    /\ output \in [Task -> SUBSET ClaimId]
    /\ claims \subseteq ClaimRow
    /\ verdict \in [ClaimId -> Verdict \union {"UNVERIFIED"}]
    /\ file \in [Page -> {"none", "torn", "whole"}]
    /\ reopened \subseteq Page
    /\ sources \subseteq Page /\ Cardinality(sources) <= MaxSources
    /\ stored \subseteq Page
    /\ used \in 0..MaxRequests
    /\ files \in Report /\ report \in Report
    /\ status \in FinalStatus \union {"CREATED"}
    /\ proc \in [Process -> Execution]
    /\ res \in [Process -> [Task -> Researcher]]
    /\ starts \in 0..MaxStarts
    /\ overlapped \in BOOLEAN

Init ==
    /\ task = [t \in Task |-> "absent"]
    /\ output = [t \in Task |-> {}]
    /\ claims = {}
    /\ verdict = [c \in ClaimId |-> "UNVERIFIED"]
    /\ file = [u \in Page |-> "none"]
    /\ reopened = {}
    /\ sources = {}
    /\ stored = {}
    /\ used = 0
    /\ files = NoReport
    /\ report = NoReport
    /\ status = "CREATED"
    /\ proc = [p \in Process |-> NoExecution]
    /\ res = [p \in Process |-> [t \in Task |-> NoResearcher]]
    /\ starts = 0
    /\ overlapped = FALSE

Running(p) == proc[p].at \notin {"off", "done"}

\* consume_run_budget for one external call: taken under the run's row lock.
SpendVariantLate == used <= MaxRequests /\ used' = used + 1
Spend == used < MaxRequests /\ used' = used + 1
LimitReached == used >= MaxRequests /\ UNCHANGED used

Goes(p, execution) == proc' = [proc EXCEPT ![p] = execution]

-----------------------------------------------------------------------------
(* The execution as a whole.                                               *)

Completed == {t \in Task : task[t] = "COMPLETED"}

Active(p) == {t \in Task : res[p][t].at \notin {"off", "queued", "done"}}

\* A report pass is only asked for once some task is completed.
Start(p, early) ==
    /\ ~Running(p)
    /\ starts < MaxStarts
    /\ early => Completed # {}
    /\ starts' = starts + 1
    /\ overlapped' = (overlapped \/ \E q \in Process : Running(q))
    /\ Goes(p, [NoExecution EXCEPT !.at = "plan", !.early = early])
    /\ res' = [res EXCEPT ![p] = [t \in Task |-> NoResearcher]]
    /\ UNCHANGED <<task, output, ledger, disk, used, files, report, status>>

\* Killed by its worker (pause, cancellation, lost lease) or by the system.
Kill(p) ==
    /\ Running(p)
    /\ Goes(p, NoExecution)
    /\ res' = [res EXCEPT ![p] = [t \in Task |-> NoResearcher]]
    /\ UNCHANGED <<task, output, ledger, disk, used, files, report, status, history>>

\* An exception nothing in the graph catches ends the execution, once the other
\* researchers or verifiers have returned.
Abort(p) ==
    /\ Running(p)
    /\ Cardinality(Active(p)) <= 1 /\ Cardinality(proc[p].checking) <= 1
    /\ Goes(p, [proc[p] EXCEPT !.at = "done"])
    /\ res' = [res EXCEPT ![p] = [t \in Task |-> NoResearcher]]
    /\ status' = "FAILED"
    /\ UNCHANGED <<task, output, ledger, disk, used, files, report, history>>

\* Every unfinished task, a failed or interrupted one included, runs again.
RunnableVariantAll(t) == task[t] # "absent"
Runnable(t) == task[t] \notin {"absent", "COMPLETED"}

Fans(p, todo, ids) ==
    /\ Goes(p, [proc[p] EXCEPT !.at = "research", !.todo = todo, !.ids = ids])
    /\ res' = [res EXCEPT ![p] = [t \in Task |->
                 IF t \in todo THEN [NoResearcher EXCEPT !.at = "queued"] ELSE NoResearcher]]

PlanResume(p) ==
    /\ proc[p].at = "plan"
    /\ \E t \in Task : task[t] # "absent"
    /\ Fans(p, IF proc[p].early THEN {} ELSE {t \in Task : Runnable(t)},
            UNION {output[t] : t \in Completed})
    /\ UNCHANGED <<task, output, ledger, disk, used, files, report, status, history>>

\* No task was found: the planning model is asked ...
PlanAsk(p) ==
    /\ proc[p].at = "plan"
    /\ \A t \in Task : task[t] = "absent"
    /\ Spend
    /\ Goes(p, [proc[p] EXCEPT !.at = "create"])
    /\ UNCHANGED <<task, output, ledger, disk, files, report, status, res, history>>

\* ... and its plan stored, whatever was stored meanwhile.
PlanCreate(p) ==
    /\ proc[p].at = "create"
    /\ \E new \in SUBSET {t \in Task : task[t] = "absent"} \ {{}} :
          /\ task' = [t \in Task |-> IF t \in new THEN "PENDING" ELSE task[t]]
          /\ Fans(p, new, {})
    /\ UNCHANGED <<output, ledger, disk, used, files, report, status, history>>

\* Claims of the completed tasks that no verdict was stored for.
Unverified(ids) == {c \in ids : verdict[c] = "UNVERIFIED"}

\* A researcher returns to the join whether its task is completed or failed.
ReturnedVariantCompleted(p, t) == res[p][t].at = "done" /\ task[t] = "COMPLETED"
Returned(p, t) == res[p][t].at = "done"

Join(p) ==
    /\ proc[p].at = "research"
    /\ \A t \in proc[p].todo : Returned(p, t)
    /\ Goes(p, [proc[p] EXCEPT !.at = "verify", !.pending = Unverified(proc[p].ids)])
    /\ UNCHANGED <<task, output, ledger, disk, used, files, report, status, res, history>>

-----------------------------------------------------------------------------
(* A researcher: research_task_node.                                       *)

Works(p, t, phase) == proc[p].at = "research" /\ res[p][t].at = phase

Becomes(p, t, researcher) == res' = [res EXCEPT ![p][t] = researcher]

ResearchBegin(p, t) ==
    /\ Works(p, t, "queued")
    /\ Cardinality(Active(p)) < MaxResearchers
    /\ task' = [task EXCEPT ![t] = "RUNNING"]
    /\ Becomes(p, t, [res[p][t] EXCEPT !.at = "search"])
    /\ UNCHANGED <<output, ledger, disk, used, files, report, status, proc, history>>

\* The task's failure is stored in place of its output; other tasks go on.
FailedTask(p, t) ==
    /\ task' = [task EXCEPT ![t] = "FAILED"]
    /\ output' = [output EXCEPT ![t] = {}]
    /\ Becomes(p, t, [NoResearcher EXCEPT !.at = "done"])
    /\ UNCHANGED <<ledger, disk, files, report, status, proc, history>>

\* The search or the model fails for good, no page could be stored, or a limit
\* of the run is reached (no page is skipped for that).
ResearchFails(p, t) ==
    /\ \/ Works(p, t, "search") /\ (Spend \/ LimitReached)
       \/ Works(p, t, "fetch") /\ res[p][t].urls # {} /\ LimitReached
       \/ Works(p, t, "fetch") /\ res[p][t].urls = {} /\ res[p][t].got # {}
             /\ (Spend \/ LimitReached)
       \/ Works(p, t, "fetch") /\ res[p][t].urls = {} /\ res[p][t].got = {}
             /\ UNCHANGED used
    /\ FailedTask(p, t)

Search(p, t) ==
    /\ Works(p, t, "search")
    /\ Spend
    /\ \E urls \in SUBSET Page \ {{}} :
          Becomes(p, t, [res[p][t] EXCEPT !.at = "fetch", !.urls = urls])
    /\ UNCHANGED <<task, output, ledger, disk, files, report, status, proc, history>>

\* A page that cannot be fetched is skipped.
FetchSkip(p, t) ==
    /\ Works(p, t, "fetch")
    /\ Spend
    /\ \E u \in res[p][t].urls : Becomes(p, t, [res[p][t] EXCEPT !.urls = @ \ {u}])
    /\ UNCHANGED <<task, output, ledger, disk, files, report, status, proc, history>>

\* save_source_content compares what it finds with the page's hash.
HoldsVariantExists(u) == file[u] # "none"
Holds(u) == file[u] = "whole"

\* It leaves a file that holds the page.  (Files are never removed: looking at
\* what path.exists() saw is the same as looking for it again.)
FetchPage(p, t) ==
    /\ Works(p, t, "fetch")
    /\ Spend
    /\ \E u \in res[p][t].urls :
          /\ file[u] = "none" \/ Holds(u)
          /\ Becomes(p, t, [res[p][t] EXCEPT
                              !.at = IF file[u] = "none" THEN "open" ELSE "store",
                              !.page = {u}])
    /\ UNCHANGED <<task, output, ledger, disk, files, report, status, proc, history>>

\* A file that does not hold the page is an error that fails the task.
FetchMismatch(p, t) ==
    /\ Works(p, t, "fetch")
    /\ Spend
    /\ \E u \in res[p][t].urls : file[u] # "none" /\ ~Holds(u)
    /\ FailedTask(p, t)

\* It opens the file of a page it found no file of: write_text truncates what
\* another researcher, of this execution or another, has written there since.
OpenPage(p, t) ==
    /\ Works(p, t, "open")
    /\ file' = [u \in Page |-> IF u \in res[p][t].page THEN "torn" ELSE file[u]]
    /\ reopened' = reopened \union {u \in res[p][t].page : file[u] # "none"}
    /\ Becomes(p, t, [res[p][t] EXCEPT !.at = "save"])
    /\ UNCHANGED <<task, output, ledger, used, files, report, status, proc, history>>

\* A write during which another truncated the file may leave a hole in it.
SavePage(p, t) ==
    /\ Works(p, t, "save")
    /\ \E left \in {"whole", "torn"} :
          /\ left = "torn" => res[p][t].page \subseteq reopened
          /\ file' = [u \in Page |-> IF u \in res[p][t].page THEN left ELSE file[u]]
    /\ Becomes(p, t, [res[p][t] EXCEPT !.at = "store"])
    /\ UNCHANGED <<task, output, ledger, reopened, used, files, report, status, proc,
                   history>>

\* upsert_source counts under the run's row lock ...
StorePage(p, t) ==
    LET page == res[p][t].page
    IN  /\ Works(p, t, "store")
        /\ page \subseteq sources \/ Cardinality(sources) < MaxSources
        /\ sources' = sources \union page
        /\ Becomes(p, t, [res[p][t] EXCEPT !.at = "link"])
        /\ UNCHANGED <<task, output, claims, verdict, stored, disk, used, files, report,
                       status, proc, history>>

\* ... and create_source_snapshot adds the row that claims quote.
SnapshotPage(p, t) ==
    LET page == res[p][t].page
    IN  /\ Works(p, t, "link")
        /\ stored' = stored \union page
        /\ Becomes(p, t, [res[p][t] EXCEPT !.at = "fetch", !.page = {},
                            !.urls = @ \ page, !.got = @ \union page])
        /\ UNCHANGED <<task, output, claims, verdict, sources, disk, used, files, report,
                       status, proc, history>>

StoreLimit(p, t) ==
    /\ Works(p, t, "store")
    /\ ~(res[p][t].page \subseteq sources)
    /\ Cardinality(sources) >= MaxSources
    /\ UNCHANGED used
    /\ FailedTask(p, t)

\* _validate_evidence: every finding quotes a page of the packet.
ValidFindings(pages) == SUBSET (pages \X Text)

Generate(p, t) ==
    /\ Works(p, t, "fetch")
    /\ res[p][t].urls = {}
    /\ res[p][t].got # {}
    /\ Spend
    /\ \E findings \in ValidFindings(res[p][t].got) :
          Becomes(p, t, [res[p][t] EXCEPT !.at = "persist", !.todo = findings])
    /\ UNCHANGED <<task, output, ledger, disk, files, report, status, proc, history>>

Rows(t, finding) ==
    {c \in claims : c.task = t /\ c.page = finding[1] /\ c.text = finding[2]}

Keeps(p, t, finding, id) ==
    Becomes(p, t, [res[p][t] EXCEPT !.at = "persist", !.todo = @ \ {finding},
                                    !.finding = {}, !.ids = @ \union {id}])

\* create_or_update_claim looks for the claim without a lock ...
ClaimLookup(p, t) ==
    /\ Works(p, t, "persist")
    /\ \E finding \in res[p][t].todo :
          \/ \E c \in Rows(t, finding) : Keeps(p, t, finding, c.id)
          \/ /\ Rows(t, finding) = {}
             /\ Becomes(p, t, [res[p][t] EXCEPT !.at = "insert", !.finding = {finding}])
    /\ UNCHANGED <<task, output, ledger, disk, used, files, report, status, proc, history>>

\* ... and again under the run's row lock, before it counts and inserts.
FoundVariantNoRecheck(t, finding) == {}
Found(t, finding) == Rows(t, finding)

ClaimInsert(p, t) ==
    /\ Works(p, t, "insert")
    /\ \E finding \in res[p][t].finding :
          \/ /\ \E c \in Found(t, finding) : Keeps(p, t, finding, c.id)
             /\ UNCHANGED claims
          \/ LET id == Cardinality(claims) + 1
             IN  /\ Found(t, finding) = {}
                 /\ id \in ClaimId
                 /\ claims' = claims \union
                      {[id |-> id, task |-> t, page |-> finding[1], text |-> finding[2]]}
                 /\ Keeps(p, t, finding, id)
    /\ UNCHANGED <<task, output, verdict, sources, stored, disk, used, files, report, status,
                   proc, history>>

\* The claims stored so far stay, and belong to no output.
ClaimLimit(p, t) ==
    /\ Works(p, t, "insert")
    /\ \A finding \in res[p][t].finding : Found(t, finding) = {}
    /\ Cardinality(claims) >= MaxClaims
    /\ UNCHANGED used
    /\ FailedTask(p, t)

ResearchEnd(p, t) ==
    /\ Works(p, t, "persist")
    /\ res[p][t].todo = {}
    /\ task' = [task EXCEPT ![t] = "COMPLETED"]
    /\ output' = [output EXCEPT ![t] = res[p][t].ids]
    /\ Goes(p, [proc[p] EXCEPT !.ids = @ \union res[p][t].ids])
    /\ Becomes(p, t, [NoResearcher EXCEPT !.at = "done"])
    /\ UNCHANGED <<ledger, disk, used, files, report, status, history>>

-----------------------------------------------------------------------------
(* Verifiers and the writer.                                               *)

\* A claim whose quote or numbers do not fit its snapshot needs no model.
VerifyBegin(p, c) ==
    /\ proc[p].at = "verify"
    /\ c \in proc[p].pending
    /\ Cardinality(proc[p].checking) < MaxVerifiers
    /\ Spend \/ UNCHANGED used
    /\ Goes(p, [proc[p] EXCEPT !.pending = @ \ {c}, !.checking = @ \union {c}])
    /\ UNCHANGED <<task, output, ledger, disk, files, report, status, res, history>>

\* create_verification stores the verdict and the claim's status together.
VerifyCommit(p, c) ==
    /\ proc[p].at = "verify"
    /\ c \in proc[p].checking
    /\ \E v \in Verdict : verdict' = [verdict EXCEPT ![c] = v]
    /\ Goes(p, [proc[p] EXCEPT !.checking = @ \ {c}])
    /\ UNCHANGED <<task, output, claims, sources, stored, disk, used, files, report, status,
                   res, history>>

\* The model fails or the limit is reached: the claim stays unverified.
VerifyFails(p, c) ==
    /\ proc[p].at = "verify"
    /\ c \in proc[p].checking
    /\ Goes(p, [proc[p] EXCEPT !.checking = @ \ {c}])
    /\ UNCHANGED <<task, output, ledger, disk, used, files, report, status, res, history>>

Seen == {c.id : c \in {d \in claims : verdict[d.id] # "UNVERIFIED"}}

AcceptedVariantAll == Seen
Accepted == {c \in Seen : verdict[c] = "SUPPORTED"}

\* The packet: every claim of the run with a verdict, whatever its task.
WriterBegin(p) ==
    /\ proc[p].at = "verify"
    /\ proc[p].pending = {} /\ proc[p].checking = {}
    /\ IF Accepted = {} THEN UNCHANGED used ELSE Spend
    /\ Goes(p, [proc[p] EXCEPT !.at = "write",
                               !.packet = [main |-> Accepted, seen |-> Seen]])
    /\ UNCHANGED <<task, output, ledger, disk, files, report, status, res, history>>

\* The limit ends an execution that has to ask the planner or the writer.
LimitEnds(p) ==
    /\ \/ proc[p].at = "plan" /\ \A t \in Task : task[t] = "absent"
       \/ /\ proc[p].at = "verify"
          /\ proc[p].pending = {} /\ proc[p].checking = {}
          /\ Accepted # {}
    /\ LimitReached
    /\ Goes(p, [proc[p] EXCEPT !.at = "done"])
    /\ status' = "FAILED"
    /\ UNCHANGED <<task, output, ledger, disk, files, report, res, history>>

\* What a draft that validate_writer_draft accepts may cite: accepted claims only,
\* and some of them if there are any.
ValidCitations(accepted) == {main \in SUBSET accepted : main = {} => accepted = {}}

\* The files are replaced first ...
WriteFiles(p) ==
    /\ proc[p].at = "write"
    /\ \E main \in ValidCitations(proc[p].packet.main) :
          /\ files' = [main |-> main, seen |-> proc[p].packet.seen]
          /\ Goes(p, [proc[p] EXCEPT !.at = "files", !.packet = files'])
    /\ UNCHANGED <<task, output, ledger, disk, used, report, status, res, history>>

\* ... and then the row with their hashes.
StoreReport(p) ==
    /\ proc[p].at = "files"
    /\ report' = proc[p].packet
    /\ Goes(p, [proc[p] EXCEPT !.at = "final"])
    /\ UNCHANGED <<task, output, ledger, disk, used, files, status, res, history>>

\* resolve_run_status over the stored tasks and claims.
ResolvedVariantNoClaims ==
    CASE Completed = {} -> "FAILED"
      [] Completed # {} /\ (\E t \in Task : Runnable(t)) -> "COMPLETED_WITH_ERRORS"
      [] OTHER -> "COMPLETED"

Resolved ==
    CASE Completed = {} -> "FAILED"
      [] Completed # {} /\ (\/ \E t \in Task : Runnable(t)
                            \/ \E c \in claims : verdict[c.id] = "UNVERIFIED")
           -> "COMPLETED_WITH_ERRORS"
      [] OTHER -> "COMPLETED"

Finish(p) ==
    /\ proc[p].at = "final"
    /\ status' = Resolved
    /\ Goes(p, [proc[p] EXCEPT !.at = "done"])
    /\ UNCHANGED <<task, output, ledger, disk, used, files, report, res, history>>

-----------------------------------------------------------------------------
ResearchStep(p, t) ==
    \/ ResearchBegin(p, t) \/ ResearchFails(p, t) \/ Search(p, t)
    \/ FetchSkip(p, t) \/ FetchPage(p, t) \/ FetchMismatch(p, t)
    \/ OpenPage(p, t) \/ SavePage(p, t) \/ StorePage(p, t) \/ SnapshotPage(p, t)
    \/ StoreLimit(p, t) \/ Generate(p, t)
    \/ ClaimLookup(p, t) \/ ClaimInsert(p, t) \/ ClaimLimit(p, t) \/ ResearchEnd(p, t)

VerifyStep(p, c) == VerifyBegin(p, c) \/ VerifyCommit(p, c) \/ VerifyFails(p, c)

GraphStep(p) ==
    \/ PlanResume(p) \/ PlanAsk(p) \/ PlanCreate(p) \/ Join(p)
    \/ WriterBegin(p) \/ LimitEnds(p) \/ WriteFiles(p) \/ StoreReport(p) \/ Finish(p)

ProcessStep(p) ==
    \/ GraphStep(p)
    \/ \E t \in Task : ResearchStep(p, t)
    \/ \E c \in ClaimId : VerifyStep(p, c)

Next ==
    \E p \in Process :
        \/ \E early \in BOOLEAN : Start(p, early)
        \/ Kill(p)
        \/ Abort(p)
        \/ ProcessStep(p)

Spec == Init /\ [][Next]_vars

\* An execution that is not killed goes on, exceptions or not: every call is bounded
\* in time.
FairSpec == Spec /\ \A p \in Process : WF_vars(ProcessStep(p))

-----------------------------------------------------------------------------
\* Evidence before claims: every claim, whichever crash or overlap it went
\* through, quotes a page whose snapshot is stored and whose file is whole.  Only a
\* file that two researchers, of one execution or of two, both found missing is
\* left out: the later open truncates what the earlier one wrote, and a researcher
\* killed there leaves it torn.  About the order save_source_content,
\* upsert_source, create_source_snapshot, create_or_update_claim, and about the
\* comparison that keeps a torn file from being quoted after a restart.
EvidenceFirst ==
    \A c \in claims : c.page \in stored /\ (file[c.page] = "whole" \/ c.page \in reopened)

\* Running a task again, even twice at once, never duplicates a claim.  About
\* create_or_update_claim looking again once it holds the run's row lock.
OneRowPerFinding ==
    \A c, d \in claims :
        c.task = d.task /\ c.page = d.page /\ c.text = d.text => c = d

\* Nothing is done twice, through any number of kills and restarts, as long as
\* executions do not overlap: a completed task is not executed again and keeps its
\* claims, and a stored verdict is not asked for a second time.
NothingRedone ==
    [][~overlapped' =>
          /\ \A t \in Completed : task'[t] = "COMPLETED" /\ output'[t] = output[t]
          /\ \A c \in ClaimId : verdict[c] # "UNVERIFIED" => verdict'[c] = verdict[c]]_vars

\* Only accepted claims support the report, in whatever state an execution was
\* killed: a claim the verifier turned down never reaches the stored report.
ReportSupported == ~overlapped => \A c \in report.main : verdict[c] = "SUPPORTED"

\* How an execution ends: the report's files are those its row has the hashes
\* of, and "completed" means that every task is completed and that the report
\* was written from every claim, all of them verified.
EndsHonestly ==
    [][\A p \in Process :
          ~overlapped' /\ proc[p].at = "final" /\ proc'[p].at = "done" =>
            /\ files' = report'
            /\ status' = "COMPLETED" =>
                 /\ \A t \in Task : task'[t] \in {"absent", "COMPLETED"}
                 /\ report'.seen = {c.id : c \in claims'}]_vars

\* Every execution ends, whichever researchers, verifiers and limits fail.
ExecutionEnds == \A p \in Process : Running(p) ~> ~Running(p)
=============================================================================
