------------------------------- MODULE Drafts -------------------------------
(***************************************************************************)
(* A research draft from its question to its run (app/api.py,              *)
(* app/research_drafts.py, app/research_inputs.py): clarifications, edits, *)
(* settings, materials with their files, and the confirmation, asked for   *)
(* by browser tabs and API clients that each hold a copy of the draft.     *)
(*                                                                         *)
(* Every mutation locks the draft's row first, so each is one step, but    *)
(* for the files, which are written before the commit and removed after    *)
(* it, and for answers, which may be computed later or be lost.  Messages  *)
(* may overtake each other.  An unanswered request with an idempotency key *)
(* is sent again with the same key; the others are not.                    *)
(***************************************************************************)
EXTENDS Naturals, FiniteSets, Sequences

CONSTANTS
    Tab,            \* browser tabs and API clients of the draft's owner
    Text,           \* interpretations a user may save
    Setting,        \* overrides of the settings
    Upload,         \* materials with a file
    Note,           \* materials without one
    Questions,      \* clarification questions of the draft
    MaxMaterials,   \* max_input_materials
    MaxMessages,    \* bound: requests
    MaxFaults       \* bound: deaths of servers, lost answers

ASSUME DraftsAssumption ==
    /\ {Questions, MaxMaterials, MaxMessages, MaxFaults} \subseteq Nat
    /\ Upload \intersect Note = {}

VARIABLES
    draft,      \* the rows of research_drafts and research_draft_materials
    runs,       \* the runs created from it, with what they were given
    record,     \* record[n]: the response stored for the key of request n
    files,      \* files under data/runs/draft-inputs, by material
    unlinking,  \* files whose removal a handler has yet to do
    notice,     \* the notification that asks for clarification
    tab,        \* tab[t]: the draft as t knows it
    sent,       \* requests so far, in the order they were made
    open,       \* requests that may still arrive, or arrive again
    told,       \* told[n]: what the client was answered (history)
    applied,    \* requests that took effect (history)
    faults, commitsLost

rows == <<draft, runs, record, notice>>
disk == <<files, unlinking>>
net == <<sent, open>>
past == <<told, applied>>
bounds == <<faults, commitsLost>>
vars == <<rows, disk, tab, net, past, bounds>>

Message == 1..MaxMessages
Matter == Upload \union Note
Material == [id : Message, of : Matter]
Default == "default"

Content ==
    [text : Text \union {Default}, setting : Setting \union {Default}, step : 0..Questions,
     materials : SUBSET Material]
NewContent == [text |-> Default, setting |-> Default, step |-> 0, materials |-> {}]

Copy == [revision : 0..(MaxMessages + 1), content : Content]
NoCopy == [revision |-> 0, content |-> NewContent]

Keyed == {"create", "add", "answer", "confirm"}
Unkeyed == {"edit", "remove", "set"}
Request ==
    [op : Keyed \union Unkeyed, by : Tab, seen : Copy,
     arg : Text \union Setting \union Matter \union {Default}, id : 0..MaxMessages]

TypeOK ==
    /\ draft \in [status : {"absent", "DRAFT", "CONFIRMED"},
                  revision : 0..(MaxMessages + 1), content : Content]
    /\ runs \in Seq([input : Content, by : Message])
    /\ record \in [Message -> Copy]
    /\ files \subseteq Message /\ unlinking \subseteq Message
    /\ notice \in {"none", "unread", "read"}
    /\ tab \in [Tab -> [at : {"ready", "waits", "row"}, copy : Copy]]
    /\ sent \in Seq(Request) /\ Len(sent) <= MaxMessages
    /\ open \subseteq DOMAIN sent
    /\ told \in [Message -> {"nothing", "done", "refused"}]
    /\ applied \subseteq DOMAIN sent
    /\ faults \in 0..MaxFaults /\ commitsLost \in 0..MaxFaults

Init ==
    /\ draft = [status |-> "absent", revision |-> 0, content |-> NewContent]
    /\ runs = << >>
    /\ record = [n \in Message |-> NoCopy]
    /\ files = {} /\ unlinking = {}
    /\ notice = "none"
    /\ tab = [t \in Tab |-> [at |-> "ready", copy |-> NoCopy]]
    /\ sent = << >>
    /\ open = {}
    /\ told = [n \in Message |-> "nothing"]
    /\ applied = {}
    /\ faults = 0 /\ commitsLost = 0

-----------------------------------------------------------------------------
(* Clients.                                                                *)

Ask(t, op, arg, id) ==
    /\ tab[t].at = "ready"
    /\ Len(sent) < MaxMessages
    /\ sent' = Append(sent, [op |-> op, by |-> t, seen |-> tab[t].copy,
                            arg |-> arg, id |-> id])
    /\ open' = open \union {Len(sent) + 1}
    /\ UNCHANGED <<rows, disk, tab, past, bounds>>

AskCreate(t) ==
    /\ \A n \in DOMAIN sent : sent[n].op # "create"
    /\ Ask(t, "create", Default, 0)

AskChange(t) ==
    /\ tab[t].copy.revision > 0
    /\ \/ \E x \in Text : Ask(t, "edit", x, 0)
       \/ \E x \in Setting \union {Default} : Ask(t, "set", x, 0)
       \/ \E x \in Matter : Ask(t, "add", x, 0)
       \/ \E m \in tab[t].copy.content.materials : Ask(t, "remove", Default, m.id)
       \/ Ask(t, "answer", Default, 0) \/ Ask(t, "confirm", Default, 0)

Shows(t, phase, copy) == tab' = [tab EXCEPT ![t] = [at |-> phase, copy |-> copy]]

Current == [revision |-> draft.revision, content |-> draft.content]

\* A draft is read in two statements: its row, and later its materials.
RowRead(copy) ==
    [revision |-> draft.revision,
     content |-> [draft.content EXCEPT !.materials = copy.content.materials]]

MaterialsRead(copy) == [copy EXCEPT !.content.materials = draft.content.materials]

LoadRow(t) ==
    /\ \/ tab[t].at = "ready" /\ tab[t].copy # Current
       \/ tab[t].at = "waits"
    /\ draft.status # "absent"
    /\ Shows(t, "row", RowRead(tab[t].copy))
    /\ UNCHANGED <<rows, disk, net, past, bounds>>

LoadMaterials(t) ==
    /\ tab[t].at = "row"
    /\ Shows(t, "ready", MaterialsRead(tab[t].copy))
    /\ UNCHANGED <<rows, disk, net, past, bounds>>

ReadNotice ==
    /\ notice = "unread"
    /\ notice' = "read"
    /\ UNCHANGED <<draft, runs, record, disk, tab, net, past, bounds>>

-----------------------------------------------------------------------------
(* Handlers.                                                               *)

\* The answer arrives, and shows the draft; or the client hears nothing.
Answers(n, word, phase, copy) ==
    \/ /\ told' = [told EXCEPT ![n] = word]
       /\ open' = open \ {n}
       /\ IF copy # NoCopy THEN Shows(sent[n].by, phase, copy) ELSE UNCHANGED tab
       /\ UNCHANGED faults
    \/ /\ faults < MaxFaults
       /\ faults' = faults + 1
       /\ open' = IF sent[n].op \in Keyed THEN open ELSE open \ {n}
       /\ UNCHANGED <<told, tab>>

Arrived(n) == n \in open /\ tab[sent[n].by].at = "ready"

ReplayedVariantDraft(n) == draft.status # "CONFIRMED" /\ record[n] # NoCopy
Replayed(n) == record[n] # NoCopy

Replay(n) ==
    /\ Arrived(n)
    /\ Replayed(n)
    /\ Answers(n, "done", "ready", record[n])
    /\ UNCHANGED <<rows, disk, sent, applied, commitsLost>>

\* A draft with questions notifies its owner.
Notified == IF Questions > 0 THEN "unread" ELSE "none"

Create(n) ==
    /\ Arrived(n) /\ ~Replayed(n)
    /\ sent[n].op = "create"
    /\ draft' = [status |-> "DRAFT", revision |-> 1, content |-> NewContent]
    /\ notice' = Notified
    /\ LET copy == [revision |-> 1, content |-> NewContent]
       IN  record' = [record EXCEPT ![n] = copy] /\ Answers(n, "done", "ready", copy)
    /\ applied' = applied \union {n}
    /\ UNCHANGED <<runs, disk, sent, commitsLost>>

PendingVariantOneMore == draft.content.step <= Questions
Pending == draft.content.step < Questions

UpToDateVariantAny(m) == TRUE
UpToDate(m) == m.seen.revision = draft.revision

\* What each operation asks of the draft, next to its status and revision.
Ids == {x.id : x \in draft.content.materials}
SettledFirstVariantConfirm == {"confirm"}
SettledFirst == {"edit", "confirm"}
Fits(m) ==
    CASE m.op \in SettledFirst -> ~Pending
      [] m.op = "answer" -> Pending /\ m.seen.content.step = draft.content.step
      [] m.op = "add" -> /\ Cardinality(draft.content.materials) < MaxMaterials
                         /\ \A x \in draft.content.materials : x.of # m.arg
      [] m.op = "remove" -> m.id \in Ids
      [] OTHER -> TRUE

Accepts(m) == draft.status = "DRAFT" /\ UpToDate(m) /\ Fits(m)

Accepted(n, op) ==
    Arrived(n) /\ ~Replayed(n) /\ sent[n].op = op /\ Accepts(sent[n])

\* The commit of a change, and its answer.
Applies(n, c, revision, phase) ==
    LET copy == [revision |-> revision, content |-> c]
    IN  /\ draft' = [draft EXCEPT !.revision = revision, !.content = c]
        /\ record' = IF sent[n].op \in Keyed THEN [record EXCEPT ![n] = copy] ELSE record
        /\ Answers(n, "done", phase, IF phase = "waits" THEN sent[n].seen ELSE copy)
        /\ applied' = applied \union {n}
        /\ UNCHANGED <<runs, notice, sent, commitsLost>>

\* An answer that is composed after the commit reads the draft again.
Update(n) ==
    /\ Accepted(n, "edit")
    /\ Applies(n, [draft.content EXCEPT !.text = sent[n].arg], draft.revision + 1,
               "waits")
    /\ UNCHANGED disk

\* Settings that stay as they are leave the revision.
RevisedVariantNotSettings(old, new) == draft.revision
Revised(old, new) == IF new = old THEN draft.revision ELSE draft.revision + 1

UpdateSettings(n) ==
    LET c == [draft.content EXCEPT !.setting = sent[n].arg]
    IN  /\ Accepted(n, "set")
        /\ Applies(n, c, Revised(draft.content, c), "waits")
        /\ UNCHANGED disk

\* The last answer composes the interpretation anew.
Refined(c) == IF c.step = Questions THEN [c EXCEPT !.text = Default] ELSE c

AnswerClarification(n) ==
    /\ Accepted(n, "answer")
    /\ Applies(n, Refined([draft.content EXCEPT !.step = @ + 1]), draft.revision + 1,
               "ready")
    /\ UNCHANGED disk

\* The file of an upload is written before the commit; the one of a removed
\* material is removed after it.  A path belongs to one material.
PathVariantContent(n) ==
    CHOOSE i \in 1..n : /\ sent[i].op = "add" /\ sent[i].arg = sent[n].arg
                        /\ \A k \in 1..(i - 1) : sent[k].arg # sent[n].arg
Path(n) == n
Files(n) == IF sent[n].arg \in Upload THEN {Path(n)} ELSE {}

WithMaterial(n) ==
    [draft.content EXCEPT !.materials = @ \union {[id |-> n, of |-> sent[n].arg]}]

CreateMaterial(n) ==
    /\ Accepted(n, "add")
    /\ Applies(n, WithMaterial(n), draft.revision + 1, "ready")
    /\ files' = files \union Files(n)
    /\ UNCHANGED unlinking

DeleteMaterial(n) ==
    LET id == sent[n].id
    IN  /\ Accepted(n, "remove")
        /\ Applies(n, [draft.content EXCEPT !.materials = {x \in @ : x.id # id}],
                   draft.revision + 1, "ready")
        /\ unlinking' = unlinking \union ({Path(id)} \intersect files)
        /\ UNCHANGED files

\* The run is created with what the draft holds.
Confirm(n) ==
    /\ Accepted(n, "confirm")
    /\ draft' = [draft EXCEPT !.status = "CONFIRMED"]
    /\ runs' = Append(runs, [input |-> draft.content, by |-> n])
    /\ record' = [record EXCEPT ![n] = Current]
    /\ Answers(n, "done", "ready", Current)
    /\ applied' = applied \union {n}
    /\ UNCHANGED <<notice, disk, sent, commitsLost>>

\* A refusal may come with the current draft.
Reveals(m) ==
    /\ draft.status = "DRAFT"
    /\ IF Pending /\ m.op \in {"edit", "confirm"} THEN m.op = "confirm"
       ELSE ~UpToDate(m)

Refuse(n) ==
    /\ Arrived(n) /\ ~Replayed(n)
    /\ sent[n].op # "create"
    /\ ~Accepts(sent[n])
    /\ Answers(n, "refused", "ready", IF Reveals(sent[n]) THEN Current ELSE NoCopy)
    /\ UNCHANGED <<rows, disk, sent, applied, commitsLost>>

\* The server dies between the file and the commit.
DieInCreate(n) ==
    /\ Accepted(n, "add") /\ Files(n) # {}
    /\ faults < MaxFaults
    /\ faults' = faults + 1
    /\ files' = files \union Files(n)
    /\ UNCHANGED <<rows, unlinking, tab, net, past, commitsLost>>

\* The commit is made but its confirmation is lost: the handler removes the file
\* as if it had failed.
CommitLost(n) ==
    LET copy == [revision |-> draft.revision + 1, content |-> WithMaterial(n)]
    IN  /\ Accepted(n, "add") /\ Files(n) # {}
        /\ faults < MaxFaults
        /\ faults' = faults + 1
        /\ commitsLost' = commitsLost + 1
        /\ draft' = [draft EXCEPT !.revision = copy.revision, !.content = copy.content]
        /\ record' = [record EXCEPT ![n] = copy]
        /\ files' = files \ Files(n)
        /\ applied' = applied \union {n}
        /\ UNCHANGED <<runs, notice, unlinking, tab, net, told>>

Unlink(id) ==
    /\ id \in unlinking
    /\ files' = files \ {id}
    /\ unlinking' = unlinking \ {id}
    /\ UNCHANGED <<rows, tab, net, past, bounds>>

DieBeforeUnlink(id) ==
    /\ id \in unlinking
    /\ faults < MaxFaults
    /\ faults' = faults + 1
    /\ unlinking' = unlinking \ {id}
    /\ UNCHANGED <<rows, files, tab, net, past, commitsLost>>

Next ==
    \/ \E t \in Tab : AskCreate(t) \/ AskChange(t) \/ LoadRow(t) \/ LoadMaterials(t)
    \/ ReadNotice
    \/ \E n \in DOMAIN sent :
          \/ Replay(n) \/ Create(n) \/ Update(n) \/ UpdateSettings(n)
          \/ AnswerClarification(n) \/ CreateMaterial(n) \/ DeleteMaterial(n)
          \/ Confirm(n) \/ Refuse(n) \/ DieInCreate(n) \/ CommitLost(n)
    \/ \E id \in Message : Unlink(id) \/ DieBeforeUnlink(id)

Spec == Init /\ [][Next]_vars

-----------------------------------------------------------------------------
\* Whatever takes effect was asked for by someone who had the very content
\* before their eyes that it is applied to: no tab overwrites, answers or
\* confirms what another has changed in the meantime.
NoLostEdit ==
    [][\A n \in applied' \ applied :
          sent[n].op # "create" =>
              /\ draft.status = "DRAFT"
              /\ sent[n].seen.content = draft.content]_vars

\* One run at most comes of a draft, however often it is confirmed and whoever's
\* answer was lost, with all questions answered; and the run was given exactly
\* what the user who confirmed it saw, which the draft still says.
ConfirmedAsSeen ==
    /\ (draft.status = "CONFIRMED") <=> (runs # << >>)
    /\ Len(runs) <= 1
    /\ \A i \in DOMAIN runs :
          /\ runs[i].input = sent[runs[i].by].seen.content
          /\ runs[i].input = draft.content
          /\ runs[i].input.step = Questions

\* A text that a user saved is only replaced by another save: the answers that
\* compose it anew are over before anyone may edit it.
EditsStand ==
    [][draft.content.text # Default /\ draft'.content.text # draft.content.text =>
          \E n \in applied' \ applied : sent[n].op = "edit"]_vars

\* Every upload of the draft has its file, and so has every upload a run was
\* given: a removal takes the file away only once the row is gone for good.  (A
\* commit whose confirmation is lost leaves a row without its file.)
FilesKept ==
    commitsLost = 0 =>
        \A x \in draft.content.materials : x.of \in Upload => Path(x.id) \in files

\* What a client is told of a request with a key is true, however often it was
\* sent: "done" for what took effect, and "refused" for what never will.
AnswersTrue ==
    \A n \in DOMAIN sent :
        /\ told[n] = "done" => n \in applied
        /\ told[n] = "refused" => n \notin applied
=============================================================================
