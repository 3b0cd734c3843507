---------------------------- MODULE DraftsProofs ----------------------------
(***************************************************************************)
(* What holds of a draft for every number of tabs, texts, materials,       *)
(* questions, requests and lost answers.                                   *)
(***************************************************************************)
EXTENDS Drafts, FiniteSetTheorems, TLAPS

\* A copy is not ahead of the draft, and one of its revision is the draft.
CopyTrue(copy) ==
    /\ copy.revision <= draft.revision
    /\ copy.revision = draft.revision => copy.content = draft.content

\* Of a copy that is being read only the row is known.
RowTrue(copy) ==
    /\ copy.revision <= draft.revision
    /\ copy.revision = draft.revision =>
          [copy.content EXCEPT !.materials = draft.content.materials] = draft.content

CopiesTrue ==
    /\ \A n \in DOMAIN sent : CopyTrue(sent[n].seen)
    /\ \A n \in Message : CopyTrue(record[n])
    /\ \A t \in Tab : IF tab[t].at = "row" THEN RowTrue(tab[t].copy)
                                           ELSE CopyTrue(tab[t].copy)

\* Requests carry what their operation takes, and histories are of requests.
WellAsked ==
    /\ \A n \in DOMAIN sent :
          /\ sent[n].op = "edit" => sent[n].arg \in Text
          /\ sent[n].op = "set" => sent[n].arg \in Setting \union {Default}
          /\ sent[n].op = "add" => sent[n].arg \in Matter
    /\ \A n \in Message : told[n] # "nothing" => n \in DOMAIN sent
    /\ \A i \in DOMAIN runs : runs[i].by \in DOMAIN sent

\* Every revision but that of the creation is of one more request.
Counted ==
    /\ draft.revision <= Cardinality(applied)
    /\ commitsLost <= faults

\* One request creates the draft.
CreatedOnce ==
    /\ draft.status = "absent" <=> draft.revision = 0
    /\ draft.status = "absent" => draft.content = NewContent
    /\ \A m, n \in DOMAIN sent : sent[m].op = "create" /\ sent[n].op = "create" => m = n
    /\ draft.status # "absent" =>
          /\ \E n \in DOMAIN sent : sent[n].op = "create"
          /\ \A n \in DOMAIN sent : sent[n].op = "create" => record[n] # NoCopy

\* What took effect is over, or has its response on record.
EffectsOver ==
    /\ \A n \in applied : n \notin open \/ record[n] # NoCopy
    /\ \A n \in Message : record[n] # NoCopy => n \in applied
    /\ \A n \in Message : told[n] # "nothing" => n \notin open

TextSettled == draft.content.text # Default => ~Pending

\* A file that is to be removed is of a material that is gone, and never comes back.
FilesApart ==
    /\ \A x \in draft.content.materials : x.id \in applied
    /\ \A id \in unlinking : id \in applied /\ id \notin Ids
    /\ FilesKept

RowsInv ==
    /\ CopiesTrue /\ WellAsked /\ Counted /\ CreatedOnce /\ EffectsOver /\ TextSettled
    /\ ConfirmedAsSeen /\ AnswersTrue

DraftInv == TypeOK /\ RowsInv /\ FilesApart

-----------------------------------------------------------------------------
(* Values.                                                                 *)

LEMMA Bounds ==
  Questions \in Nat /\ MaxMessages \in Nat /\ MaxFaults \in Nat /\ Message \subseteq Nat
  BY DraftsAssumption DEF Message

LEMMA StartTypes == NewContent \in Content /\ NoCopy \in Copy
  BY Bounds DEF NewContent, Content, NoCopy, Copy

LEMMA SentTypes ==
  ASSUME TypeOK
  PROVE  /\ Len(sent) \in Nat /\ DOMAIN sent = 1..Len(sent)
         /\ DOMAIN sent \subseteq Message
         /\ \A n \in DOMAIN sent : sent[n] \in Request
<1>1. sent \in Seq(Request) /\ Len(sent) <= MaxMessages
  BY DEF TypeOK
<1>2. Len(sent) \in Nat /\ DOMAIN sent = 1..Len(sent) /\ \A n \in DOMAIN sent : sent[n] \in Request
  BY <1>1
<1>3. QED
  BY <1>1, <1>2, Bounds DEF Message

LEMMA DraftTypes ==
  ASSUME TypeOK
  PROVE  /\ draft.revision \in Nat /\ draft.content \in Content /\ Current.content \in Content
         /\ Current.revision = draft.revision /\ Current.content = draft.content
         /\ Current \in Copy
  BY Bounds DEF TypeOK, Current, Copy

\* There is room for one more revision as long as a request has yet to take effect.
LEMMA RoomLeft ==
  ASSUME TypeOK, Counted, NEW n \in DOMAIN sent, n \notin applied
  PROVE  /\ Cardinality(applied \union {n}) = Cardinality(applied) + 1
         /\ Cardinality(applied) \in Nat
         /\ draft.revision + 1 \in 0..(MaxMessages + 1)
<1>1. IsFiniteSet(Message) /\ Cardinality(Message) = MaxMessages
  BY Bounds, FS_Interval DEF Message
<1>2. applied \subseteq Message
  BY SentTypes DEF TypeOK
<1>3. /\ IsFiniteSet(applied) /\ Cardinality(applied) <= MaxMessages
      /\ Cardinality(applied) \in Nat
  BY <1>1, <1>2, FS_Subset, FS_CardinalityType
<1>4. Cardinality(applied \union {n}) = Cardinality(applied) + 1
  BY <1>3, FS_AddElement
<1>5. QED
  BY <1>3, <1>4, Bounds, DraftTypes DEF Counted

-----------------------------------------------------------------------------
(* What a step does, in the terms of the invariant.                        *)

\* The client hears the word, or nothing.
Hears(n, word) ==
    /\ open' \subseteq open
    /\ \/ UNCHANGED told
       \/ told' = [told EXCEPT ![n] = word] /\ n \notin open'
    /\ faults' \in 0..MaxFaults /\ faults <= faults'

\* One tab may show another copy.
Sees(t, copy) ==
    \/ UNCHANGED tab
    \/ \E phase \in {"ready", "waits"} : Shows(t, phase, copy)

LEMMA AnswerHeard ==
  ASSUME TypeOK, NEW n \in DOMAIN sent, NEW word, NEW phase \in {"ready", "waits"}, NEW copy,
         Answers(n, word, phase, copy)
  PROVE  /\ Hears(n, word) /\ Sees(sent[n].by, copy)
         /\ sent[n].op \notin Keyed => n \notin open'
  BY Bounds DEF TypeOK, Answers, Hears, Sees

\* A request that takes effect was accepted for what its client saw.
LEMMA AcceptedFacts ==
  ASSUME TypeOK, RowsInv, NEW n \in DOMAIN sent, NEW op, Accepted(n, op)
  PROVE  /\ n \in open /\ n \notin applied /\ record[n] = NoCopy
         /\ draft.status = "DRAFT" /\ sent[n].op = op /\ Fits(sent[n])
         /\ sent[n].seen.content = draft.content /\ sent[n].seen.revision = draft.revision
<1>1. /\ n \in open /\ record[n] = NoCopy /\ draft.status = "DRAFT"
      /\ sent[n].op = op /\ Fits(sent[n]) /\ sent[n].seen.revision = draft.revision
  BY DEF Accepted, Arrived, Replayed, Accepts, UpToDate
<1>2. n \notin applied
  BY <1>1 DEF RowsInv, EffectsOver
<1>3. sent[n].seen.content = draft.content
  BY <1>1 DEF RowsInv, CopiesTrue, CopyTrue
<1>4. QED
  BY <1>1, <1>2, <1>3

\* A change is committed.
Commits(n, c, r) ==
    /\ draft' = [draft EXCEPT !.revision = r, !.content = c]
    /\ c \in Content
    /\ r = draft.revision + 1 \/ (r = draft.revision /\ c = draft.content)
    /\ applied' = applied \union {n}
    /\ \/ record' = [record EXCEPT ![n] = [revision |-> r, content |-> c]]
       \/ UNCHANGED record /\ n \notin open'
    /\ UNCHANGED <<runs, sent, notice>>

\* ... or so is the confirmation.
Confirms(n) ==
    /\ draft' = [draft EXCEPT !.status = "CONFIRMED"]
    /\ runs' = Append(runs, [input |-> draft.content, by |-> n])
    /\ record' = [record EXCEPT ![n] = Current]
    /\ applied' = applied \union {n}
    /\ UNCHANGED <<sent, notice>>

\* A text that changes is saved, or replaces one that the program composed.
TextBy(n, c) ==
    /\ c.text # draft.content.text => sent[n].op = "edit" \/ draft.content.text = Default
    /\ c.text # Default => ~Pending /\ c.step = draft.content.step

LEMMA AppliesCommits ==
  ASSUME TypeOK, RowsInv, NEW n \in DOMAIN sent, NEW op \in Keyed \union Unkeyed, Accepted(n, op),
         NEW c \in Content, NEW r, NEW phase \in {"ready", "waits"}, Applies(n, c, r, phase),
         r = draft.revision + 1 \/ (r = draft.revision /\ c = draft.content)
  PROVE  /\ Commits(n, c, r) /\ Hears(n, "done") /\ UNCHANGED commitsLost
         /\ \E copy \in {sent[n].seen, [revision |-> r, content |-> c]} : Sees(sent[n].by, copy)
<1> DEFINE copy == [revision |-> r, content |-> c]
<1>1. /\ draft' = [draft EXCEPT !.revision = r, !.content = c]
      /\ record' = IF sent[n].op \in Keyed THEN [record EXCEPT ![n] = copy] ELSE record
      /\ Answers(n, "done", phase, IF phase = "waits" THEN sent[n].seen ELSE copy)
      /\ applied' = applied \union {n}
      /\ UNCHANGED <<runs, notice, sent, commitsLost>>
  BY DEF Applies
<1>2. PICK shown \in {sent[n].seen, copy} : Answers(n, "done", phase, shown)
  BY <1>1
<1> HIDE DEF copy
<1>3. /\ Hears(n, "done") /\ Sees(sent[n].by, shown)
      /\ sent[n].op \notin Keyed => n \notin open'
  BY <1>2, AnswerHeard
<1>4. Commits(n, c, r)
  BY <1>1, <1>3 DEF Commits, copy
<1>5. QED
  BY <1>1, <1>3, <1>4 DEF copy

Change(n) ==
    \/ Update(n) \/ UpdateSettings(n) \/ AnswerClarification(n) \/ CreateMaterial(n)
    \/ DeleteMaterial(n) \/ CommitLost(n)

\* What a change does to the rows, to the client and to the tab of its request.
Changes(n, c, r) ==
    /\ Commits(n, c, r) /\ Hears(n, "done") /\ TextBy(n, c)
    /\ \E copy \in {sent[n].seen, [revision |-> r, content |-> c]} : Sees(sent[n].by, copy)

LEMMA MaterialTypes ==
  ASSUME TypeOK, RowsInv, NEW n \in DOMAIN sent, Accepted(n, "add")
  PROVE  WithMaterial(n) \in Content
<1>1. sent[n].arg \in Matter
  BY AcceptedFacts DEF RowsInv, WellAsked
<1>2. [id |-> n, of |-> sent[n].arg] \in Material
  BY <1>1, SentTypes DEF Material
<1>3. QED
  BY <1>2, DraftTypes DEF WithMaterial, Content

LEMMA ChangeFacts ==
  ASSUME TypeOK, RowsInv, NEW n \in DOMAIN sent, Change(n)
  PROVE  /\ \E c \in Content, r \in {draft.revision, draft.revision + 1} : Changes(n, c, r)
         /\ \E op \in (Keyed \union Unkeyed) \ {"create"} : Accepted(n, op)
         /\ commitsLost' <= faults'
<1>1. draft.content \in Content /\ draft.content.step \in Nat
  BY DraftTypes, Bounds DEF Content
<1>2. commitsLost \in Nat /\ faults \in Nat
  BY Bounds DEF TypeOK
<1>3. ~(draft.content.text # Default /\ Pending) /\ commitsLost <= faults
      /\ commitsLost \in Nat /\ faults \in Nat
  BY <1>2 DEF RowsInv, TextSettled, Counted
<1>4. ASSUME NEW op \in (Keyed \union Unkeyed) \ {"create"}, Accepted(n, op), NEW c \in Content,
             NEW r \in {draft.revision, draft.revision + 1},
             NEW phase \in {"ready", "waits"}, Applies(n, c, r, phase),
             r = draft.revision => c = draft.content, TextBy(n, c)
      PROVE  /\ \E x \in Content, y \in {draft.revision, draft.revision + 1} : Changes(n, x, y)
             /\ \E x \in (Keyed \union Unkeyed) \ {"create"} : Accepted(n, x)
             /\ commitsLost' <= faults'
  <2>1. r = draft.revision + 1 \/ (r = draft.revision /\ c = draft.content)
    BY <1>4
  <2>2. /\ Commits(n, c, r) /\ Hears(n, "done") /\ UNCHANGED commitsLost
        /\ \E copy \in {sent[n].seen, [revision |-> r, content |-> c]} : Sees(sent[n].by, copy)
    BY <1>4, <2>1, AppliesCommits
  <2>3. Changes(n, c, r)
    BY <1>4, <2>2 DEF Changes
  <2>4. commitsLost' <= faults'
    BY <1>3, <2>2, Bounds DEF Hears
  <2>5. QED
    BY <1>4, <2>3, <2>4
<1>5. CASE Update(n)
  <2> DEFINE c == [draft.content EXCEPT !.text = sent[n].arg]
  <2>1. Accepted(n, "edit") /\ Applies(n, c, draft.revision + 1, "waits")
    BY <1>5 DEF Update
  <2>2. sent[n].op = "edit" /\ ~Pending /\ sent[n].arg \in Text
    BY <2>1, AcceptedFacts DEF Fits, SettledFirst, RowsInv, WellAsked
  <2>3. c \in Content /\ c.step = draft.content.step
    BY <1>1, <2>2 DEF Content
  <2>4. TextBy(n, c)
    BY <2>2, <2>3 DEF TextBy
  <2> HIDE DEF c
  <2>5. draft.revision + 1 # draft.revision
    BY DraftTypes
  <2>6. QED
    BY <1>4, <2>1, <2>3, <2>4, <2>5 DEF Unkeyed, Keyed
<1>6. CASE UpdateSettings(n)
  <2> DEFINE c == [draft.content EXCEPT !.setting = sent[n].arg]
             r == Revised(draft.content, c)
  <2>1. Accepted(n, "set") /\ Applies(n, c, r, "waits")
    BY <1>6 DEF UpdateSettings
  <2>2. sent[n].arg \in Setting \union {Default}
    BY <2>1, AcceptedFacts DEF RowsInv, WellAsked
  <2>3. c \in Content /\ c.step = draft.content.step /\ c.text = draft.content.text
    BY <1>1, <2>2 DEF Content
  <2>4. TextBy(n, c)
    BY <1>3, <2>3 DEF TextBy
  <2>5. r \in {draft.revision, draft.revision + 1} /\ (r = draft.revision => c = draft.content)
    BY DraftTypes DEF Revised
  <2> HIDE DEF c, r
  <2>6. QED
    BY <1>4, <2>1, <2>3, <2>4, <2>5 DEF Unkeyed, Keyed
<1>7. CASE AnswerClarification(n)
  <2> DEFINE old == [draft.content EXCEPT !.step = @ + 1]
             c == Refined(old)
  <2>1. Accepted(n, "answer") /\ Applies(n, c, draft.revision + 1, "ready")
    BY <1>7 DEF AnswerClarification
  <2>2. Pending
    BY <2>1, AcceptedFacts DEF Fits, SettledFirst
  <2>3. old \in Content /\ old.text = Default /\ draft.content.text = Default
    BY <1>1, <1>3, <2>2, Bounds DEF Content, Pending
  <2> HIDE DEF old
  <2>4. c \in Content /\ c.text = Default
    BY <2>3 DEF Content, Refined
  <2>5. TextBy(n, c)
    BY <2>3, <2>4 DEF TextBy
  <2> HIDE DEF c
  <2>6. draft.revision + 1 # draft.revision
    BY DraftTypes
  <2>7. QED
    BY <1>4, <2>1, <2>4, <2>5, <2>6 DEF Unkeyed, Keyed
<1>8. CASE CreateMaterial(n)
  <2>1. Accepted(n, "add") /\ Applies(n, WithMaterial(n), draft.revision + 1, "ready")
    BY <1>8 DEF CreateMaterial
  <2>2. WithMaterial(n) \in Content
    BY <2>1, MaterialTypes
  <2>3. TextBy(n, WithMaterial(n))
    BY <1>1, <1>3 DEF TextBy, WithMaterial, Content
  <2>4. draft.revision + 1 # draft.revision
    BY DraftTypes
  <2>5. QED
    BY <1>4, <2>1, <2>2, <2>3, <2>4 DEF Unkeyed, Keyed
<1>9. CASE DeleteMaterial(n)
  <2> DEFINE c == [draft.content EXCEPT !.materials = {x \in @ : x.id # sent[n].id}]
  <2>1. Accepted(n, "remove") /\ Applies(n, c, draft.revision + 1, "ready")
    BY <1>9 DEF DeleteMaterial
  <2>2. c \in Content /\ c.text = draft.content.text /\ c.step = draft.content.step
    BY <1>1 DEF Content
  <2>3. TextBy(n, c)
    BY <1>3, <2>2 DEF TextBy
  <2> HIDE DEF c
  <2>4. draft.revision + 1 # draft.revision
    BY DraftTypes
  <2>5. QED
    BY <1>4, <2>1, <2>2, <2>3, <2>4 DEF Unkeyed, Keyed
<1>10. CASE CommitLost(n)
  <2> DEFINE c == WithMaterial(n)
             r == draft.revision + 1
  <2>1. Accepted(n, "add") /\ c \in Content
    BY <1>10, MaterialTypes DEF CommitLost
  <2>2. Commits(n, c, r)
    BY <1>10, <2>1 DEF CommitLost, Commits, net
  <2>3. /\ UNCHANGED <<open, told, tab>> /\ faults' = faults + 1 /\ faults < MaxFaults
        /\ commitsLost' = commitsLost + 1
    BY <1>10 DEF CommitLost, net
  <2>4. Hears(n, "done") /\ commitsLost' <= faults'
    BY <1>3, <2>3, Bounds DEF Hears
  <2>5. TextBy(n, c)
    BY <1>1, <1>3 DEF TextBy, WithMaterial, Content
  <2>6. Changes(n, c, r)
    BY <2>2, <2>3, <2>4, <2>5 DEF Changes, Sees
  <2> HIDE DEF c, r
  <2>7. QED
    BY <2>1, <2>4, <2>6 DEF Keyed, r
<1>11. QED
  BY <1>5, <1>6, <1>7, <1>8, <1>9, <1>10 DEF Change

LEMMA ConfirmFacts ==
  ASSUME TypeOK, RowsInv, NEW n \in DOMAIN sent, Confirm(n)
  PROVE  /\ Accepted(n, "confirm") /\ Confirms(n) /\ Hears(n, "done")
         /\ Sees(sent[n].by, Current) /\ UNCHANGED commitsLost /\ UNCHANGED disk
  BY AnswerHeard DEF Confirm, Confirms

LEMMA CreateFacts ==
  ASSUME TypeOK, RowsInv, NEW n \in DOMAIN sent, Create(n)
  PROVE  /\ draft.status = "absent" /\ draft.revision = 0 /\ record[n] = NoCopy
         /\ n \in open /\ n \notin applied /\ sent[n].op = "create"
         /\ draft' = [status |-> "DRAFT", revision |-> 1, content |-> NewContent]
         /\ notice' = Notified
         /\ record' = [record EXCEPT ![n] = [revision |-> 1, content |-> NewContent]]
         /\ applied' = applied \union {n}
         /\ Hears(n, "done") /\ Sees(sent[n].by, [revision |-> 1, content |-> NewContent])
         /\ UNCHANGED <<runs, sent, commitsLost, files, unlinking>>
<1>1. Answers(n, "done", "ready", [revision |-> 1, content |-> NewContent])
  BY DEF Create
<1>2. Hears(n, "done") /\ Sees(sent[n].by, [revision |-> 1, content |-> NewContent])
  BY <1>1, AnswerHeard
<1>3. record[n] = NoCopy /\ sent[n].op = "create" /\ n \in open
  BY DEF Create, Replayed, Arrived
<1>4. draft.status = "absent" /\ draft.revision = 0
  BY <1>3 DEF RowsInv, CreatedOnce
<1>5. n \notin applied
  BY <1>3 DEF RowsInv, EffectsOver
<1>6. QED
  BY <1>2, <1>3, <1>4, <1>5 DEF Create, disk

\* An answer without an effect: a replay, or a refusal.
Repeats(n, word, copy) ==
    /\ Hears(n, word) /\ Sees(sent[n].by, copy)
    /\ n \in open
    /\ \/ word = "done" /\ n \in applied
       \/ word = "refused" /\ n \notin applied
    /\ UNCHANGED <<rows, disk, sent, applied, commitsLost>>

LEMMA AnswerFacts ==
  ASSUME TypeOK, RowsInv, NEW n \in DOMAIN sent, Replay(n) \/ Refuse(n)
  PROVE  \E word \in {"done", "refused"}, copy \in Copy : Repeats(n, word, copy) /\ CopyTrue(copy)
<1>1. n \in Message /\ NoCopy \in Copy /\ Current \in Copy
  BY SentTypes, StartTypes, DraftTypes
<1>2. CopyTrue(Current)
  BY DraftTypes DEF CopyTrue
<1>3. CopyTrue(NoCopy)
  BY DraftTypes DEF CopyTrue, NoCopy, RowsInv, CreatedOnce
<1>4. CASE Replay(n)
  <2>1. PICK copy \in Copy : copy = record[n] /\ CopyTrue(copy)
    BY <1>1 DEF TypeOK, RowsInv, CopiesTrue
  <2>2. Hears(n, "done") /\ Sees(sent[n].by, copy)
    BY <1>4, <2>1, AnswerHeard DEF Replay
  <2>3. n \in applied /\ n \in open
    BY <1>1, <1>4 DEF Replay, Replayed, Arrived, RowsInv, EffectsOver
  <2>4. Repeats(n, "done", copy)
    BY <1>4, <2>2, <2>3 DEF Repeats, Replay
  <2>5. QED
    BY <2>1, <2>4
<1>5. CASE Refuse(n)
  <2>1. PICK copy \in {Current, NoCopy} : Answers(n, "refused", "ready", copy)
    BY <1>5 DEF Refuse
  <2>2. Hears(n, "refused") /\ Sees(sent[n].by, copy)
    BY <2>1, AnswerHeard
  <2>3. n \notin applied /\ n \in open
    BY <1>1, <1>5 DEF Refuse, Replayed, Arrived, RowsInv, EffectsOver
  <2>4. Repeats(n, "refused", copy)
    BY <1>5, <2>2, <2>3 DEF Repeats, Refuse
  <2>5. QED
    BY <1>1, <1>2, <1>3, <2>1, <2>4
<1>6. QED
  BY <1>4, <1>5

\* A request is made, with what its operation takes.
Asks(t, m) ==
    /\ m.by = t /\ m.seen = tab[t].copy /\ tab[t].at = "ready"
    /\ m.op = "edit" => m.arg \in Text
    /\ m.op = "set" => m.arg \in Setting \union {Default}
    /\ m.op = "add" => m.arg \in Matter
    /\ m.op = "create" => \A n \in DOMAIN sent : sent[n].op # "create"
    /\ Len(sent) < MaxMessages
    /\ sent' = Append(sent, m) /\ open' = open \union {Len(sent) + 1}
    /\ UNCHANGED <<rows, disk, tab, past, bounds>>

LEMMA AskFacts ==
  ASSUME TypeOK, NEW t \in Tab, AskCreate(t) \/ AskChange(t)
  PROVE  \E m \in Request : Asks(t, m)
<1>1. tab[t].copy \in Copy
  BY DEF TypeOK
<1>2. ASSUME NEW op \in Keyed \union Unkeyed,
             NEW arg \in Text \union Setting \union Matter \union {Default},
             NEW id \in 0..MaxMessages, Ask(t, op, arg, id),
             op = "edit" => arg \in Text, op = "set" => arg \in Setting \union {Default},
             op = "add" => arg \in Matter,
             op = "create" => \A n \in DOMAIN sent : sent[n].op # "create"
      PROVE  \E m \in Request : Asks(t, m)
  <2> DEFINE m == [op |-> op, by |-> t, seen |-> tab[t].copy, arg |-> arg, id |-> id]
  <2>1. m \in Request
    BY <1>1 DEF Request
  <2>2. Asks(t, m)
    BY <1>2 DEF Ask, Asks
  <2> HIDE DEF m
  <2>3. QED
    BY <2>1, <2>2
<1>3. 0 \in 0..MaxMessages
  BY Bounds
<1>4. CASE AskCreate(t)
  BY <1>2, <1>3, <1>4 DEF AskCreate, Keyed
<1>5. ASSUME NEW m \in tab[t].copy.content.materials PROVE m.id \in 0..MaxMessages
  BY <1>1, <1>5, Bounds DEF Copy, Content, Material, Message
<1>6. CASE AskChange(t)
  <2>1. CASE \E x \in Text : Ask(t, "edit", x, 0)
    BY <1>2, <1>3, <2>1 DEF Keyed, Unkeyed
  <2>2. CASE \E x \in Setting \union {Default} : Ask(t, "set", x, 0)
    BY <1>2, <1>3, <2>2 DEF Keyed, Unkeyed
  <2>3. CASE \E x \in Matter : Ask(t, "add", x, 0)
    BY <1>2, <1>3, <2>3 DEF Keyed, Unkeyed
  <2>4. CASE \E x \in tab[t].copy.content.materials : Ask(t, "remove", Default, x.id)
    BY <1>2, <1>5, <2>4 DEF Keyed, Unkeyed
  <2>5. CASE Ask(t, "answer", Default, 0) \/ Ask(t, "confirm", Default, 0)
    BY <1>2, <1>3, <2>5 DEF Keyed, Unkeyed
  <2>6. QED
    BY <1>6, <2>1, <2>2, <2>3, <2>4, <2>5 DEF AskChange
<1>7. QED
  BY <1>4, <1>6

\* The rest: a tab reads the draft, or only files, notices and bounds change.
Reads(t) == LoadRow(t) \/ LoadMaterials(t)

Aside ==
    /\ UNCHANGED <<draft, runs, record, tab, net, past, commitsLost>>
    /\ notice' \in {"none", "unread", "read"} /\ faults' \in 0..MaxFaults /\ faults <= faults'

LEMMA AsideFacts ==
  ASSUME TypeOK,
         \/ ReadNotice \/ UNCHANGED vars
         \/ \E n \in DOMAIN sent : DieInCreate(n)
         \/ \E id \in Message : Unlink(id) \/ DieBeforeUnlink(id)
  PROVE  Aside
<1>1. faults \in Nat /\ faults \in 0..MaxFaults
  BY Bounds DEF TypeOK
<1>2. CASE ReadNotice \/ UNCHANGED vars \/ \E id \in Message : Unlink(id)
  BY <1>1, <1>2 DEF ReadNotice, Unlink, Aside, vars, rows, bounds, past, net, TypeOK
<1>3. CASE (\E n \in DOMAIN sent : DieInCreate(n)) \/ \E id \in Message : DieBeforeUnlink(id)
  <2>1. /\ faults < MaxFaults /\ faults' = faults + 1
        /\ UNCHANGED <<rows, tab, net, past, commitsLost>>
    BY <1>3 DEF DieInCreate, DieBeforeUnlink
  <2>2. faults' \in 0..MaxFaults /\ faults <= faults'
    BY <1>1, <2>1, Bounds
  <2>3. QED
    BY <2>1, <2>2 DEF Aside, rows, TypeOK
<1>4. QED
  BY <1>2, <1>3

-----------------------------------------------------------------------------
(* Types, step by step.                                                    *)

LEMMA HeardTypes ==
  ASSUME TypeOK, NEW n \in DOMAIN sent, NEW word \in {"done", "refused"}, Hears(n, word),
         NEW copy \in Copy, Sees(sent[n].by, copy), UNCHANGED sent
  PROVE  /\ open' \subseteq DOMAIN sent' /\ faults' \in 0..MaxFaults
         /\ told' \in [Message -> {"nothing", "done", "refused"}]
         /\ tab' \in [Tab -> [at : {"ready", "waits", "row"}, copy : Copy]]
<1>1. tab' \in [Tab -> [at : {"ready", "waits", "row"}, copy : Copy]]
  BY DEF TypeOK, Sees, Shows
<1>2. QED
  BY <1>1 DEF TypeOK, Hears

LEMMA ChangeTypes ==
  ASSUME TypeOK, RowsInv, NEW n \in DOMAIN sent, Change(n)
  PROVE  TypeOK'
<1>1. PICK c \in Content, r \in {draft.revision, draft.revision + 1} : Changes(n, c, r)
  BY ChangeFacts
<1>2. PICK copy \in {sent[n].seen, [revision |-> r, content |-> c]} :
         Commits(n, c, r) /\ Hears(n, "done") /\ Sees(sent[n].by, copy)
  BY <1>1 DEF Changes
<1>3. n \notin applied
  BY ChangeFacts, AcceptedFacts
<1>4. r \in 0..(MaxMessages + 1)
  BY <1>3, RoomLeft DEF RowsInv, TypeOK
<1>5. [revision |-> r, content |-> c] \in Copy
  BY <1>4 DEF Copy
<1>6. sent[n].seen \in Copy
  BY SentTypes DEF Request
<1>7. /\ open' \subseteq DOMAIN sent' /\ faults' \in 0..MaxFaults
      /\ told' \in [Message -> {"nothing", "done", "refused"}]
      /\ tab' \in [Tab -> [at : {"ready", "waits", "row"}, copy : Copy]]
  BY <1>2, <1>5, <1>6, HeardTypes DEF Commits
<1>8. draft' \in [status : {"absent", "DRAFT", "CONFIRMED"},
                  revision : 0..(MaxMessages + 1), content : Content]
  BY <1>2, <1>4 DEF Commits, TypeOK
<1>9. record' \in [Message -> Copy]
  BY <1>2, <1>5 DEF Commits, TypeOK
<1>10. commitsLost' \in 0..MaxFaults
  <2>1. commitsLost' \in Nat /\ commitsLost' <= faults'
    <3>1. commitsLost' = commitsLost \/ commitsLost' = commitsLost + 1
      BY DEF Change, Update, UpdateSettings, AnswerClarification, CreateMaterial,
             DeleteMaterial, CommitLost, Applies
    <3>2. QED
      BY <3>1, ChangeFacts, Bounds DEF TypeOK
  <2>2. QED
    BY <1>7, <2>1, Bounds
<1>11. files' \subseteq Message /\ unlinking' \subseteq Message
  <2>1. \A m \in DOMAIN sent : Files(m) \subseteq Message
    BY SentTypes DEF Files, Path
  <2>2. QED
    BY <2>1 DEF Change, Update, UpdateSettings, AnswerClarification, CreateMaterial,
             DeleteMaterial, CommitLost, TypeOK, disk
<1>12. QED
  BY <1>2, <1>7, <1>8, <1>9, <1>10, <1>11 DEF Commits, TypeOK

LEMMA TypeStep == TypeOK /\ RowsInv /\ [Next]_vars => TypeOK'
<1> SUFFICES ASSUME TypeOK, RowsInv, [Next]_vars PROVE TypeOK'
  OBVIOUS
<1>1. ASSUME NEW n \in DOMAIN sent, Confirm(n) PROVE TypeOK'
  <2>1. /\ Confirms(n) /\ Hears(n, "done") /\ Sees(sent[n].by, Current)
        /\ UNCHANGED <<commitsLost, disk>>
    BY <1>1, ConfirmFacts
  <2>2. /\ open' \subseteq DOMAIN sent' /\ faults' \in 0..MaxFaults
        /\ told' \in [Message -> {"nothing", "done", "refused"}]
        /\ tab' \in [Tab -> [at : {"ready", "waits", "row"}, copy : Copy]]
    BY <2>1, DraftTypes, HeardTypes DEF Confirms
  <2>3. [input |-> draft.content, by |-> n] \in [input : Content, by : Message]
    BY DraftTypes, SentTypes
  <2>4. runs' \in Seq([input : Content, by : Message])
    BY <2>1, <2>3 DEF Confirms, TypeOK
  <2>5. record' \in [Message -> Copy]
    BY <2>1, DraftTypes DEF Confirms, TypeOK
  <2>6. draft' \in [status : {"absent", "DRAFT", "CONFIRMED"},
                    revision : 0..(MaxMessages + 1), content : Content]
    BY <2>1 DEF Confirms, TypeOK
  <2>7. QED
    BY <2>1, <2>2, <2>4, <2>5, <2>6 DEF Confirms, TypeOK, disk
<1>2. ASSUME NEW n \in DOMAIN sent, Create(n) PROVE TypeOK'
  <2> DEFINE copy == [revision |-> 1, content |-> NewContent]
  <2>1. 1 \in 0..(MaxMessages + 1) /\ copy \in Copy
    BY Bounds, StartTypes DEF Copy
  <2> HIDE DEF copy
  <2>2. /\ record' = [record EXCEPT ![n] = copy]
        /\ Hears(n, "done") /\ Sees(sent[n].by, copy)
        /\ UNCHANGED <<runs, sent, commitsLost, files, unlinking>>
    BY <1>2, CreateFacts DEF copy
  <2>3. /\ open' \subseteq DOMAIN sent' /\ faults' \in 0..MaxFaults
        /\ told' \in [Message -> {"nothing", "done", "refused"}]
        /\ tab' \in [Tab -> [at : {"ready", "waits", "row"}, copy : Copy]]
    BY <2>1, <2>2, HeardTypes
  <2>4. record' \in [Message -> Copy]
    BY <2>1, <2>2 DEF TypeOK
  <2>5. draft' \in [status : {"absent", "DRAFT", "CONFIRMED"},
                    revision : 0..(MaxMessages + 1), content : Content]
    BY <1>2, <2>1, CreateFacts, StartTypes
  <2>6. applied' \subseteq DOMAIN sent' /\ notice' \in {"none", "unread", "read"}
    BY <1>2, <2>2, CreateFacts DEF TypeOK, Notified
  <2>7. QED
    BY <2>2, <2>3, <2>4, <2>5, <2>6 DEF TypeOK
<1>3. ASSUME NEW n \in DOMAIN sent, Replay(n) \/ Refuse(n) PROVE TypeOK'
  <2>1. PICK word \in {"done", "refused"}, copy \in Copy : Repeats(n, word, copy)
    BY <1>3, AnswerFacts
  <2>2. /\ open' \subseteq DOMAIN sent' /\ faults' \in 0..MaxFaults
        /\ told' \in [Message -> {"nothing", "done", "refused"}]
        /\ tab' \in [Tab -> [at : {"ready", "waits", "row"}, copy : Copy]]
    BY <2>1, HeardTypes DEF Repeats
  <2>3. QED
    BY <2>1, <2>2 DEF Repeats, TypeOK, rows, disk
<1>4. ASSUME NEW t \in Tab, AskCreate(t) \/ AskChange(t) PROVE TypeOK'
  <2>1. PICK m \in Request : Asks(t, m)
    BY <1>4, AskFacts
  <2>2. /\ sent' \in Seq(Request) /\ Len(sent') <= MaxMessages
        /\ DOMAIN sent' = DOMAIN sent \union {Len(sent) + 1}
    BY <2>1, Bounds DEF Asks, TypeOK
  <2>3. QED
    BY <2>1, <2>2 DEF Asks, TypeOK, rows, disk, past, bounds
<1>5. ASSUME NEW t \in Tab, Reads(t) PROVE TypeOK'
  <2>1. tab[t].copy \in Copy
    BY DEF TypeOK
  <2>2. RowRead(tab[t].copy) \in Copy /\ MaterialsRead(tab[t].copy) \in Copy
    BY <2>1, DraftTypes DEF RowRead, MaterialsRead, Copy, Content, TypeOK
  <2>3. tab' \in [Tab -> [at : {"ready", "waits", "row"}, copy : Copy]]
    <3>1. PICK phase \in {"ready", "row"}, copy \in Copy : Shows(t, phase, copy)
      BY <1>5, <2>2 DEF Reads, LoadRow, LoadMaterials
    <3>2. QED
      BY <3>1 DEF Shows, TypeOK
  <2>4. QED
    BY <1>5, <2>3 DEF Reads, LoadRow, LoadMaterials, TypeOK, rows, disk, net, past, bounds
<1>6. ASSUME Aside, files' \subseteq Message, unlinking' \subseteq Message PROVE TypeOK'
  BY <1>6 DEF Aside, TypeOK, net, past
<1>7. CASE \/ ReadNotice \/ UNCHANGED vars
           \/ \E n \in DOMAIN sent : DieInCreate(n)
           \/ \E id \in Message : Unlink(id) \/ DieBeforeUnlink(id)
  <2>1. \A m \in DOMAIN sent : Files(m) \subseteq Message
    BY SentTypes DEF Files, Path
  <2>2. files' \subseteq Message /\ unlinking' \subseteq Message
    BY <1>7, <2>1 DEF ReadNotice, vars, disk, DieInCreate, Unlink, DieBeforeUnlink, TypeOK
  <2>3. QED
    BY <1>6, <1>7, <2>2, AsideFacts
<1>8. QED
  BY <1>1, <1>2, <1>3, <1>4, <1>5, <1>7, ChangeTypes DEF Next, Change, Reads

-----------------------------------------------------------------------------
(* Copies stay true: a draft that changes has a new revision.              *)

Moves ==
    /\ draft'.revision \in Nat
    /\ \/ draft'.revision > draft.revision
       \/ draft'.revision = draft.revision /\ draft'.content = draft.content

LEMMA TruthStays ==
  ASSUME TypeOK, Moves, NEW copy \in Copy
  PROVE  /\ CopyTrue(copy) => CopyTrue(copy)'
         /\ RowTrue(copy) => RowTrue(copy)'
<1>1. copy.revision \in Nat /\ draft.revision \in Nat
  BY DraftTypes, Bounds DEF Copy
<1>2. QED
  BY <1>1 DEF Moves, CopyTrue, RowTrue

LEMMA CopiesStay ==
  ASSUME TypeOK, CopiesTrue, Moves, NEW n \in DOMAIN sent, UNCHANGED sent,
         NEW x \in Copy, CopyTrue(x)', NEW y \in Copy, CopyTrue(y)',
         UNCHANGED record \/ record' = [record EXCEPT ![n] = x], Sees(sent[n].by, y)
  PROVE  CopiesTrue'
<1>1. ASSUME NEW m \in DOMAIN sent' PROVE CopyTrue(sent[m].seen)'
  <2>1. PICK z \in Copy : z = sent[m].seen /\ CopyTrue(z)
    BY SentTypes DEF CopiesTrue, Request
  <2>2. CopyTrue(z)'
    BY <2>1, TruthStays
  <2>3. QED
    BY <2>1, <2>2 DEF CopyTrue
<1>2. ASSUME NEW m \in Message PROVE CopyTrue(record[m])'
  <2>1. PICK z \in Copy : z = record[m] /\ CopyTrue(z)
    BY DEF CopiesTrue, TypeOK
  <2>2. CopyTrue(z)'
    BY <2>1, TruthStays
  <2>3. record'[m] = z \/ record'[m] = x
    BY <2>1 DEF TypeOK
  <2>4. QED
    BY <2>2, <2>3 DEF CopyTrue
<1>3. ASSUME NEW t \in Tab
      PROVE  (IF tab[t].at = "row" THEN RowTrue(tab[t].copy) ELSE CopyTrue(tab[t].copy))'
  <2>1. PICK z \in Copy : z = tab[t].copy
    BY DEF TypeOK
  <2>2. /\ tab[t].at = "row" => RowTrue(z)'
        /\ tab[t].at # "row" => CopyTrue(z)'
    BY <2>1, TruthStays DEF CopiesTrue
  <2>3. \/ tab'[t] = tab[t]
        \/ tab'[t].at \in {"ready", "waits"} /\ tab'[t].copy = y
    BY DEF Sees, Shows, TypeOK
  <2>4. QED
    BY <2>1, <2>2, <2>3 DEF CopyTrue, RowTrue
<1>4. QED
  BY <1>1, <1>2, <1>3 DEF CopiesTrue

-----------------------------------------------------------------------------
(* The rows, step by step.                                                 *)

\* What is told stays true when the word is true of the request.
LEMMA HeardRows ==
  ASSUME TypeOK, RowsInv, NEW n \in DOMAIN sent, n \in open, UNCHANGED sent,
         applied \subseteq applied', applied' \subseteq applied \union {n},
         NEW word \in {"done", "refused"}, Hears(n, word),
         word = "done" => n \in applied', word = "refused" => n \notin applied',
         n \notin open' \/ record'[n] # NoCopy \/ applied' = applied,
         record'[n] # NoCopy => n \in applied',
         \A m \in Message : m # n => record'[m] = record[m],
         record[n] # NoCopy => record'[n] # NoCopy
  PROVE  /\ EffectsOver' /\ AnswersTrue'
         /\ \A m \in Message : told'[m] # "nothing" => m \in DOMAIN sent
<1>1. told[n] = "nothing" /\ n \in Message
  BY SentTypes DEF RowsInv, EffectsOver
<1>2. \A m \in Message : \/ told'[m] = told[m]
                         \/ m = n /\ told'[m] = word /\ n \notin open'
  BY DEF Hears, TypeOK
<1>3. applied \subseteq Message /\ open' \subseteq open
  BY SentTypes DEF TypeOK, Hears
<1>4. \A m \in applied' : m \notin open' \/ record'[m] # NoCopy
  <2>1. ASSUME NEW m \in applied' PROVE m \notin open' \/ record'[m] # NoCopy
    <3>1. CASE m = n
      BY <3>1, <1>3 DEF RowsInv, EffectsOver
    <3>2. CASE m # n
      BY <3>2, <1>3 DEF RowsInv, EffectsOver
    <3>3. QED
      BY <3>1, <3>2
  <2>2. QED
    BY <2>1
<1>5. \A m \in Message : record'[m] # NoCopy => m \in applied'
  BY DEF RowsInv, EffectsOver
<1>6. \A m \in Message : told'[m] # "nothing" => m \notin open'
  BY <1>2, <1>3 DEF RowsInv, EffectsOver
<1>7. EffectsOver'
  BY <1>4, <1>5, <1>6 DEF EffectsOver
<1>8. ASSUME NEW m \in DOMAIN sent
      PROVE  /\ told'[m] = "done" => m \in applied'
             /\ told'[m] = "refused" => m \notin applied'
  <2>1. m \in Message
    BY SentTypes
  <2>2. CASE m = n
    BY <1>1, <1>2, <2>1, <2>2
  <2>3. CASE m # n
    BY <1>2, <2>1, <2>3 DEF RowsInv, AnswersTrue
  <2>4. QED
    BY <2>2, <2>3
<1>9. AnswersTrue'
  BY <1>8 DEF AnswersTrue
<1>10. \A m \in Message : told'[m] # "nothing" => m \in DOMAIN sent
  BY <1>1, <1>2 DEF RowsInv, WellAsked
<1>11. QED
  BY <1>7, <1>9, <1>10

LEMMA ChangeRows ==
  ASSUME TypeOK, RowsInv, TypeOK', NEW n \in DOMAIN sent, Change(n)
  PROVE  RowsInv'
<1>1. PICK c \in Content, r \in {draft.revision, draft.revision + 1} : Changes(n, c, r)
  BY ChangeFacts
<1>2. /\ n \in open /\ n \notin applied /\ record[n] = NoCopy /\ draft.status = "DRAFT"
      /\ sent[n].op # "create"
  BY ChangeFacts, AcceptedFacts
<1>3. PICK copy \in {sent[n].seen, [revision |-> r, content |-> c]} :
         Commits(n, c, r) /\ Hears(n, "done") /\ Sees(sent[n].by, copy)
  BY <1>1 DEF Changes
<1>4. /\ draft' = [draft EXCEPT !.revision = r, !.content = c]
      /\ applied' = applied \union {n} /\ UNCHANGED <<runs, sent>>
      /\ r = draft.revision + 1 \/ (r = draft.revision /\ c = draft.content)
  BY <1>3 DEF Commits
<1>5. /\ draft'.revision = r /\ draft'.content = c /\ draft'.status = "DRAFT"
      /\ draft.revision \in Nat /\ draft.revision # 0
  BY <1>2, <1>4, DraftTypes DEF TypeOK, RowsInv, CreatedOnce
<1>6. Moves
  BY <1>4, <1>5 DEF Moves
<1>7. r \in 0..(MaxMessages + 1) /\ n \in Message
  BY <1>2, RoomLeft, SentTypes DEF RowsInv, TypeOK
<1>8. PICK new \in Copy : new = [revision |-> r, content |-> c]
  BY <1>7 DEF Copy
<1>9. new # NoCopy
  BY <1>4, <1>5, <1>8 DEF NoCopy
<1>10. CopyTrue(new)'
  BY <1>5, <1>7, <1>8 DEF CopyTrue
<1>11. copy \in Copy /\ CopyTrue(copy)'
  <2>1. PICK seen \in Copy : seen = sent[n].seen /\ CopyTrue(seen)
    BY SentTypes DEF RowsInv, CopiesTrue, Request
  <2>2. CopyTrue(seen)'
    BY <1>6, <2>1, TruthStays
  <2>3. QED
    BY <1>3, <1>8, <1>10, <2>1, <2>2
<1>12. (UNCHANGED record /\ n \notin open') \/ record' = [record EXCEPT ![n] = new]
  BY <1>3, <1>8 DEF Commits
<1>13. CopiesTrue'
  BY <1>3, <1>4, <1>6, <1>10, <1>11, <1>12, CopiesStay DEF RowsInv
<1>14. /\ EffectsOver' /\ AnswersTrue'
       /\ \A m \in Message : told'[m] # "nothing" => m \in DOMAIN sent
  <2>1. n \notin open' \/ record'[n] # NoCopy \/ applied' = applied
    BY <1>7, <1>9, <1>12 DEF TypeOK
  <2>2. \A m \in Message : m # n => record'[m] = record[m]
    BY <1>12 DEF TypeOK
  <2>3. n \in applied' /\ applied \subseteq applied'
    BY <1>4
  <2>4. QED
    BY <1>2, <1>3, <1>4, <2>1, <2>2, <2>3, HeardRows
<1>15. WellAsked'
  BY <1>4, <1>14 DEF RowsInv, WellAsked
<1>16. Counted'
  <2>1. /\ Cardinality(applied \union {n}) = Cardinality(applied) + 1
        /\ Cardinality(applied) \in Nat
    BY <1>2, RoomLeft DEF RowsInv
  <2>2. Cardinality(applied') = Cardinality(applied) + 1
    BY <1>4, <2>1
  <2>3. draft'.revision <= Cardinality(applied')
    BY <1>4, <1>5, <2>1, <2>2 DEF RowsInv, Counted
  <2>4. QED
    BY <2>3, ChangeFacts DEF Counted
<1>17. CreatedOnce'
  <2>1. draft'.revision # 0
    BY <1>4, <1>5
  <2>2. ASSUME NEW m \in DOMAIN sent', sent'[m].op = "create" PROVE record'[m] # NoCopy
    <3>1. m # n /\ m \in Message /\ record[m] # NoCopy
      BY <1>2, <1>4, <2>2, SentTypes DEF RowsInv, CreatedOnce
    <3>2. QED
      BY <1>12, <3>1 DEF TypeOK
  <2>3. QED
    BY <1>4, <1>5, <2>1, <2>2 DEF RowsInv, CreatedOnce
<1>18. TextSettled'
  BY <1>1, <1>5 DEF Changes, TextBy, TextSettled, Pending
<1>19. ConfirmedAsSeen'
  <2>1. runs = << >>
    BY <1>2 DEF RowsInv, ConfirmedAsSeen
  <2>2. QED
    BY <1>4, <1>5, <2>1 DEF ConfirmedAsSeen
<1>20. QED
  BY <1>13, <1>14, <1>15, <1>16, <1>17, <1>18, <1>19 DEF RowsInv

LEMMA ConfirmRows ==
  ASSUME TypeOK, RowsInv, TypeOK', NEW n \in DOMAIN sent, Confirm(n)
  PROVE  RowsInv'
<1>1. /\ n \in open /\ n \notin applied /\ record[n] = NoCopy /\ draft.status = "DRAFT"
      /\ sent[n].op = "confirm" /\ Fits(sent[n]) /\ sent[n].seen.content = draft.content
  BY ConfirmFacts, AcceptedFacts
<1>2. /\ draft' = [draft EXCEPT !.status = "CONFIRMED"]
      /\ runs' = Append(runs, [input |-> draft.content, by |-> n])
      /\ record' = [record EXCEPT ![n] = Current]
      /\ applied' = applied \union {n} /\ UNCHANGED sent
      /\ Hears(n, "done") /\ Sees(sent[n].by, Current) /\ UNCHANGED commitsLost
  BY ConfirmFacts DEF Confirms
<1>3. /\ draft'.status = "CONFIRMED" /\ draft'.revision = draft.revision
      /\ draft'.content = draft.content /\ draft.revision \in Nat /\ draft.revision # 0
  BY <1>1, <1>2, DraftTypes DEF TypeOK, RowsInv, CreatedOnce
<1>4. Moves
  BY <1>3 DEF Moves
<1>5. PICK now \in Copy : now = Current /\ CopyTrue(now)' /\ now # NoCopy
  BY <1>3, DraftTypes DEF CopyTrue, NoCopy
<1>6. CopiesTrue'
  BY <1>2, <1>4, <1>5, CopiesStay DEF RowsInv
<1>7. n \in Message
  BY SentTypes
<1>8. /\ EffectsOver' /\ AnswersTrue'
      /\ \A m \in Message : told'[m] # "nothing" => m \in DOMAIN sent
  <2>1. record'[n] # NoCopy /\ \A m \in Message : m # n => record'[m] = record[m]
    BY <1>2, <1>5, <1>7 DEF TypeOK
  <2>2. n \in applied' /\ applied \subseteq applied'
    BY <1>2
  <2>3. QED
    BY <1>1, <1>2, <2>1, <2>2, HeardRows
<1>9. runs = << >> /\ draft.content.step = Questions
  <2>1. runs = << >>
    BY <1>1 DEF RowsInv, ConfirmedAsSeen
  <2>2. ~Pending
    BY <1>1 DEF Fits, SettledFirst
  <2>3. QED
    BY <2>1, <2>2, DraftTypes, Bounds DEF Pending, Content
<1>10. Len(runs') = 1 /\ DOMAIN runs' = {1} /\ runs'[1] = [input |-> draft.content, by |-> n]
  BY <1>2, <1>9
<1>11. WellAsked'
  BY <1>2, <1>8, <1>10 DEF RowsInv, WellAsked
<1>12. Counted'
  <2>1. /\ Cardinality(applied \union {n}) = Cardinality(applied) + 1
        /\ Cardinality(applied) \in Nat
    BY <1>1, RoomLeft DEF RowsInv
  <2>2. Cardinality(applied') = Cardinality(applied) + 1
    BY <1>2, <2>1
  <2>3. commitsLost' <= faults'
    BY <1>2, Bounds DEF RowsInv, Counted, Hears, TypeOK
  <2>4. QED
    BY <1>3, <2>1, <2>2, <2>3 DEF RowsInv, Counted
<1>13. CreatedOnce'
  <2>1. ASSUME NEW m \in DOMAIN sent', sent'[m].op = "create" PROVE record'[m] # NoCopy
    <3>1. m \in Message /\ record[m] # NoCopy
      BY <1>1, <1>2, <2>1, SentTypes DEF RowsInv, CreatedOnce
    <3>2. QED
      BY <1>2, <1>5, <3>1 DEF TypeOK
  <2>2. QED
    BY <1>2, <1>3, <2>1 DEF RowsInv, CreatedOnce
<1>14. TextSettled'
  BY <1>3 DEF RowsInv, TextSettled, Pending
<1>15. ConfirmedAsSeen'
  BY <1>1, <1>2, <1>3, <1>9, <1>10 DEF ConfirmedAsSeen
<1>16. QED
  BY <1>6, <1>8, <1>11, <1>12, <1>13, <1>14, <1>15 DEF RowsInv

LEMMA CreateRows ==
  ASSUME TypeOK, RowsInv, TypeOK', NEW n \in DOMAIN sent, Create(n)
  PROVE  RowsInv'
<1>1. /\ draft.status = "absent" /\ draft.revision = 0 /\ record[n] = NoCopy
      /\ n \in open /\ n \notin applied /\ sent[n].op = "create"
      /\ draft' = [status |-> "DRAFT", revision |-> 1, content |-> NewContent]
      /\ applied' = applied \union {n} /\ Hears(n, "done")
      /\ UNCHANGED <<runs, sent, commitsLost>>
  BY CreateFacts
<1>2. /\ draft'.status = "DRAFT" /\ draft'.revision = 1 /\ draft'.content = NewContent
  BY <1>1
<1>3. PICK now \in Copy : now = [revision |-> 1, content |-> NewContent]
  <2>1. 1 \in 0..(MaxMessages + 1)
    BY Bounds
  <2>2. [revision |-> 1, content |-> NewContent] \in Copy
    BY <2>1, StartTypes DEF Copy
  <2>3. QED
    BY <2>2
<1>4. /\ record' = [record EXCEPT ![n] = now] /\ Sees(sent[n].by, now)
      /\ now # NoCopy /\ CopyTrue(now)'
  BY <1>2, <1>3, CreateFacts DEF NoCopy, CopyTrue
<1>5. Moves
  BY <1>1, <1>2 DEF Moves
<1>6. CopiesTrue'
  BY <1>1, <1>4, <1>5, CopiesStay DEF RowsInv
<1>7. n \in Message
  BY SentTypes
<1>8. /\ EffectsOver' /\ AnswersTrue'
      /\ \A m \in Message : told'[m] # "nothing" => m \in DOMAIN sent
  <2>1. record'[n] # NoCopy /\ \A m \in Message : m # n => record'[m] = record[m]
    BY <1>4, <1>7 DEF TypeOK
  <2>2. n \in applied' /\ applied \subseteq applied'
    BY <1>1
  <2>3. QED
    BY <1>1, <2>1, <2>2, HeardRows
<1>9. WellAsked'
  BY <1>1, <1>8 DEF RowsInv, WellAsked
<1>10. Counted'
  <2>1. /\ Cardinality(applied \union {n}) = Cardinality(applied) + 1
        /\ Cardinality(applied) \in Nat
    BY <1>1, RoomLeft DEF RowsInv
  <2>2. Cardinality(applied') = Cardinality(applied) + 1
    BY <1>1, <2>1
  <2>3. commitsLost' <= faults'
    BY <1>1, Bounds DEF RowsInv, Counted, Hears, TypeOK
  <2>4. QED
    BY <1>2, <2>1, <2>2, <2>3 DEF Counted
<1>11. CreatedOnce'
  <2>1. ASSUME NEW m \in DOMAIN sent', sent'[m].op = "create" PROVE record'[m] # NoCopy
    <3>1. m = n
      BY <1>1, <2>1 DEF RowsInv, CreatedOnce
    <3>2. QED
      BY <1>4, <1>7, <3>1 DEF TypeOK
  <2>2. QED
    BY <1>1, <1>2, <2>1 DEF RowsInv, CreatedOnce
<1>12. TextSettled'
  BY <1>2 DEF TextSettled, NewContent
<1>13. ConfirmedAsSeen'
  <2>1. runs = << >>
    BY <1>1 DEF RowsInv, ConfirmedAsSeen
  <2>2. QED
    BY <1>1, <1>2, <2>1 DEF ConfirmedAsSeen
<1>14. QED
  BY <1>6, <1>8, <1>9, <1>10, <1>11, <1>12, <1>13 DEF RowsInv

LEMMA AnswerRows ==
  ASSUME TypeOK, RowsInv, TypeOK', NEW n \in DOMAIN sent, Replay(n) \/ Refuse(n)
  PROVE  RowsInv'
<1>1. PICK word \in {"done", "refused"}, copy \in Copy : Repeats(n, word, copy) /\ CopyTrue(copy)
  BY AnswerFacts
<1>2. /\ Hears(n, word) /\ Sees(sent[n].by, copy) /\ n \in open
      /\ \/ word = "done" /\ n \in applied
         \/ word = "refused" /\ n \notin applied
      /\ UNCHANGED <<draft, runs, record, sent, applied, commitsLost>>
  BY <1>1 DEF Repeats, rows
<1>3. Moves
  BY <1>2, DraftTypes DEF Moves
<1>4. CopyTrue(copy)'
  BY <1>1, <1>3, TruthStays
<1>5. CopiesTrue'
  BY <1>2, <1>3, <1>4, CopiesStay DEF RowsInv
<1>6. n \in Message
  BY SentTypes
<1>7. /\ EffectsOver' /\ AnswersTrue'
      /\ \A m \in Message : told'[m] # "nothing" => m \in DOMAIN sent
  <2>1. /\ \A m \in Message : m # n => record'[m] = record[m]
        /\ record'[n] # NoCopy => n \in applied'
        /\ applied \subseteq applied' /\ applied' \subseteq applied \union {n}
    BY <1>2, <1>6 DEF RowsInv, EffectsOver
  <2>2. applied' = applied /\ record'[n] = record[n]
    BY <1>2
  <2>3. (word = "done" => n \in applied') /\ (word = "refused" => n \notin applied')
    BY <1>2
  <2>4. QED
    BY <1>2, <2>1, <2>2, <2>3, HeardRows
<1>8. WellAsked'
  BY <1>2, <1>7 DEF RowsInv, WellAsked
<1>9. Counted'
  BY <1>2, Bounds DEF RowsInv, Counted, Hears, TypeOK
<1>10. CreatedOnce' /\ TextSettled' /\ ConfirmedAsSeen'
  BY <1>2 DEF RowsInv, CreatedOnce, TextSettled, Pending, ConfirmedAsSeen
<1>11. QED
  BY <1>5, <1>7, <1>8, <1>9, <1>10 DEF RowsInv

LEMMA AskRows ==
  ASSUME TypeOK, RowsInv, TypeOK', NEW t \in Tab, AskCreate(t) \/ AskChange(t)
  PROVE  RowsInv'
<1>1. PICK m \in Request : Asks(t, m)
  BY AskFacts
<1>2. /\ m.by = t /\ m.seen = tab[t].copy /\ tab[t].at = "ready"
      /\ m.op = "edit" => m.arg \in Text
      /\ m.op = "set" => m.arg \in Setting \union {Default}
      /\ m.op = "add" => m.arg \in Matter
      /\ m.op = "create" => \A n \in DOMAIN sent : sent[n].op # "create"
      /\ Len(sent) < MaxMessages
      /\ sent' = Append(sent, m) /\ open' = open \union {Len(sent) + 1}
      /\ UNCHANGED <<draft, runs, record, tab, told, applied, faults, commitsLost>>
  BY <1>1 DEF Asks, rows, past, bounds
<1> DEFINE k == Len(sent) + 1
<1>3. /\ DOMAIN sent' = DOMAIN sent \union {k} /\ k \notin DOMAIN sent
      /\ sent'[k] = m /\ \A n \in DOMAIN sent : sent'[n] = sent[n]
      /\ DOMAIN sent \subseteq DOMAIN sent'
  BY <1>2, SentTypes DEF TypeOK
<1> HIDE DEF k
<1>4. k \notin applied /\ k \in Message
  <2>1. applied \subseteq DOMAIN sent
    BY DEF TypeOK
  <2>2. k \in 1..MaxMessages
    BY <1>2, SentTypes, Bounds DEF k
  <2>3. QED
    BY <1>3, <2>1, <2>2 DEF Message
<1>5. record[k] = NoCopy /\ told[k] = "nothing"
  BY <1>3, <1>4 DEF RowsInv, EffectsOver, WellAsked
<1>6. CopiesTrue'
  <2>1. CopyTrue(m.seen)
    BY <1>2 DEF RowsInv, CopiesTrue
  <2>2. ASSUME NEW n \in DOMAIN sent' PROVE CopyTrue(sent[n].seen)'
    BY <1>2, <1>3, <2>1, <2>2 DEF RowsInv, CopiesTrue, CopyTrue
  <2>3. QED
    BY <1>2, <2>2 DEF RowsInv, CopiesTrue, CopyTrue, RowTrue
<1>7. WellAsked'
  BY <1>2, <1>3 DEF RowsInv, WellAsked
<1>8. Counted'
  BY <1>2 DEF RowsInv, Counted
<1>9. CreatedOnce'
  <2>1. ASSUME NEW a \in DOMAIN sent', NEW b \in DOMAIN sent', sent'[a].op = "create",
               sent'[b].op = "create"
        PROVE  a = b
    BY <1>2, <1>3, <2>1 DEF RowsInv, CreatedOnce
  <2>2. draft.status # "absent" => m.op # "create"
    BY <1>2 DEF RowsInv, CreatedOnce
  <2>3. QED
    BY <1>2, <1>3, <2>1, <2>2 DEF RowsInv, CreatedOnce
<1>10. EffectsOver'
  BY <1>2, <1>4, <1>5 DEF RowsInv, EffectsOver, k
<1>11. TextSettled'
  BY <1>2 DEF RowsInv, TextSettled, Pending
<1>12. ConfirmedAsSeen'
  BY <1>2, <1>3 DEF RowsInv, ConfirmedAsSeen, WellAsked
<1>13. AnswersTrue'
  BY <1>2, <1>3, <1>5 DEF RowsInv, AnswersTrue
<1>14. QED
  BY <1>6, <1>7, <1>8, <1>9, <1>10, <1>11, <1>12, <1>13 DEF RowsInv

\* What a tab reads is what the draft's row says, and later its materials.
LEMMA ReadRows ==
  ASSUME TypeOK, RowsInv, TypeOK', NEW t \in Tab, Reads(t)
  PROVE  RowsInv'
<1>1. /\ UNCHANGED <<draft, runs, record, sent, open, told, applied, faults, commitsLost>>
      /\ tab[t].copy \in Copy
  BY DEF Reads, LoadRow, LoadMaterials, rows, net, past, bounds, TypeOK
<1>2. CopiesTrue'
  <2>1. ASSUME NEW phase, NEW copy, Shows(t, phase, copy),
               IF phase = "row" THEN RowTrue(copy) ELSE CopyTrue(copy)
        PROVE  CopiesTrue'
    BY <1>1, <2>1 DEF Shows, RowsInv, CopiesTrue, CopyTrue, RowTrue, TypeOK
  <2>2. CASE LoadRow(t)
    <3>1. RowTrue(RowRead(tab[t].copy))
      <4>1. PICK m \in SUBSET Material : m = tab[t].copy.content.materials
        BY <1>1 DEF Copy, Content
      <4>2. RowRead(tab[t].copy) =
              [revision |-> draft.revision, content |-> [draft.content EXCEPT !.materials = m]]
        BY <4>1 DEF RowRead
      <4>3. [[draft.content EXCEPT !.materials = m] EXCEPT !.materials = draft.content.materials]
               = draft.content
        BY DraftTypes DEF Content
      <4>4. QED
        BY <4>2, <4>3, DraftTypes DEF RowTrue
    <3>2. Shows(t, "row", RowRead(tab[t].copy))
      BY <2>2 DEF LoadRow
    <3>3. QED
      BY <2>1, <3>1, <3>2
  <2>3. CASE LoadMaterials(t)
    <3>1. RowTrue(tab[t].copy)
      BY <2>3 DEF LoadMaterials, RowsInv, CopiesTrue
    <3>2. CopyTrue(MaterialsRead(tab[t].copy))
      BY <1>1, <3>1, DraftTypes DEF RowTrue, CopyTrue, MaterialsRead, Copy, Content
    <3>3. Shows(t, "ready", MaterialsRead(tab[t].copy))
      BY <2>3 DEF LoadMaterials
    <3>4. QED
      BY <2>1, <3>2, <3>3
  <2>4. QED
    BY <2>2, <2>3 DEF Reads
<1>3. QED
  BY <1>1, <1>2 DEF RowsInv, WellAsked, Counted, CreatedOnce, EffectsOver, TextSettled, Pending,
     ConfirmedAsSeen, AnswersTrue

LEMMA AsideRows ==
  ASSUME TypeOK, RowsInv, Aside
  PROVE  RowsInv'
<1>1. /\ UNCHANGED <<draft, runs, record, tab, sent, open, told, applied, commitsLost>>
      /\ faults <= faults' /\ faults' \in Nat /\ faults \in Nat /\ commitsLost \in Nat
  BY Bounds DEF Aside, net, past, TypeOK
<1>2. CopiesTrue' /\ Counted'
  BY <1>1 DEF RowsInv, CopiesTrue, CopyTrue, RowTrue, Counted
<1>3. QED
  BY <1>1, <1>2 DEF RowsInv, WellAsked, CreatedOnce, EffectsOver, TextSettled, Pending,
     ConfirmedAsSeen, AnswersTrue

LEMMA RowsStep == TypeOK /\ RowsInv /\ TypeOK' /\ [Next]_vars => RowsInv'
<1> SUFFICES ASSUME TypeOK, RowsInv, TypeOK', [Next]_vars PROVE RowsInv'
  OBVIOUS
<1>1. CASE \/ ReadNotice \/ UNCHANGED vars
           \/ \E n \in DOMAIN sent : DieInCreate(n)
           \/ \E id \in Message : Unlink(id) \/ DieBeforeUnlink(id)
  BY <1>1, AsideFacts, AsideRows
<1>2. QED
  BY <1>1, ChangeRows, ConfirmRows, CreateRows, AnswerRows, AskRows, ReadRows
     DEF Next, Change, Reads

-----------------------------------------------------------------------------
(* Files.                                                                  *)

\* Files may come, and those of the draft's materials stay.
LEMMA FilesStay ==
  ASSUME TypeOK, FilesApart, UNCHANGED draft, applied \subseteq applied',
         commitsLost' = commitsLost,
         unlinking' \subseteq unlinking,
         \A id \in Ids : id \in files => id \in files'
  PROVE  FilesApart'
<1>1. Ids' = Ids /\ \A x \in draft.content.materials : x.id \in Ids
  BY DEF Ids
<1>2. QED
  BY <1>1 DEF FilesApart, FilesKept, Path

LEMMA ChangeFiles ==
  ASSUME TypeOK, RowsInv, FilesApart, NEW n \in DOMAIN sent, Change(n)
  PROVE  FilesApart'
<1>1. n \notin applied /\ n \in Message
  BY ChangeFacts, AcceptedFacts, SentTypes
<1>2. applied' = applied \union {n}
  BY ChangeFacts DEF Changes, Commits
<1>3. n \notin Ids /\ n \notin unlinking
  BY <1>1 DEF FilesApart, Ids
<1>4. \A x \in draft.content.materials : x.id \in Ids
  BY DEF Ids
<1>5. CASE Update(n) \/ UpdateSettings(n) \/ AnswerClarification(n)
  <2>1. UNCHANGED <<files, unlinking, commitsLost>>
    BY <1>5 DEF Update, UpdateSettings, AnswerClarification, Applies, disk
  <2>2. draft'.content.materials = draft.content.materials
    <3>1. ASSUME NEW c, NEW r, NEW phase, Applies(n, c, r, phase)
          PROVE  draft'.content = c
      BY <3>1 DEF Applies, TypeOK
    <3>2. CASE Update(n)
      BY <3>1, <3>2, DraftTypes DEF Update, Content
    <3>3. CASE UpdateSettings(n)
      BY <3>1, <3>3, DraftTypes DEF UpdateSettings, Content
    <3>4. CASE AnswerClarification(n)
      <4> DEFINE old == [draft.content EXCEPT !.step = @ + 1]
      <4>1. old.materials = draft.content.materials
        BY DraftTypes DEF Content
      <4>2. old = [text |-> old.text, setting |-> old.setting, step |-> old.step,
                   materials |-> old.materials]
        BY DraftTypes DEF Content
      <4> HIDE DEF old
      <4>3. Refined(old).materials = old.materials
        BY <4>2 DEF Refined
      <4>4. draft'.content = Refined(old)
        BY <3>1, <3>4 DEF AnswerClarification, old
      <4>5. QED
        BY <4>1, <4>3, <4>4
    <3>5. QED
      BY <1>5, <3>2, <3>3, <3>4
  <2>3. QED
    BY <1>2, <2>1, <2>2 DEF FilesApart, FilesKept, Ids, Path
<1>6. CASE CreateMaterial(n) \/ CommitLost(n)
  <2> DEFINE new == [id |-> n, of |-> sent[n].arg]
  <2>1. draft'.content.materials = draft.content.materials \union {new} /\ UNCHANGED unlinking
    <3>1. draft'.content = WithMaterial(n) /\ UNCHANGED unlinking
      BY <1>6 DEF CreateMaterial, CommitLost, Applies, TypeOK
    <3>2. WithMaterial(n).materials = draft.content.materials \union {new}
      BY DraftTypes DEF WithMaterial, Content
    <3>3. QED
      BY <3>1, <3>2
  <2>2. /\ \A x \in draft'.content.materials : x.id \in applied'
        /\ \A id \in unlinking' : id \in applied' /\ id \notin Ids'
    BY <1>2, <1>3, <2>1 DEF FilesApart, Ids
  <2>3. FilesKept'
    <3>1. CASE CommitLost(n)
      <4>1. commitsLost' # 0
        BY <3>1, Bounds DEF CommitLost, TypeOK
      <4>2. QED
        BY <4>1 DEF FilesKept
    <3>2. CASE CreateMaterial(n)
      <4>1. files' = files \union Files(n) /\ commitsLost' = commitsLost
        BY <3>2 DEF CreateMaterial, Applies
      <4>2. new.of \in Upload => n \in files'
        BY <4>1 DEF Files, Path
      <4>3. QED
        BY <2>1, <4>1, <4>2 DEF FilesApart, FilesKept, Path
    <3>3. QED
      BY <1>6, <3>1, <3>2
  <2>4. QED
    BY <2>2, <2>3 DEF FilesApart
<1>7. CASE DeleteMaterial(n)
  <2>1. draft'.content.materials = {x \in draft.content.materials : x.id # sent[n].id}
    BY <1>7, DraftTypes DEF DeleteMaterial, Applies, TypeOK, Content
  <2>2. /\ unlinking' \subseteq unlinking \union {sent[n].id}
        /\ UNCHANGED <<files, commitsLost>>
    BY <1>7 DEF DeleteMaterial, Applies, Path
  <2>3. sent[n].id \in Ids
    BY <1>7, AcceptedFacts DEF DeleteMaterial, Fits, SettledFirst
  <2>4. sent[n].id \in applied
    BY <2>3 DEF Ids, FilesApart
  <2>5. Ids' \subseteq Ids \ {sent[n].id}
    BY <2>1 DEF Ids
  <2>6. QED
    BY <1>2, <2>1, <2>2, <2>4, <2>5 DEF FilesApart, FilesKept, Path
<1>8. QED
  BY <1>5, <1>6, <1>7 DEF Change

LEMMA FilesStep == TypeOK /\ RowsInv /\ FilesApart /\ [Next]_vars => FilesApart'
<1> SUFFICES ASSUME TypeOK, RowsInv, FilesApart, [Next]_vars PROVE FilesApart'
  OBVIOUS
<1>1. ASSUME NEW n \in DOMAIN sent, Confirm(n) PROVE FilesApart'
  <2>1. /\ UNCHANGED <<files, unlinking, commitsLost>> /\ applied \subseteq applied'
        /\ draft'.content = draft.content
    BY <1>1 DEF Confirm, disk, TypeOK
  <2>2. QED
    BY <2>1 DEF FilesApart, FilesKept, Ids, Path
<1>2. ASSUME NEW n \in DOMAIN sent, Create(n) PROVE FilesApart'
  <2>1. /\ UNCHANGED <<files, unlinking, commitsLost>> /\ applied \subseteq applied'
        /\ draft'.content.materials = {}
    BY <1>2, CreateFacts DEF NewContent
  <2>2. QED
    BY <2>1 DEF FilesApart, FilesKept, Ids
<1>3. ASSUME NEW n \in DOMAIN sent, Replay(n) \/ Refuse(n) \/ DieInCreate(n) PROVE FilesApart'
  BY <1>3, FilesStay DEF Replay, Refuse, DieInCreate, rows, disk, past
<1>4. ASSUME NEW t \in Tab, AskCreate(t) \/ AskChange(t) \/ Reads(t) PROVE FilesApart'
  <2>1. UNCHANGED <<rows, disk, past, commitsLost>>
    BY <1>4 DEF AskCreate, AskChange, Ask, Reads, LoadRow, LoadMaterials, bounds
  <2>2. QED
    BY <2>1, FilesStay DEF rows, disk, past
<1>5. ASSUME NEW id \in Message, Unlink(id) \/ DieBeforeUnlink(id) PROVE FilesApart'
  <2>1. id \notin Ids
    BY <1>5 DEF Unlink, DieBeforeUnlink, FilesApart
  <2>2. QED
    BY <1>5, <2>1, FilesStay DEF Unlink, DieBeforeUnlink, rows, past, bounds
<1>6. CASE ReadNotice \/ UNCHANGED vars
  BY <1>6, FilesStay DEF ReadNotice, vars, rows, disk, past, bounds
<1>7. QED
  BY <1>1, <1>2, <1>3, <1>4, <1>5, <1>6, ChangeFiles DEF Next, Change, Reads

-----------------------------------------------------------------------------
LEMMA DraftStart == Init => DraftInv
<1> SUFFICES ASSUME Init PROVE DraftInv
  OBVIOUS
<1>1. /\ draft = [status |-> "absent", revision |-> 0, content |-> NewContent]
      /\ runs = << >> /\ files = {} /\ unlinking = {} /\ notice = "none" /\ sent = << >>
      /\ open = {} /\ applied = {} /\ faults = 0 /\ commitsLost = 0
      /\ record = [n \in Message |-> NoCopy] /\ told = [n \in Message |-> "nothing"]
      /\ tab = [t \in Tab |-> [at |-> "ready", copy |-> NoCopy]]
  BY DEF Init
<1>2. DOMAIN sent = {} /\ DOMAIN runs = {} /\ Len(sent) = 0 /\ Len(runs) = 0
  BY <1>1
<1>3. TypeOK
  <2>1. 0 \in 0..(MaxMessages + 1) /\ 0 \in 0..MaxFaults /\ 0 <= MaxMessages
    BY Bounds
  <2>2. sent \in Seq(Request) /\ runs \in Seq([input : Content, by : Message])
    BY <1>1
  <2>3. QED
    BY <1>1, <1>2, <2>1, <2>2, StartTypes DEF TypeOK
<1>4. Cardinality(applied) = 0
  BY <1>1, FS_EmptySet
<1>5. CopyTrue(NoCopy)
  BY <1>1 DEF CopyTrue, NoCopy
<1>6. CopiesTrue
  BY <1>1, <1>2, <1>5 DEF CopiesTrue
<1>7. WellAsked /\ Counted /\ CreatedOnce /\ EffectsOver
  BY <1>1, <1>2, <1>4 DEF WellAsked, Counted, CreatedOnce, EffectsOver
<1>8. TextSettled /\ ConfirmedAsSeen /\ AnswersTrue /\ FilesApart
  BY <1>1, <1>2 DEF TextSettled, NewContent, ConfirmedAsSeen, AnswersTrue, FilesApart, FilesKept
<1>9. QED
  BY <1>3, <1>6, <1>7, <1>8 DEF DraftInv, RowsInv

LEMMA DraftStep == DraftInv /\ [Next]_vars => DraftInv'
  BY TypeStep, RowsStep, FilesStep DEF DraftInv

-----------------------------------------------------------------------------
\* Rows, copies, requests and histories have their types: among them, that the
\* revisions of a draft never outnumber the requests.
THEOREM DraftsTypes == Spec => []TypeOK
<1>1. DraftInv => TypeOK
  BY DEF DraftInv
<1>2. QED
  BY <1>1, DraftStart, DraftStep, PTL DEF Spec

\* At most one run comes of a draft, and it was given what its user saw.
THEOREM OneRun == Spec => []ConfirmedAsSeen
<1>1. DraftInv => ConfirmedAsSeen
  BY DEF DraftInv, RowsInv
<1>2. QED
  BY <1>1, DraftStart, DraftStep, PTL DEF Spec

\* Answers tell the truth about what took effect.
THEOREM HonestAnswers == Spec => []AnswersTrue
<1>1. DraftInv => AnswersTrue
  BY DEF DraftInv, RowsInv
<1>2. QED
  BY <1>1, DraftStart, DraftStep, PTL DEF Spec

\* Uploads of a draft keep their files.
THEOREM UploadsStay == Spec => []FilesKept
<1>1. DraftInv => FilesKept
  BY DEF DraftInv, FilesApart
<1>2. QED
  BY <1>1, DraftStart, DraftStep, PTL DEF Spec

\* Who takes effect is the request at hand, of a client that saw the draft.
LEMMA EffectSeen ==
  ASSUME TypeOK, RowsInv, [Next]_vars
  PROVE  \A n \in applied' \ applied :
            sent[n].op # "create" =>
               draft.status = "DRAFT" /\ sent[n].seen.content = draft.content
<1>1. ASSUME NEW n \in DOMAIN sent, Change(n) \/ Confirm(n)
      PROVE  /\ applied' = applied \union {n}
             /\ draft.status = "DRAFT" /\ sent[n].seen.content = draft.content
  <2>1. \E op \in Keyed \union Unkeyed : Accepted(n, op)
    BY <1>1, ChangeFacts, ConfirmFacts DEF Keyed
  <2>2. QED
    BY <1>1, <2>1, AcceptedFacts, ChangeFacts, ConfirmFacts DEF Changes, Commits, Confirms
<1>2. ASSUME NEW n \in DOMAIN sent, Create(n)
      PROVE  applied' = applied \union {n} /\ sent[n].op = "create"
  BY <1>2, CreateFacts
<1>3. CASE ~\E n \in DOMAIN sent : Change(n) \/ Confirm(n) \/ Create(n)
  <2>1. applied' = applied
    BY <1>3 DEF Next, Change, AskCreate, AskChange, Ask, LoadRow, LoadMaterials, ReadNotice,
       Replay, Refuse, DieInCreate, Unlink, DieBeforeUnlink, vars, past
  <2>2. QED
    BY <2>1
<1>4. QED
  BY <1>1, <1>2, <1>3

\* No change is lost to a tab that had not seen it.
THEOREM LostEditsNever == Spec => NoLostEdit
<1>1. DraftInv /\ [Next]_vars =>
        [\A n \in applied' \ applied :
            sent[n].op # "create" =>
                /\ draft.status = "DRAFT"
                /\ sent[n].seen.content = draft.content]_vars
  BY EffectSeen DEF DraftInv
<1>2. QED
  BY <1>1, DraftStart, DraftStep, PTL DEF Spec, NoLostEdit

\* A saved text gives way to another save only.
THEOREM SavedTextStays == Spec => EditsStand
<1>1. DraftInv /\ [Next]_vars =>
        [draft.content.text # Default /\ draft'.content.text # draft.content.text =>
            \E n \in applied' \ applied : sent[n].op = "edit"]_vars
  <2> SUFFICES ASSUME DraftInv, [Next]_vars, draft.content.text # Default,
                      draft'.content.text # draft.content.text
               PROVE  \E n \in applied' \ applied : sent[n].op = "edit"
    OBVIOUS
  <2>1. TypeOK /\ RowsInv
    BY DEF DraftInv
  <2>2. CASE \E n \in DOMAIN sent : Change(n)
    <3>1. PICK n \in DOMAIN sent : Change(n)
      BY <2>2
    <3>2. PICK c \in Content, r \in {draft.revision, draft.revision + 1} : Changes(n, c, r)
      BY <2>1, <3>1, ChangeFacts
    <3>3. draft'.content = c /\ applied' = applied \union {n} /\ n \notin applied
      BY <2>1, <3>1, <3>2, ChangeFacts, AcceptedFacts DEF Changes, Commits, TypeOK
    <3>4. sent[n].op = "edit"
      BY <3>2, <3>3 DEF Changes, TextBy
    <3>5. QED
      BY <3>3, <3>4
  <2>3. CASE \E n \in DOMAIN sent : Create(n)
    BY <2>1, <2>3, CreateFacts DEF RowsInv, CreatedOnce, NewContent
  <2>4. CASE ~\E n \in DOMAIN sent : Change(n) \/ Create(n)
    <3>1. draft'.content = draft.content
      BY <2>1, <2>4 DEF Next, Change, AskCreate, AskChange, Ask, LoadRow, LoadMaterials, ReadNotice,
         Replay, Refuse, Confirm, DieInCreate, Unlink, DieBeforeUnlink, vars, rows, TypeOK
    <3>2. QED
      BY <3>1
  <2>5. QED
    BY <2>2, <2>3, <2>4
<1>2. QED
  BY <1>1, DraftStart, DraftStep, PTL DEF Spec, EditsStand
=============================================================================
