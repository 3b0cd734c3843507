------------------------------- MODULE Outbox -------------------------------
(***************************************************************************)
(* Mutating requests with an idempotency key (app/api.py), the webhook     *)
(* events their transactions enqueue, and the workers that deliver the     *)
(* events (app/webhooks.py).                                               *)
(*                                                                         *)
(* An operation is a request as its client means it: what is asked, of     *)
(* which run, and with which body.  It is one of three shapes, by where    *)
(* the code commits it: "Whole" with its record and event (runs, controls, *)
(* rechecks, follow-ups, and subscriptions, which have no event); "Apart"  *)
(* in a session of its own before them (reviews, publication); "Early" in  *)
(* the same session before them, which also ends the advisory lock         *)
(* (cancellation).  What an operation does is modelled elsewhere: here it  *)
(* has an effect or is refused.  (The operations on drafts enqueue         *)
(* nothing: see Drafts.)                                                   *)
(*                                                                         *)
(* One tenant.  Among the due deliveries a worker takes any, a choice that *)
(* contains the code's order by time.                                      *)
(***************************************************************************)
EXTENDS Idempotency, Sequences, FiniteSets

CONSTANTS
    Handler,        \* threads of API servers
    Identity,
    Key,
    Whole, Apart, Early, \* operations by shape
    Subscribing,    \* the operations that create a subscription
    FollowUp,       \* the operations that ask a follow-up of a run
    Hash,           \* _request_hash, of every operation
    Subscriber,     \* subscriptions that may come to exist
    Sender,         \* webhook workers
    MaxAttempts,    \* WebhookDelivery.max_attempts
    MaxEffects,     \* bound: effects
    MaxRequests,    \* bound: requests
    MaxExpiries,    \* bound: records that expire
    MaxDeaths,      \* bound: handlers that die
    MaxKills        \* bound: webhook workers that are killed

ASSUME OutboxAssumption ==
    /\ MaxAttempts \in Nat \ {0}
    /\ {MaxEffects, MaxRequests, MaxExpiries, MaxDeaths, MaxKills} \subseteq Nat
    /\ Subscribing \union FollowUp \subseteq Whole
    /\ Whole \intersect (Apart \union Early) = {}
    /\ "none" \notin Key
    \* The hash is of all that tells operations apart, but that of a follow-up is
    \* of its body alone, which does not name the run.
    /\ \A a, b \in Whole \union Apart \union Early :
          Hash[a] = Hash[b] => a = b \/ {a, b} \subseteq FollowUp

None == "none"
Operation == Whole \union Apart \union Early
Effect == 1..MaxEffects

VARIABLES
    request,     \* request[h]: the request that h handles
    record,      \* record[k]: the row of idempotency_records
    subscribed,  \* rows of webhook_subscriptions
    delivery,    \* delivery[e][s]: the row of webhook_deliveries
    sender,      \* sender[w]: the delivery that w has locked
    effects,     \* what was committed, in order (history)
    answers,     \* the successful answers given (history)
    epoch,       \* epoch[k]: times a record of k expired (history)
    received,    \* received[e][s]: times a subscriber got the event (history)
    requests, deaths, kills

store == <<record, subscribed, delivery>>
past == <<effects, answers, epoch, received>>
bounds == <<requests, deaths, kills>>
vars == <<request, store, sender, past, bounds>>

Phase == {"idle", "work", "store", "loose"}
Request ==
    [at : Phase, key : Key \union {None}, op : Operation \union {None},
     who : Identity \union {None},
     seen : {"none", "expired"},     \* the record it found, and deleted
     effect : 0..MaxEffects]
Idle == [at |-> "idle", key |-> None, op |-> None, who |-> None, seen |-> "none",
         effect |-> 0]

Record ==
    [status : {"none", "live", "expired"}, who : Identity \union {None},
     hash : {Hash[op] : op \in Operation} \union {None}, answer : 0..MaxEffects]

DeliveryStatus == {"none", "PENDING", "DELIVERED", "FAILED"}
Delivery == [status : DeliveryStatus, attempts : 0..MaxAttempts, due : BOOLEAN]
NoDelivery == [status |-> "none", attempts |-> 0, due |-> FALSE]
NewDelivery == [status |-> "PENDING", attempts |-> 0, due |-> TRUE]

SenderState ==
    [at : {"idle", "sent"}, event : 0..MaxEffects,
     to : Subscriber \union {None}, ok : BOOLEAN]
NoDuty == [at |-> "idle", event |-> 0, to |-> None, ok |-> FALSE]

EffectRow ==
    [key : Key \union {None}, op : Operation \union {None},
     who : Identity \union {None}, epoch : 0..MaxExpiries]

TypeOK ==
    /\ request \in [Handler -> Request]
    /\ record \in [Key -> Record]
    /\ subscribed \subseteq Subscriber
    /\ delivery \in [Effect -> [Subscriber -> Delivery]]
    /\ sender \in [Sender -> SenderState]
    /\ effects \in Seq(EffectRow) /\ Len(effects) <= MaxEffects
    /\ answers \subseteq [key : Key, op : Operation, who : Identity,
                          epoch : 0..MaxExpiries, effect : Effect]
    /\ epoch \in [Key -> 0..MaxExpiries]
    /\ received \in [Effect -> [Subscriber -> 0..(MaxAttempts + MaxKills)]]
    /\ requests \in 0..MaxRequests
    /\ deaths \in 0..MaxDeaths
    /\ kills \in 0..MaxKills

Init ==
    /\ request = [h \in Handler |-> Idle]
    /\ record = [k \in Key |-> NoRecord(None, None)]
    /\ subscribed = {}
    /\ delivery = [e \in Effect |-> [s \in Subscriber |-> NoDelivery]]
    /\ sender = [w \in Sender |-> NoDuty]
    /\ effects = << >>
    /\ answers = {}
    /\ epoch = [k \in Key |-> 0]
    /\ received = [e \in Effect |-> [s \in Subscriber |-> 0]]
    /\ requests = 0 /\ deaths = 0 /\ kills = 0

-----------------------------------------------------------------------------
(* Requests.                                                               *)

\* pg_advisory_xact_lock: held until the transaction that took it ends.  A
\* request that waits for it is one that has not begun.
FreeVariantAlways(k) == TRUE
Free(k) == \A h \in Handler : request[h].key = k => request[h].at = "loose"

Asks(h, k) ==
    /\ request[h].at = "idle"
    /\ Free(k)
    /\ requests < MaxRequests
    /\ requests' = requests + 1

Answer(key, op, who, e) ==
    answers' = answers \union
        {[key |-> key, op |-> op, who |-> who, epoch |-> epoch[key], effect |-> e]}

\* _cached_idempotency: the lock, then the record.
Replay(h, k, op, who) ==
    /\ Asks(h, k)
    /\ Replays(record[k], who, Hash[op])
    /\ Answer(k, op, who, record[k].answer)
    /\ UNCHANGED <<request, store, sender, effects, epoch, received, deaths, kills>>

Refuse(h, k, op, who) ==
    /\ Asks(h, k)
    /\ Conflicts(record[k], who, Hash[op])
    /\ UNCHANGED <<request, store, sender, past, deaths, kills>>

\* An expired record is deleted, in this transaction.
Begin(h, k, op, who) ==
    /\ Asks(h, k)
    /\ Unused(record[k])
    /\ request' = [request EXCEPT ![h] =
                     [at |-> "work", key |-> k, op |-> op, who |-> who,
                      seen |-> record[k].status, effect |-> 0]]
    /\ UNCHANGED <<store, sender, past, deaths, kills>>

Ends(h) == request' = [request EXCEPT ![h] = Idle]

\* The operation refuses the request, or the server dies: nothing is left.
Reject(h) ==
    /\ request[h].at = "work"
    /\ Ends(h)
    /\ UNCHANGED <<store, sender, past, bounds>>

\* The unique constraint of tenant and key.
Insertable(h) == record[request[h].key].status = request[h].seen

Takes(key, op, who, age) ==
    /\ Len(effects) < MaxEffects
    /\ effects' = Append(effects, [key |-> key, op |-> op, who |-> who, epoch |-> age])

\* enqueue_webhook_event: a row for every subscription of the moment.
EnqueueVariantAgain(e) ==
    delivery' = [f \in Effect |->
                   [s \in Subscriber |->
                      IF f <= e /\ s \in subscribed THEN NewDelivery ELSE delivery[f][s]]]
Enqueue(e) ==
    delivery' = [delivery EXCEPT ![e] =
                   [s \in Subscriber |-> IF s \in subscribed THEN NewDelivery ELSE @[s]]]

Stores(h, e) ==
    LET q == request[h]
    IN  record' = [record EXCEPT ![q.key] = Live(q.who, Hash[q.op], e)]

\* Effect, record and event in one commit.
Apply(h) ==
    LET q == request[h]
        e == Len(effects) + 1
    IN  /\ q.at = "work" /\ q.op \in Whole
        /\ Insertable(h)
        /\ Takes(q.key, q.op, q.who, epoch[q.key])
        /\ Stores(h, e)
        /\ IF q.op \in Subscribing
           THEN /\ \E s \in Subscriber \ subscribed : subscribed' = subscribed \union {s}
                /\ UNCHANGED delivery
           ELSE Enqueue(e) /\ UNCHANGED subscribed
        /\ Answer(q.key, q.op, q.who, e)
        /\ Ends(h)
        /\ UNCHANGED <<sender, epoch, received, bounds>>

\* The operation commits by itself; the lock, and the deletion of an expired
\* record, end with the transaction they belong to.
ApplyFirst(h) ==
    LET q == request[h]
    IN  /\ q.at = "work" /\ q.op \in Apart \union Early
        /\ Takes(q.key, q.op, q.who, epoch[q.key])
        /\ request' = [request EXCEPT
                         ![h].at = IF q.op \in Early THEN "loose" ELSE "store",
                         ![h].seen = IF q.op \in Early THEN "none" ELSE @,
                         ![h].effect = Len(effects) + 1]
        /\ record' = IF q.op \in Early /\ q.seen = "expired"
                     THEN [record EXCEPT ![q.key] = NoRecord(None, None)] ELSE record
        /\ UNCHANGED <<subscribed, delivery, sender, answers, epoch, received,
                       bounds>>

Store(h) ==
    LET q == request[h]
    IN  /\ q.at \in {"store", "loose"}
        /\ Insertable(h)
        /\ Stores(h, q.effect)
        /\ Enqueue(q.effect)
        /\ Answer(q.key, q.op, q.who, q.effect)
        /\ Ends(h)
        /\ UNCHANGED <<subscribed, sender, effects, epoch, received, bounds>>

\* The commit fails on the constraint: an error, and the event is not sent.
Duplicate(h) ==
    /\ request[h].at \in {"work", "store", "loose"}
    /\ request[h].at = "work" => request[h].op \in Whole
    /\ ~Insertable(h)
    /\ Ends(h)
    /\ UNCHANGED <<store, sender, past, bounds>>

\* The server dies between two commits of a request.
Die(h) ==
    /\ request[h].at \in {"store", "loose"}
    /\ deaths < MaxDeaths
    /\ deaths' = deaths + 1
    /\ Ends(h)
    /\ UNCHANGED <<store, sender, past, requests, kills>>

\* 24 hours pass, in which every request with the key ends.
Expire(k) ==
    /\ record[k].status = "live"
    /\ \A h \in Handler : request[h].key # k
    /\ epoch[k] < MaxExpiries
    /\ record' = [record EXCEPT ![k].status = "expired"]
    /\ epoch' = [epoch EXCEPT ![k] = @ + 1]
    /\ UNCHANGED <<request, subscribed, delivery, sender, effects, answers,
                   received, bounds>>

-----------------------------------------------------------------------------
(* The end of a run, and deliveries.                                       *)

\* finish_work: the run's end and its event.
WorkEnds ==
    LET e == Len(effects) + 1
    IN  /\ Takes(None, None, None, 0)
        /\ Enqueue(e)
        /\ UNCHANGED <<request, record, subscribed, sender, answers, epoch, received,
                       bounds>>

\* FOR UPDATE SKIP LOCKED: the row is locked while the event is sent.
Sending(e, s) == \E w \in Sender : sender[w].event = e /\ sender[w].to = s
UnlockedVariantAlways(e, s) == TRUE
Unlocked(e, s) == ~Sending(e, s)

Due(e, s) == delivery[e][s].status = "PENDING" /\ delivery[e][s].due

\* deliver_next posts the event: in vain, with success, or without an answer.
Send(w, e, s) ==
    /\ sender[w].at = "idle"
    /\ Due(e, s)
    /\ Unlocked(e, s)
    /\ \E got, ok \in BOOLEAN :
          /\ ok => got
          /\ received' = IF got THEN [received EXCEPT ![e][s] = @ + 1] ELSE received
          /\ sender' = [sender EXCEPT ![w] =
                          [at |-> "sent", event |-> e, to |-> s, ok |-> ok]]
    /\ UNCHANGED <<request, store, effects, answers, epoch, bounds>>

\* The row after an attempt.
AttemptedVariantOneMore(d, ok) ==
    [d EXCEPT !.attempts = @ + 1,
              !.status = CASE ok -> "DELIVERED"
                           [] ~ok /\ d.attempts >= MaxAttempts -> "FAILED"
                           [] OTHER -> @,
              !.due = ok]
Attempted(d, ok) ==
    [d EXCEPT !.attempts = @ + 1,
              !.status = CASE ok -> "DELIVERED"
                           [] ~ok /\ d.attempts + 1 >= MaxAttempts -> "FAILED"
                           [] OTHER -> @,
              !.due = ok]

Settle(w) ==
    LET d == sender[w]
    IN  /\ d.at = "sent"
        /\ delivery' = [delivery EXCEPT ![d.event][d.to] = Attempted(@, d.ok)]
        /\ sender' = [sender EXCEPT ![w] = NoDuty]
        /\ UNCHANGED <<request, record, subscribed, past, bounds>>

\* The worker is killed: its transaction is rolled back.
Kill(w) ==
    /\ sender[w].at # "idle"
    /\ kills < MaxKills
    /\ kills' = kills + 1
    /\ sender' = [sender EXCEPT ![w] = NoDuty]
    /\ UNCHANGED <<request, store, past, requests, deaths>>

\* The time of the next attempt comes.
BackoffEnds(e, s) ==
    /\ delivery[e][s].status = "PENDING" /\ ~delivery[e][s].due
    /\ delivery' = [delivery EXCEPT ![e][s].due = TRUE]
    /\ UNCHANGED <<request, record, subscribed, sender, past, bounds>>

-----------------------------------------------------------------------------
HandlerStep(h) ==
    \/ \E k \in Key, op \in Operation, who \in Identity :
          Replay(h, k, op, who) \/ Refuse(h, k, op, who) \/ Begin(h, k, op, who)
    \/ Reject(h) \/ Apply(h) \/ ApplyFirst(h) \/ Store(h) \/ Duplicate(h) \/ Die(h)

SenderStep(w) ==
    \/ \E e \in Effect, s \in Subscriber : Send(w, e, s)
    \/ Settle(w)

Next ==
    \/ \E h \in Handler : HandlerStep(h)
    \/ \E k \in Key : Expire(k)
    \/ WorkEnds
    \/ \E w \in Sender : SenderStep(w) \/ Kill(w)
    \/ \E e \in Effect, s \in Subscriber : BackoffEnds(e, s)

Spec == Init /\ [][Next]_vars

\* A webhook worker polls for ever, every post has a timeout, and time passes.
FairSpec ==
    /\ Spec
    /\ \A w \in Sender : WF_vars(SenderStep(w))
    /\ \A e \in Effect, s \in Subscriber : WF_vars(BackoffEnds(e, s))

-----------------------------------------------------------------------------
SameRequest(i, j) ==
    /\ effects[i].key = effects[j].key /\ effects[i].key # None
    /\ effects[i].op = effects[j].op
    /\ effects[i].epoch = effects[j].epoch

\* A key has one effect while its record is kept, however many handlers are
\* asked at once and die: without condition for operations that commit with
\* their record; as long as no handler dies for reviews and publication, which
\* hold the advisory lock until their record is stored.  A cancellation may be
\* applied again.
AppliedOnce ==
    \A i, j \in DOMAIN effects :
        SameRequest(i, j) /\ i # j =>
            /\ effects[i].op \notin Whole
            /\ deaths = 0 => effects[i].op \in Early

\* A successful answer tells of an effect of that very operation, on that run, by
\* that identity, and all answers to a key are the same until its record expires:
\* whatever lock was given up early and whoever else uses the key.  Except that a
\* follow-up may be answered with the effect of the same question to another run,
\* and is then not asked: its hash leaves the run out (api.py:2328-2332).
AnswersAgree ==
    /\ \A a \in answers :
          /\ a.effect \in DOMAIN effects
          /\ effects[a.effect].key = a.key
          /\ effects[a.effect].who = a.who
          /\ \/ effects[a.effect].op = a.op
             \/ a.op \in FollowUp /\ Hash[effects[a.effect].op] = Hash[a.op]
    /\ \A a, b \in answers :
          a.key = b.key /\ a.epoch = b.epoch => a.effect = b.effect

\* Once a webhook was marked delivered its subscriber has had it; one is given up
\* only after all attempts; and a subscriber gets an event at most once for
\* every attempt on record and for every worker killed.
DeliveriesHonest ==
    \A e \in Effect, s \in Subscriber :
        LET d == delivery[e][s]
            open == IF Sending(e, s) THEN 1 ELSE 0
        IN  /\ d.status = "DELIVERED" => received[e][s] > 0
            /\ d.status = "FAILED" => d.attempts = MaxAttempts
            /\ received[e][s] <= d.attempts + kills + open

Announcement == Effect \X Subscriber
Pairs(statuses) == {a \in Announcement : delivery[a[1]][a[2]].status \in statuses}

Promise == INSTANCE OutboxContract WITH
    owed <- Pairs({"PENDING"}), settled <- Pairs({"DELIVERED", "FAILED"})

\* The deliveries implement OutboxContract: rows appear with the commit they tell
\* of, each is settled once, and in the end.
Delivers == Promise!Contract
=============================================================================
