---------------------------- MODULE OutboxProofs ----------------------------
(***************************************************************************)
(* What holds of keys, answers and webhooks for every number of handlers,  *)
(* keys, subscribers, webhook workers and attempts.                        *)
(***************************************************************************)
EXTENDS Outbox, TLAPS

\* The request holds the advisory lock of its key.
Locks(h) == request[h].at \in {"work", "store"}

\* Its effect is committed, its record and event are not.
Holds(h) == request[h].at \in {"store", "loose"}

\* What a request found is still so, or another has stored a record meanwhile.
RequestsSee ==
    /\ \A h \in Handler :
          LET q == request[h]
          IN  /\ q.at = "idle" => q.key = None
              /\ q.at # "idle" => q.key \in Key /\ q.op \in Operation /\ q.who \in Identity
              /\ Locks(h) /\ q.seen = "expired" => record[q.key].status = "expired"
              /\ q.at # "idle" /\ q.seen = "none" => record[q.key].status # "expired"
              /\ q.at = "loose" => q.seen = "none"
    /\ \A g, h \in Handler :
          g # h /\ Locks(g) /\ Locks(h) => request[g].key # request[h].key

Tells(effect, key, hash, who) ==
    effect \in DOMAIN effects /\ effects[effect].key = key
    /\ effects[effect].op \in Operation /\ Hash[effects[effect].op] = hash
    /\ effects[effect].who = who

\* Every request, record and answer tells of an effect of its key, hash and identity.
AllTell ==
    /\ \A h \in Handler :
          Holds(h) =>
             Tells(request[h].effect, request[h].key, Hash[request[h].op], request[h].who)
    /\ \A k \in Key :
          record[k].status = "live" => Tells(record[k].answer, k, record[k].hash, record[k].who)
    /\ \A a \in answers : Tells(a.effect, a.key, Hash[a.op], a.who)

\* An answer of the present epoch is the one on record; those of an epoch agree.
AnswersOnRecord ==
    /\ \A a \in answers :
          /\ a.epoch <= epoch[a.key]
          /\ a.epoch = epoch[a.key] =>
                record[a.key].status = "live" /\ record[a.key].answer = a.effect
    /\ \A a, b \in answers : a.key = b.key /\ a.epoch = b.epoch => a.effect = b.effect

\* An effect of the present epoch.
Recent(i, k) == effects[i].key = k /\ effects[i].epoch = epoch[k]

Strict == Apart \ Early

\* ... has its record, or a request that holds the lock will store it.
EffectsOnRecord ==
    \A i \in DOMAIN effects : \A k \in Key :
       /\ effects[i].key = k => effects[i].epoch <= epoch[k]
       /\ Recent(i, k) /\ effects[i].op \in Whole => record[k].status = "live"
       /\ Recent(i, k) /\ effects[i].op \in Strict /\ deaths = 0 =>
             \/ record[k].status = "live"
             \/ \E h \in Handler : request[h].at = "store" /\ request[h].key = k

\* Who is at work under the lock is the first of the epoch.
WorkIsFirst ==
    \A h \in Handler : \A i \in DOMAIN effects :
       request[h].at = "work" /\ deaths = 0 /\ effects[i].op \in Strict =>
          ~Recent(i, request[h].key)

KeysInv ==
    /\ RequestsSee /\ AllTell /\ AnswersOnRecord /\ EffectsOnRecord /\ WorkIsFirst
    /\ AppliedOnce

\* An event is enqueued once, with its effect or with the record.
Unannounced(e) == \A s \in Subscriber : delivery[e][s].status = "none"

EventsOnce ==
    /\ \A e \in Effect : e > Len(effects) => Unannounced(e)
    /\ \A h \in Handler :
          Holds(h) => request[h].effect \in DOMAIN effects /\ Unannounced(request[h].effect)
    /\ \A g, h \in Handler :
          g # h /\ Holds(g) /\ Holds(h) => request[g].effect # request[h].effect

\* A delivery that is being sent is pending, and one worker sends it.
SendersApart ==
    /\ \A w \in Sender :
          LET d == sender[w]
          IN  IF d.at = "idle" THEN d.event = 0
              ELSE /\ d.event \in Effect /\ d.to \in Subscriber
                   /\ delivery[d.event][d.to].status = "PENDING"
                   /\ d.ok => received[d.event][d.to] > 0
    /\ \A v, w \in Sender :
          v # w /\ sender[v].at = "sent" /\ sender[w].at = "sent" =>
             sender[v].event # sender[w].event \/ sender[v].to # sender[w].to

AttemptsLeft ==
    \A e \in Effect, s \in Subscriber :
       /\ delivery[e][s].status = "PENDING" => delivery[e][s].attempts < MaxAttempts
       /\ delivery[e][s].status = "none" => received[e][s] = 0 /\ delivery[e][s].attempts = 0

DeliveryInv == EventsOnce /\ SendersApart /\ AttemptsLeft /\ DeliveriesHonest

OutboxInv == TypeOK /\ KeysInv /\ DeliveryInv

-----------------------------------------------------------------------------
(* Values.                                                                 *)

LEMMA Bounds ==
  /\ MaxAttempts \in Nat \ {0} /\ MaxEffects \in Nat /\ MaxExpiries \in Nat
  /\ MaxDeaths \in Nat /\ MaxKills \in Nat /\ MaxRequests \in Nat
  /\ None \notin Key
  BY OutboxAssumption DEF None

LEMMA StartTypes ==
  /\ Idle \in Request /\ NoRecord(None, None) \in Record
  /\ NoDelivery \in Delivery /\ NewDelivery \in Delivery /\ NoDuty \in SenderState
<1> USE Bounds
<1>1. Idle \in Request
  BY DEF Idle, Request, Phase
<1>2. NoRecord(None, None) \in Record
  BY DEF NoRecord, Record
<1>3. NoDelivery \in Delivery /\ NewDelivery \in Delivery
  BY DEF NoDelivery, NewDelivery, Delivery, DeliveryStatus
<1>4. NoDuty \in SenderState
  BY DEF NoDuty, SenderState
<1>5. QED
  BY <1>1, <1>2, <1>3, <1>4

LEMMA EffectsDomain ==
  ASSUME TypeOK
  PROVE  /\ Len(effects) \in Nat /\ DOMAIN effects = 1..Len(effects)
         /\ DOMAIN effects \subseteq Effect
<1>1. effects \in Seq(EffectRow) /\ Len(effects) <= MaxEffects
  BY DEF TypeOK
<1>2. Len(effects) \in Nat /\ DOMAIN effects = 1..Len(effects)
  BY <1>1
<1>3. QED
  BY <1>1, <1>2, Bounds DEF Effect

\* An effect is appended, and the earlier ones stay.
LEMMA TakesFacts ==
  ASSUME TypeOK, NEW key \in Key \union {None}, NEW op \in Operation \union {None},
         NEW who \in Identity \union {None}, NEW age \in 0..MaxExpiries,
         Takes(key, op, who, age)
  PROVE  LET e == Len(effects) + 1
         IN  /\ effects' \in Seq(EffectRow) /\ Len(effects') = e /\ e \in Effect
             /\ DOMAIN effects' = DOMAIN effects \union {e} /\ e \notin DOMAIN effects
             /\ DOMAIN effects = 1..Len(effects) /\ DOMAIN effects \subseteq Effect
             /\ \A i \in DOMAIN effects : effects'[i] = effects[i]
             /\ effects'[e] = [key |-> key, op |-> op, who |-> who, epoch |-> age]
<1> DEFINE x == [key |-> key, op |-> op, who |-> who, epoch |-> age]
<1>1. x \in EffectRow
  BY DEF EffectRow
<1>2. effects \in Seq(EffectRow) /\ effects' = Append(effects, x) /\ Len(effects) < MaxEffects
  BY DEF TypeOK, Takes
<1> HIDE DEF x
<1>3. Len(effects) \in Nat /\ DOMAIN effects = 1..Len(effects)
  BY <1>2
<1>4. effects' \in Seq(EffectRow) /\ Len(effects') = Len(effects) + 1
  BY <1>1, <1>2
<1>5. /\ \A i \in 1..Len(effects) : effects'[i] = effects[i]
      /\ effects'[Len(effects) + 1] = x
  BY <1>1, <1>2
<1>6. DOMAIN effects' = 1..(Len(effects) + 1)
  BY <1>4
<1>7. QED
  BY <1>2, <1>3, <1>4, <1>5, <1>6, Bounds DEF x, Effect

LEMMA EnqueueType ==
  ASSUME TypeOK, NEW e \in Effect, Enqueue(e)
  PROVE  delivery' \in [Effect -> [Subscriber -> Delivery]]
  BY StartTypes DEF TypeOK, Enqueue

LEMMA AnswerType ==
  ASSUME TypeOK, NEW key \in Key, NEW op \in Operation, NEW who \in Identity,
         NEW e \in Effect, Answer(key, op, who, e)
  PROVE  answers' \subseteq [key : Key, op : Operation, who : Identity,
                            epoch : 0..MaxExpiries, effect : Effect]
  BY DEF TypeOK, Answer

LEMMA StoresType ==
  ASSUME TypeOK, NEW h \in Handler, NEW e \in Effect, Stores(h, e),
         request[h].op \in Operation
  PROVE  record' \in [Key -> Record]
<1>1. Live(request[h].who, Hash[request[h].op], e) \in Record
  BY DEF TypeOK, Request, Live, Record, Effect
<1>2. QED
  BY <1>1 DEF TypeOK, Stores

LEMMA EndsType ==
  ASSUME TypeOK, NEW h \in Handler, Ends(h)
  PROVE  request' \in [Handler -> Request]
  BY StartTypes DEF TypeOK, Ends

-----------------------------------------------------------------------------
(* Types, step by step.                                                    *)

LEMMA AskTypes ==
  ASSUME TypeOK, KeysInv, NEW h \in Handler, NEW k \in Key, NEW op \in Operation,
         NEW who \in Identity,
         Replay(h, k, op, who) \/ Refuse(h, k, op, who) \/ Begin(h, k, op, who)
  PROVE  TypeOK'
<1>1. requests' \in 0..MaxRequests
  BY Bounds DEF TypeOK, Replay, Refuse, Begin, Asks
<1>2. CASE Replay(h, k, op, who)
  <2>1. record[k].answer \in Effect
    <3>1. Tells(record[k].answer, k, record[k].hash, record[k].who)
      BY <1>2 DEF Replay, Replays, KeysInv, AllTell
    <3>2. QED
      BY <3>1, EffectsDomain DEF Tells
  <2>2. answers' \subseteq [key : Key, op : Operation, who : Identity,
                           epoch : 0..MaxExpiries, effect : Effect]
    BY <1>2, <2>1, AnswerType DEF Replay
  <2>3. QED
    BY <1>1, <1>2, <2>2 DEF Replay, TypeOK, store
<1>3. CASE Refuse(h, k, op, who)
  BY <1>1, <1>3 DEF Refuse, TypeOK, store, past
<1>4. CASE Begin(h, k, op, who)
  <2>1. record[k].status \in {"none", "expired"}
    BY <1>4 DEF TypeOK, Record, Begin, Unused
  <2>2. [at |-> "work", key |-> k, op |-> op, who |-> who, seen |-> record[k].status,
         effect |-> 0] \in Request
    BY <2>1, Bounds DEF Request, Phase
  <2>3. request' \in [Handler -> Request]
    BY <1>4, <2>2 DEF TypeOK, Begin
  <2>4. QED
    BY <1>1, <1>4, <2>3 DEF Begin, TypeOK, store, past
<1>5. QED
  BY <1>2, <1>3, <1>4

LEMMA WorkTypes ==
  ASSUME TypeOK, KeysInv, NEW h \in Handler,
         \/ Reject(h) \/ Apply(h) \/ ApplyFirst(h) \/ Store(h) \/ Duplicate(h) \/ Die(h)
  PROVE  TypeOK'
<1> USE DEF bounds, past, store
<1>1. CASE Reject(h) \/ Duplicate(h)
  BY <1>1, EndsType DEF Reject, Duplicate, TypeOK
<1>2. CASE Die(h)
  BY <1>2, EndsType, Bounds DEF Die, TypeOK
<1> DEFINE q == request[h]
           e == Len(effects) + 1
<1>3. q.at # "idle" =>
        /\ q.key \in Key /\ q.op \in Operation /\ q.who \in Identity
        /\ epoch[q.key] \in 0..MaxExpiries
  BY DEF KeysInv, RequestsSee, TypeOK
<1>4. CASE Apply(h)
  <2>1. q.at # "idle" /\ Takes(q.key, q.op, q.who, epoch[q.key])
    BY <1>4 DEF Apply
  <2>2. effects' \in Seq(EffectRow) /\ Len(effects') = e /\ e \in Effect
    BY <1>3, <2>1, TakesFacts
  <2>3. Len(effects') <= MaxEffects
    BY <2>2, Bounds DEF Effect
  <2>4. record' \in [Key -> Record]
    BY <1>3, <1>4, <2>1, <2>2, StoresType DEF Apply
  <2>5. answers' \subseteq [key : Key, op : Operation, who : Identity,
                           epoch : 0..MaxExpiries, effect : Effect]
    BY <1>3, <1>4, <2>1, <2>2, AnswerType DEF Apply
  <2>6. request' \in [Handler -> Request]
    BY <1>4, EndsType DEF Apply
  <2>7. subscribed' \subseteq Subscriber
    BY <1>4 DEF Apply, TypeOK
  <2>8. delivery' \in [Effect -> [Subscriber -> Delivery]]
    BY <1>4, <2>2, EnqueueType DEF Apply, TypeOK
  <2>9. QED
    BY <1>4, <2>2, <2>3, <2>4, <2>5, <2>6, <2>7, <2>8 DEF Apply, TypeOK
<1>5. CASE ApplyFirst(h)
  <2>1. q.at # "idle" /\ Takes(q.key, q.op, q.who, epoch[q.key])
    BY <1>5 DEF ApplyFirst
  <2>2. effects' \in Seq(EffectRow) /\ Len(effects') = e /\ e \in Effect
    BY <1>3, <2>1, TakesFacts
  <2>3. Len(effects') <= MaxEffects
    BY <2>2, Bounds DEF Effect
  <2>4. record' \in [Key -> Record]
    BY <1>5, StartTypes DEF ApplyFirst, TypeOK
  <2>5. request' \in [Handler -> Request]
    <3> DEFINE r == [q EXCEPT !.at = IF q.op \in Early THEN "loose" ELSE "store",
                              !.seen = IF q.op \in Early THEN "none" ELSE @,
                              !.effect = e]
    <3>1. r \in Request
      <4>1. q \in Request /\ e \in 0..MaxEffects
        BY <2>2, Bounds DEF TypeOK, Effect
      <4>2. CASE q.op \in Early
        <5>1. r = [q EXCEPT !.at = "loose", !.seen = "none", !.effect = e]
          BY <4>2
        <5> HIDE DEF r, e
        <5>2. QED
          BY <4>1, <5>1 DEF Request, Phase
      <4>3. CASE q.op \notin Early
        <5>1. r = [q EXCEPT !.at = "store", !.seen = q.seen, !.effect = e]
          BY <4>3
        <5> HIDE DEF r, e
        <5>2. QED
          BY <4>1, <5>1 DEF Request, Phase
      <4>4. QED
        BY <4>2, <4>3
    <3>2. request' = [request EXCEPT ![h] = r]
      BY <1>5 DEF ApplyFirst, TypeOK
    <3> HIDE DEF r
    <3>3. QED
      BY <3>1, <3>2 DEF TypeOK
  <2>6. QED
    BY <1>5, <2>2, <2>3, <2>4, <2>5 DEF ApplyFirst, TypeOK
<1>6. CASE Store(h)
  <2>1. q.at # "idle" /\ q.effect \in Effect
    BY <1>6, EffectsDomain DEF Store, KeysInv, AllTell, Tells, Holds
  <2>2. record' \in [Key -> Record]
    BY <1>3, <1>6, <2>1, StoresType DEF Store
  <2>3. answers' \subseteq [key : Key, op : Operation, who : Identity,
                           epoch : 0..MaxExpiries, effect : Effect]
    BY <1>3, <1>6, <2>1, AnswerType DEF Store
  <2>4. request' \in [Handler -> Request]
    BY <1>6, EndsType DEF Store
  <2>5. delivery' \in [Effect -> [Subscriber -> Delivery]]
    BY <1>6, <2>1, EnqueueType DEF Store
  <2>6. QED
    BY <1>6, <2>2, <2>3, <2>4, <2>5 DEF Store, TypeOK
<1>7. QED
  BY <1>1, <1>2, <1>4, <1>5, <1>6

LEMMA AttemptedType ==
  ASSUME NEW d \in Delivery, NEW ok \in BOOLEAN, d.attempts < MaxAttempts
  PROVE  Attempted(d, ok) \in Delivery
<1>1. d.attempts + 1 \in 0..MaxAttempts
  BY Bounds DEF Delivery
<1>2. QED
  BY <1>1 DEF Attempted, Delivery, DeliveryStatus

LEMMA DeliveryTypes ==
  ASSUME TypeOK, DeliveryInv,
         \/ \E k \in Key : Expire(k)
         \/ WorkEnds
         \/ \E w \in Sender : SenderStep(w) \/ Kill(w)
         \/ \E e \in Effect, s \in Subscriber : BackoffEnds(e, s)
  PROVE  TypeOK'
<1> USE DEF bounds, past, store
<1>1. ASSUME NEW k \in Key, Expire(k) PROVE TypeOK'
  <2>1. record' \in [Key -> Record]
    BY <1>1 DEF Expire, TypeOK, Record
  <2>2. epoch' \in [Key -> 0..MaxExpiries]
    BY <1>1, Bounds DEF Expire, TypeOK
  <2>3. QED
    BY <1>1, <2>1, <2>2 DEF Expire, TypeOK
<1>2. CASE WorkEnds
  <2> DEFINE e == Len(effects) + 1
  <2>1. Takes(None, None, None, 0)
    BY <1>2 DEF WorkEnds
  <2>2. effects' \in Seq(EffectRow) /\ Len(effects') = e /\ e \in Effect
    <3>1. 0 \in 0..MaxExpiries
      BY Bounds
    <3>2. QED
      BY <2>1, <3>1, TakesFacts
  <2>3. Len(effects') <= MaxEffects
    BY <2>2, Bounds DEF Effect
  <2>4. delivery' \in [Effect -> [Subscriber -> Delivery]]
    BY <1>2, <2>2, EnqueueType DEF WorkEnds
  <2>5. QED
    BY <1>2, <2>2, <2>3, <2>4 DEF WorkEnds, TypeOK
<1>3. ASSUME NEW w \in Sender, NEW e \in Effect, NEW s \in Subscriber, Send(w, e, s)
      PROVE  TypeOK'
  <2>1. /\ delivery[e][s].status = "PENDING" /\ Unlocked(e, s)
        /\ delivery[e][s].attempts \in Nat /\ received[e][s] \in Nat
    BY <1>3, Bounds DEF Send, Due, TypeOK, Delivery
  <2>2. received[e][s] + 1 \in 0..(MaxAttempts + MaxKills)
    <3>1. received[e][s] <= delivery[e][s].attempts + kills
      BY <2>1, Bounds DEF DeliveryInv, DeliveriesHonest, Unlocked, TypeOK
    <3>2. delivery[e][s].attempts < MaxAttempts
      BY <2>1 DEF DeliveryInv, AttemptsLeft
    <3>3. QED
      BY <2>1, <3>1, <3>2, Bounds DEF TypeOK
  <2>3. received' \in [Effect -> [Subscriber -> 0..(MaxAttempts + MaxKills)]]
    BY <1>3, <2>2 DEF Send, TypeOK
  <2>4. sender' \in [Sender -> SenderState]
    <3>1. PICK got, ok \in BOOLEAN :
             sender' = [sender EXCEPT ![w] =
                          [at |-> "sent", event |-> e, to |-> s, ok |-> ok]]
      BY <1>3 DEF Send
    <3>2. [at |-> "sent", event |-> e, to |-> s, ok |-> ok] \in SenderState
      BY Bounds DEF SenderState, Effect
    <3>3. QED
      BY <3>1, <3>2 DEF TypeOK
  <2>5. QED
    BY <1>3, <2>3, <2>4 DEF Send, TypeOK
<1>4. ASSUME NEW w \in Sender, Settle(w) PROVE TypeOK'
  <2> DEFINE d == sender[w]
  <2>1. /\ d.event \in Effect /\ d.to \in Subscriber /\ d.ok \in BOOLEAN
        /\ delivery[d.event][d.to].attempts < MaxAttempts
        /\ delivery[d.event][d.to] \in Delivery
    BY <1>4 DEF Settle, DeliveryInv, SendersApart, AttemptsLeft, TypeOK, SenderState
  <2>2. Attempted(delivery[d.event][d.to], d.ok) \in Delivery
    BY <2>1, AttemptedType
  <2>3. delivery' \in [Effect -> [Subscriber -> Delivery]]
    BY <1>4, <2>1, <2>2 DEF Settle, TypeOK
  <2>4. QED
    BY <1>4, <2>3, StartTypes DEF Settle, TypeOK
<1>5. ASSUME NEW w \in Sender, Kill(w) PROVE TypeOK'
  BY <1>5, StartTypes, Bounds DEF Kill, TypeOK
<1>6. ASSUME NEW e \in Effect, NEW s \in Subscriber, BackoffEnds(e, s) PROVE TypeOK'
  <2>1. delivery' \in [Effect -> [Subscriber -> Delivery]]
    <3>1. [delivery[e][s] EXCEPT !.due = TRUE] \in Delivery
      <4>1. delivery[e][s] \in Delivery
        BY DEF TypeOK
      <4>2. QED
        BY <4>1 DEF Delivery
    <3>2. delivery' = [delivery EXCEPT ![e] =
                         [delivery[e] EXCEPT ![s] = [delivery[e][s] EXCEPT !.due = TRUE]]]
      BY <1>6 DEF BackoffEnds
    <3>3. QED
      BY <3>1, <3>2 DEF TypeOK
  <2>2. QED
    BY <1>6, <2>1 DEF BackoffEnds, TypeOK
<1>7. QED
  BY <1>1, <1>2, <1>3, <1>4, <1>5, <1>6 DEF SenderStep

-----------------------------------------------------------------------------
(* Keys: one effect, one answer.                                           *)

LEMMA KeysFrame ==
  KeysInv /\ UNCHANGED <<request, record, effects, answers, epoch, deaths>> => KeysInv'
  BY DEF KeysInv, RequestsSee, Locks, AllTell, Tells, Holds, AnswersOnRecord,
         EffectsOnRecord, Recent, WorkIsFirst, AppliedOnce, SameRequest

LEMMA ReplayKeys ==
  ASSUME TypeOK, KeysInv, NEW h \in Handler, NEW k \in Key, NEW op \in Operation,
         NEW who \in Identity, Replay(h, k, op, who)
  PROVE  KeysInv'
<1> DEFINE a == [key |-> k, op |-> op, who |-> who, epoch |-> epoch[k],
                 effect |-> record[k].answer]
<1>1. /\ answers' = answers \union {a}
      /\ UNCHANGED <<request, record, effects, epoch, deaths>>
      /\ record[k].status = "live" /\ record[k].hash = Hash[op] /\ record[k].who = who
  BY DEF Replay, Answer, Replays, Matches, store
<1>2. Tells(a.effect, a.key, Hash[a.op], a.who)
  BY <1>1 DEF KeysInv, AllTell
<1>3. AllTell'
  BY <1>1, <1>2 DEF KeysInv, AllTell, Tells, Holds
<1>4. AnswersOnRecord'
  <2>1. a.epoch = epoch[a.key] /\ a.key = k /\ a.effect = record[k].answer
    OBVIOUS
  <2>2. epoch[k] <= epoch[k]
    BY Bounds DEF TypeOK
  <2>3. QED
    BY <1>1, <2>1, <2>2 DEF KeysInv, AnswersOnRecord
<1>5. QED
  BY <1>1, <1>3, <1>4 DEF KeysInv, RequestsSee, Locks, EffectsOnRecord, Recent,
     WorkIsFirst, AppliedOnce, SameRequest

LEMMA BeginKeys ==
  ASSUME TypeOK, KeysInv, NEW h \in Handler, NEW k \in Key, NEW op \in Operation,
         NEW who \in Identity, Begin(h, k, op, who)
  PROVE  KeysInv'
<1> DEFINE q == [at |-> "work", key |-> k, op |-> op, who |-> who,
                 seen |-> record[k].status, effect |-> 0]
<1>1. /\ request' = [request EXCEPT ![h] = q] /\ request[h].at = "idle" /\ Free(k)
      /\ record[k].status # "live"
      /\ UNCHANGED <<record, effects, answers, epoch, deaths>>
  BY DEF Begin, Asks, Unused, store, past
<1>2. request'[h] = q /\ \A g \in Handler : g # h => request'[g] = request[g]
  BY <1>1 DEF TypeOK
<1>3. \A g \in Handler : Locks(g) => request[g].key # k
  BY <1>1 DEF Free, Locks
<1>4. RequestsSee'
  <2>1. \A g \in Handler : g # h => (Locks(g)' <=> Locks(g))
    BY <1>2 DEF Locks
  <2>2. q.at = "work" /\ q.key = k /\ q.op = op /\ q.who = who /\ q.seen = record[k].status
    OBVIOUS
  <2>3. QED
    BY <1>1, <1>2, <1>3, <2>1, <2>2 DEF KeysInv, RequestsSee
<1>5. AllTell'
  BY <1>1, <1>2 DEF KeysInv, AllTell, Tells, Holds
<1>6. EffectsOnRecord'
  BY <1>1, <1>2 DEF KeysInv, EffectsOnRecord, Recent
<1>7. WorkIsFirst'
  <2>1. ASSUME NEW i \in DOMAIN effects, deaths = 0, effects[i].op \in Strict
        PROVE  ~Recent(i, k)
    BY <1>1, <1>3, <2>1 DEF KeysInv, EffectsOnRecord, Locks
  <2>2. QED
    BY <1>1, <1>2, <2>1 DEF KeysInv, WorkIsFirst, Recent
<1>8. QED
  BY <1>1, <1>4, <1>5, <1>6, <1>7 DEF KeysInv, AnswersOnRecord, AppliedOnce, SameRequest

\* A request ends without a record.
LEMMA EndsKeys ==
  ASSUME TypeOK, KeysInv, NEW h \in Handler, Reject(h) \/ Duplicate(h) \/ Die(h)
  PROVE  KeysInv'
<1>1. /\ request' = [request EXCEPT ![h] = Idle]
      /\ UNCHANGED <<record, effects, answers, epoch>>
      /\ deaths' = 0 => deaths = 0
  BY DEF Reject, Duplicate, Die, Ends, store, past, bounds, TypeOK
<1>2. request'[h] = Idle /\ \A g \in Handler : g # h => request'[g] = request[g]
  BY <1>1 DEF TypeOK
<1>3. Idle.at = "idle" /\ Idle.key = None
  BY DEF Idle
<1>4. RequestsSee'
  <2>1. ~Locks(h)' /\ \A g \in Handler : g # h => (Locks(g)' <=> Locks(g))
    BY <1>2, <1>3 DEF Locks
  <2>2. QED
    BY <1>1, <1>2, <1>3, <2>1 DEF KeysInv, RequestsSee
<1>5. AllTell'
  BY <1>1, <1>2, <1>3 DEF KeysInv, AllTell, Tells, Holds
<1>6. EffectsOnRecord'
  <2>1. request[h].at = "store" /\ deaths' = 0 => record[request[h].key].status = "live"
    <3>1. CASE Reject(h)
      BY <3>1 DEF Reject
    <3>2. CASE Die(h)
      BY <3>2, Bounds DEF Die, TypeOK
    <3>3. CASE Duplicate(h)
      BY <3>3 DEF Duplicate, Insertable, KeysInv, RequestsSee, Locks, TypeOK, Request, Record
    <3>4. QED
      BY <3>1, <3>2, <3>3
  <2>2. QED
    BY <1>1, <1>2, <2>1 DEF KeysInv, EffectsOnRecord, Recent
<1>7. WorkIsFirst'
  BY <1>1, <1>2, <1>3 DEF KeysInv, WorkIsFirst, Recent
<1>8. AppliedOnce'
  BY <1>1 DEF KeysInv, AppliedOnce, SameRequest
<1>9. QED
  BY <1>1, <1>4, <1>5, <1>6, <1>7, <1>8 DEF KeysInv, AnswersOnRecord

LEMMA ExpireKeys ==
  ASSUME TypeOK, KeysInv, NEW k \in Key, Expire(k)
  PROVE  KeysInv'
<1>1. /\ UNCHANGED <<request, effects, answers, deaths>>
      /\ \A h \in Handler : request[h].key # k
      /\ record' = [record EXCEPT ![k].status = "expired"]
      /\ epoch' = [epoch EXCEPT ![k] = @ + 1]
  BY DEF Expire, bounds
<1>2. /\ \A j \in Key : j # k => record'[j] = record[j] /\ epoch'[j] = epoch[j]
      /\ record'[k].status = "expired" /\ epoch'[k] = epoch[k] + 1
      /\ epoch[k] \in Nat
  BY <1>1, Bounds DEF TypeOK, Record
<1>3. RequestsSee'
  BY <1>1, <1>2 DEF KeysInv, RequestsSee, Locks
<1>4. AllTell'
  BY <1>1, <1>2 DEF KeysInv, AllTell, Tells, Holds
<1>5. AnswersOnRecord'
  <2>1. ASSUME NEW a \in answers
        PROVE  /\ a.epoch <= epoch'[a.key]
               /\ a.epoch = epoch'[a.key] =>
                     record'[a.key].status = "live" /\ record'[a.key].answer = a.effect
    <3>1. a.key \in Key /\ a.epoch \in Nat /\ a.epoch <= epoch[a.key]
      BY Bounds DEF TypeOK, KeysInv, AnswersOnRecord
    <3>2. CASE a.key = k
      BY <1>2, <3>1, <3>2
    <3>3. CASE a.key # k
      BY <1>2, <3>1, <3>3 DEF KeysInv, AnswersOnRecord
    <3>4. QED
      BY <3>2, <3>3
  <2>2. QED
    BY <1>1, <2>1 DEF KeysInv, AnswersOnRecord
<1>6. ASSUME NEW i \in DOMAIN effects, effects[i].key = k PROVE effects[i].epoch # epoch'[k]
  <2>1. effects[i].epoch <= epoch[k] /\ effects[i].epoch \in Nat
    <3>1. effects[i] \in EffectRow
      BY EffectsDomain DEF TypeOK
    <3>2. QED
      BY <1>6, <3>1, Bounds DEF EffectRow, KeysInv, EffectsOnRecord
  <2>2. QED
    BY <1>2, <2>1
<1>7. EffectsOnRecord'
  <2>1. ASSUME NEW i \in DOMAIN effects, NEW j \in Key
        PROVE  /\ effects[i].key = j => effects[i].epoch <= epoch'[j]
               /\ Recent(i, j)' => j # k /\ Recent(i, j)
    <3>1. effects[i] \in EffectRow
      BY EffectsDomain DEF TypeOK
    <3>2. effects[i].epoch \in Nat
      BY <3>1, Bounds DEF EffectRow
    <3>3. effects[i].key = j => effects[i].epoch <= epoch[j]
      BY DEF KeysInv, EffectsOnRecord
    <3>4. epoch[j] \in Nat
      BY Bounds DEF TypeOK
    <3>5. QED
      BY <1>1, <1>2, <1>6, <3>2, <3>3, <3>4 DEF Recent
  <2>2. QED
    BY <1>1, <1>2, <2>1 DEF KeysInv, EffectsOnRecord
<1>8. WorkIsFirst'
  <2>1. \A h \in Handler : request[h].at = "work" =>
           request[h].key \in Key /\ epoch'[request[h].key] = epoch[request[h].key]
    BY <1>1, <1>2 DEF KeysInv, RequestsSee
  <2>2. QED
    BY <1>1, <2>1 DEF KeysInv, WorkIsFirst, Recent
<1>9. QED
  BY <1>1, <1>3, <1>4, <1>5, <1>7, <1>8 DEF KeysInv, AppliedOnce, SameRequest

\* What told of an effect still does.
TellsStay == \A i, j, o, w : Tells(i, j, o, w) => Tells(i, j, o, w)'

\* What the effect e leaves of the earlier ones, and adds.
Added(e, key, op, who, age) ==
    /\ e = Len(effects) + 1 /\ e \notin DOMAIN effects
    /\ DOMAIN effects' = DOMAIN effects \union {e}
    /\ \A i \in DOMAIN effects : effects'[i] = effects[i]
    /\ effects'[e] = [key |-> key, op |-> op, who |-> who, epoch |-> age]
    /\ \A i \in DOMAIN effects, k \in Key : Recent(i, k)' <=> Recent(i, k)
    /\ TellsStay
    /\ \A i, j \in DOMAIN effects : SameRequest(i, j)' <=> SameRequest(i, j)

LEMMA EarlierStay ==
  ASSUME TypeOK, NEW key \in Key \union {None}, NEW op \in Operation \union {None},
         NEW who \in Identity \union {None}, NEW age \in 0..MaxExpiries,
         Takes(key, op, who, age), UNCHANGED epoch
  PROVE  \E e \in Effect : Added(e, key, op, who, age)
<1>1. LET e == Len(effects) + 1
      IN  /\ e \in Effect /\ e \notin DOMAIN effects
          /\ DOMAIN effects' = DOMAIN effects \union {e}
          /\ \A i \in DOMAIN effects : effects'[i] = effects[i]
          /\ effects'[e] = [key |-> key, op |-> op, who |-> who, epoch |-> age]
  BY TakesFacts
<1>2. PICK e \in Effect :
         /\ e = Len(effects) + 1 /\ e \notin DOMAIN effects
         /\ DOMAIN effects' = DOMAIN effects \union {e}
         /\ \A i \in DOMAIN effects : effects'[i] = effects[i]
         /\ effects'[e] = [key |-> key, op |-> op, who |-> who, epoch |-> age]
  BY <1>1
<1>3. \A i \in DOMAIN effects, k \in Key : Recent(i, k)' <=> Recent(i, k)
  BY <1>2 DEF Recent
<1>4. TellsStay
  BY <1>2 DEF TellsStay, Tells
<1>5. \A i, j \in DOMAIN effects : SameRequest(i, j)' <=> SameRequest(i, j)
  BY <1>2 DEF SameRequest
<1>6. Added(e, key, op, who, age)
  BY <1>2, <1>3, <1>4, <1>5 DEF Added
<1>7. QED
  BY <1>6

LEMMA WorkEndsKeys ==
  ASSUME TypeOK, KeysInv, WorkEnds
  PROVE  KeysInv'
<1>1. UNCHANGED <<request, record, answers, epoch, deaths>>
  BY DEF WorkEnds, bounds
<1>2. PICK key \in Key \union {None}, op \in Operation \union {None},
           who \in Identity \union {None}, age \in 0..MaxExpiries :
         key = None /\ Takes(key, op, who, age)
  BY Bounds DEF WorkEnds
<1>added. PICK e \in Effect : Added(e, key, op, who, age)
  <2>1. epoch' = epoch /\ Takes(key, op, who, age)
    BY <1>1, <1>2
  <2>2. /\ key \in Key \union {None} /\ op \in Operation \union {None}
        /\ who \in Identity \union {None}
    OBVIOUS
  <2>3. QED
    BY <2>1, <2>2, EarlierStay
<1>3. /\ e = Len(effects) + 1 /\ e \notin DOMAIN effects
      /\ DOMAIN effects' = DOMAIN effects \union {e}
      /\ \A i \in DOMAIN effects : effects'[i] = effects[i]
      /\ effects'[e] = [key |-> key, op |-> op, who |-> who, epoch |-> age]
      /\ \A i \in DOMAIN effects, k \in Key : Recent(i, k)' <=> Recent(i, k)
      /\ TellsStay
      /\ \A i, j \in DOMAIN effects : SameRequest(i, j)' <=> SameRequest(i, j)
  BY <1>added DEF Added
<1>4. RequestsSee' /\ AnswersOnRecord'
  BY <1>1 DEF KeysInv, RequestsSee, Locks, AnswersOnRecord
<1>5. AllTell'
  BY <1>1, <1>3 DEF KeysInv, AllTell, Holds, TellsStay
<1>6. \A k \in Key : ~Recent(e, k)'
  BY <1>2, <1>3, Bounds DEF Recent
<1>7. EffectsOnRecord'
  <2>1. effects'[e].key = None
    BY <1>2, <1>3
  <2>2. \A i \in DOMAIN effects, k \in Key :
           effects'[i] = effects[i] /\ (Recent(i, k)' <=> Recent(i, k))
    BY <1>3
  <2>3. QED
    BY <1>1, <1>3, <1>6, <2>1, <2>2, Bounds DEF KeysInv, EffectsOnRecord
<1>8. WorkIsFirst'
  BY <1>1, <1>3, <1>6 DEF KeysInv, WorkIsFirst, RequestsSee
<1>9. AppliedOnce'
  <2>1. \A i \in DOMAIN effects' : ~SameRequest(i, e)' /\ ~SameRequest(e, i)'
    BY <1>2, <1>3 DEF SameRequest
  <2>2. QED
    BY <1>1, <1>3, <2>1 DEF KeysInv, AppliedOnce
<1>10. QED
  BY <1>4, <1>5, <1>7, <1>8, <1>9 DEF KeysInv

\* The record of an effect and the answer that tells of it.
LEMMA StoredKeys ==
  ASSUME TypeOK, KeysInv, NEW h \in Handler, NEW e \in Nat,
         NEW k \in Key, NEW op \in Operation, NEW who \in Identity,
         request[h].key = k, request[h].op = op, request[h].who = who,
         request[h].at # "idle", Insertable(h), Stores(h, e), Ends(h),
         Answer(k, op, who, e), UNCHANGED epoch,
         TellsStay,
         Tells(e, k, Hash[op], who)'
  PROVE  RequestsSee' /\ AllTell' /\ AnswersOnRecord'
<1> DEFINE q == request[h]
           a == [key |-> k, op |-> op, who |-> who, epoch |-> epoch[k], effect |-> e]
<1>1. /\ q.seen \in {"none", "expired"} /\ record[k].status = q.seen
  BY DEF KeysInv, RequestsSee, TypeOK, Request, Insertable
<1>2. /\ record'[k] = Live(who, Hash[op], e)
      /\ \A j \in Key : j # k => record'[j] = record[j]
      /\ answers' = answers \union {a}
  BY <1>1 DEF Stores, Answer, TypeOK
<1>3. /\ record'[k].status = "live" /\ record'[k].answer = e
      /\ record'[k].hash = Hash[op] /\ record'[k].who = who
  BY <1>2 DEF Live
<1>4. /\ request'[h] = Idle /\ Idle.at = "idle" /\ Idle.key = None
      /\ \A g \in Handler : g # h => request'[g] = request[g]
  BY DEF Ends, TypeOK, Idle
<1>5. RequestsSee'
  <2>1. ~Locks(h)' /\ \A g \in Handler : g # h => (Locks(g)' <=> Locks(g))
    BY <1>4 DEF Locks
  <2>2. ASSUME NEW g \in Handler, g # h, Locks(g), request[g].seen = "expired"
        PROVE  request[g].key # k
    <3>1. SUFFICES ASSUME request[g].key = k PROVE FALSE
      OBVIOUS
    <3>2. record[k].status = "expired"
      BY <2>2, <3>1 DEF KeysInv, RequestsSee
    <3>3. q.seen = "expired" /\ ~Locks(h)
      BY <1>1, <2>2, <3>1, <3>2 DEF KeysInv, RequestsSee
    <3>4. q.at = "loose"
      BY <3>3 DEF Locks, TypeOK, Request, Phase
    <3>5. QED
      BY <3>3, <3>4 DEF KeysInv, RequestsSee
  <2>3. ASSUME NEW g \in Handler
        PROVE  LET r == request'[g]
               IN  /\ r.at = "idle" => r.key = None
                   /\ r.at # "idle" => r.key \in Key /\ r.op \in Operation /\ r.who \in Identity
                   /\ Locks(g)' /\ r.seen = "expired" => record'[r.key].status = "expired"
                   /\ r.at # "idle" /\ r.seen = "none" => record'[r.key].status # "expired"
                   /\ r.at = "loose" => r.seen = "none"
    <3>1. CASE g = h
      BY <1>4, <2>1, <3>1
    <3>2. CASE g # h
      <4>1. request'[g] = request[g] /\ (Locks(g)' <=> Locks(g))
        BY <1>4, <2>1, <3>2
      <4>2. CASE request[g].key = k
        BY <1>3, <2>2, <3>2, <4>1, <4>2 DEF KeysInv, RequestsSee
      <4>3. CASE request[g].at # "idle" /\ request[g].key # k
        <5>1. request[g].key \in Key
          BY <4>3 DEF KeysInv, RequestsSee
        <5>2. record'[request[g].key] = record[request[g].key]
          BY <1>2, <4>3, <5>1
        <5>3. QED
          BY <4>1, <4>3, <5>2 DEF KeysInv, RequestsSee
      <4>4. CASE request[g].at = "idle"
        BY <4>1, <4>4 DEF KeysInv, RequestsSee, Locks
      <4>5. QED
        BY <4>2, <4>3, <4>4
    <3>3. QED
      BY <3>1, <3>2
  <2>4. \A f, g \in Handler :
           f # g /\ Locks(f)' /\ Locks(g)' => request'[f].key # request'[g].key
    BY <1>4, <2>1 DEF KeysInv, RequestsSee
  <2>5. QED
    BY <2>3, <2>4 DEF RequestsSee
<1>6. AllTell'
  BY <1>2, <1>3, <1>4 DEF KeysInv, AllTell, Holds, TellsStay
<1>7. AnswersOnRecord'
  <2>1. epoch[k] <= epoch[k]
    BY <1>1, Bounds DEF TypeOK
  <2>2. \A b \in answers : b.key \in Key
    BY DEF TypeOK
  <2>3. ASSUME NEW b \in answers
        PROVE  b.key = k => b.epoch # epoch[k]
    BY <1>1, <2>3 DEF KeysInv, AnswersOnRecord
  <2>4. ASSUME NEW b \in answers'
        PROVE  /\ b.epoch <= epoch[b.key]
               /\ b.epoch = epoch[b.key] =>
                     record'[b.key].status = "live" /\ record'[b.key].answer = b.effect
    <3>1. CASE b = a
      BY <1>3, <2>1, <3>1
    <3>2. CASE b \in answers
      BY <1>2, <2>2, <2>3, <3>2 DEF KeysInv, AnswersOnRecord
    <3>3. QED
      BY <1>2, <3>1, <3>2
  <2>5. \A b, c \in answers' : b.key = c.key /\ b.epoch = c.epoch => b.effect = c.effect
    BY <1>2, <2>3 DEF KeysInv, AnswersOnRecord
  <2>6. QED
    BY <2>4, <2>5 DEF AnswersOnRecord
<1>8. QED
  BY <1>5, <1>6, <1>7

LEMMA StoreKeys ==
  ASSUME TypeOK, KeysInv, NEW h \in Handler, Store(h)
  PROVE  KeysInv'
<1>1. request[h].at # "idle" /\ Holds(h)
  BY DEF Store, Holds
<1>2. PICK k \in Key, op \in Operation, who \in Identity, e \in Nat :
         /\ request[h].key = k /\ request[h].op = op /\ request[h].who = who
         /\ request[h].effect = e
  BY <1>1, Bounds DEF TypeOK, Request, KeysInv, RequestsSee
<1>3. /\ Insertable(h) /\ Ends(h)
      /\ Stores(h, e) /\ UNCHANGED <<effects, epoch, deaths>>
      /\ Answer(k, op, who, e)
  BY <1>2 DEF Store, bounds
<1>4. TellsStay
  BY <1>3 DEF TellsStay, Tells
<1>5. Tells(e, k, Hash[op], who)'
  BY <1>1, <1>2, <1>4 DEF KeysInv, AllTell, TellsStay
<1>6. RequestsSee' /\ AllTell' /\ AnswersOnRecord'
  BY <1>1, <1>3, <1>2, <1>4, <1>5, StoredKeys
<1>7. /\ record'[k].status = "live"
      /\ \A j \in Key : j # k => record'[j] = record[j]
      /\ request'[h].at = "idle" /\ \A g \in Handler : g # h => request'[g] = request[g]
  BY <1>3, <1>2 DEF Stores, Live, Ends, Idle, TypeOK
<1>8. EffectsOnRecord'
  BY <1>3, <1>2, <1>7 DEF KeysInv, EffectsOnRecord, Recent
<1>9. WorkIsFirst'
  BY <1>3, <1>7 DEF KeysInv, WorkIsFirst, Recent
<1>10. AppliedOnce'
  BY <1>3 DEF KeysInv, AppliedOnce, SameRequest
<1>11. QED
  BY <1>6, <1>8, <1>9, <1>10 DEF KeysInv

LEMMA ApplyKeys ==
  ASSUME TypeOK, KeysInv, NEW h \in Handler, Apply(h)
  PROVE  KeysInv'
<1>1. request[h].at = "work"
  BY DEF Apply
<1>2. PICK k \in Key, op \in Operation, who \in Identity, age \in 0..MaxExpiries :
         /\ request[h].key = k /\ request[h].op = op /\ request[h].who = who
         /\ epoch[k] = age
  BY <1>1 DEF TypeOK, KeysInv, RequestsSee
<1>3. /\ op \in Whole /\ Insertable(h) /\ Stores(h, Len(effects) + 1) /\ Ends(h)
      /\ Takes(k, op, who, age) /\ Answer(k, op, who, Len(effects) + 1)
      /\ UNCHANGED <<epoch, deaths>>
  BY <1>2 DEF Apply, bounds
<1>added. PICK e \in Effect : Added(e, k, op, who, age)
  BY <1>3, EarlierStay
<1>4. /\ e = Len(effects) + 1 /\ e \notin DOMAIN effects
      /\ DOMAIN effects' = DOMAIN effects \union {e}
      /\ \A i \in DOMAIN effects : effects'[i] = effects[i]
      /\ effects'[e] = [key |-> k, op |-> op, who |-> who, epoch |-> age]
      /\ \A i \in DOMAIN effects, j \in Key : Recent(i, j)' <=> Recent(i, j)
      /\ TellsStay
      /\ \A i, j \in DOMAIN effects : SameRequest(i, j)' <=> SameRequest(i, j)
  BY <1>added DEF Added
<1>5. Stores(h, e) /\ Answer(k, op, who, e) /\ e \in Nat /\ Tells(e, k, Hash[op], who)'
  BY <1>3, <1>4 DEF Effect, Tells
<1>6. RequestsSee' /\ AllTell' /\ AnswersOnRecord'
  <2>1. request[h].at # "idle" /\ UNCHANGED epoch /\ e \in Nat
    BY <1>1, <1>3, <1>5
  <2>2. TellsStay
    BY <1>4
  <2>3. /\ request[h].key = k /\ request[h].op = op /\ request[h].who = who
        /\ Insertable(h) /\ Ends(h)
    BY <1>2, <1>3
  <2>4. QED
    BY <1>5, <2>1, <2>2, <2>3, StoredKeys
<1>7. /\ record'[k].status = "live" /\ record[k].status # "live"
      /\ \A j \in Key : j # k => record'[j] = record[j]
      /\ request'[h].at = "idle" /\ \A g \in Handler : g # h => request'[g] = request[g]
  <2>1. Stores(h, e) /\ Insertable(h) /\ Ends(h) /\ request[h].key = k
    BY <1>2, <1>3, <1>5
  <2>2. record'[k].status = "live" /\ \A j \in Key : j # k => record'[j] = record[j]
    BY <2>1 DEF Stores, Live, TypeOK
  <2>3. record[k].status # "live"
    BY <2>1 DEF Insertable, TypeOK, Request
  <2>4. request'[h].at = "idle" /\ \A g \in Handler : g # h => request'[g] = request[g]
    BY <2>1 DEF Ends, Idle, TypeOK
  <2>5. QED
    BY <2>2, <2>3, <2>4
<1>8. op \notin Strict
  BY <1>3, OutboxAssumption DEF Strict
<1>9. EffectsOnRecord'
  <2>1. ASSUME NEW i \in DOMAIN effects', NEW j \in Key
        PROVE  /\ effects'[i].key = j => effects'[i].epoch <= epoch'[j]
               /\ Recent(i, j)' /\ effects'[i].op \in Whole => record'[j].status = "live"
               /\ Recent(i, j)' /\ effects'[i].op \in Strict /\ deaths' = 0 =>
                     \/ record'[j].status = "live"
                     \/ \E g \in Handler : request'[g].at = "store" /\ request'[g].key = j
    <3>1. CASE i = e
      BY <1>3, <1>2, <1>4, <1>7, <1>8, <3>1, Bounds DEF Recent
    <3>2. CASE i \in DOMAIN effects /\ i # e
      <4>1. effects'[i] = effects[i] /\ (Recent(i, j)' <=> Recent(i, j))
        BY <1>4, <3>2
      <4>2. \A g \in Handler : request[g].at = "store" => request'[g] = request[g]
        BY <1>1, <1>7
      <4>3. QED
        BY <1>3, <1>2, <1>7, <3>2, <4>1, <4>2 DEF KeysInv, EffectsOnRecord
    <3>3. QED
      BY <1>4, <3>1, <3>2
  <2>2. QED
    BY <2>1 DEF EffectsOnRecord
<1>10. WorkIsFirst'
  <2>1. \A g \in Handler : request'[g].at = "work" =>
           request'[g] = request[g] /\ request[g].key \in Key
    BY <1>7 DEF KeysInv, RequestsSee
  <2>2. QED
    BY <1>3, <1>4, <1>8, <2>1 DEF KeysInv, WorkIsFirst
<1>11. AppliedOnce'
  <2>1. ASSUME NEW i \in DOMAIN effects PROVE ~SameRequest(i, e)' /\ ~SameRequest(e, i)'
    <3>1. SUFFICES ASSUME effects[i].key = k, effects[i].op = op, effects[i].epoch = age
                   PROVE  FALSE
      BY <1>4, <2>1 DEF SameRequest
    <3>2. Recent(i, k) /\ effects[i].op \in Whole
      BY <1>3, <1>2, <3>1 DEF Recent
    <3>3. QED
      BY <1>2, <1>7, <2>1, <3>2 DEF KeysInv, EffectsOnRecord
  <2>2. QED
    BY <1>3, <1>4, <2>1 DEF KeysInv, AppliedOnce
<1>12. QED
  BY <1>6, <1>9, <1>10, <1>11 DEF KeysInv

LEMMA ApplyFirstKeys ==
  ASSUME TypeOK, KeysInv, NEW h \in Handler, ApplyFirst(h)
  PROVE  KeysInv'
<1>1. request[h].at = "work" /\ Locks(h)
  BY DEF ApplyFirst, Locks
<1>2. PICK k \in Key, op \in Operation, who \in Identity, age \in 0..MaxExpiries :
         /\ request[h].key = k /\ request[h].op = op /\ request[h].who = who
         /\ epoch[k] = age
  BY <1>1 DEF TypeOK, KeysInv, RequestsSee
<1>3. /\ op \in Apart \union Early /\ op \notin Whole
      /\ Takes(k, op, who, age) /\ UNCHANGED <<answers, epoch, deaths>>
  BY <1>2, OutboxAssumption DEF ApplyFirst, bounds
<1>added. PICK e \in Effect : Added(e, k, op, who, age)
  <2>1. epoch' = epoch /\ Takes(k, op, who, age)
    BY <1>3
  <2>2. /\ k \in Key \union {None} /\ op \in Operation \union {None}
        /\ who \in Identity \union {None}
    OBVIOUS
  <2>3. QED
    BY <2>1, <2>2, EarlierStay
<1>4. /\ e = Len(effects) + 1 /\ e \notin DOMAIN effects
      /\ DOMAIN effects' = DOMAIN effects \union {e}
      /\ \A i \in DOMAIN effects : effects'[i] = effects[i]
      /\ effects'[e] = [key |-> k, op |-> op, who |-> who, epoch |-> age]
      /\ \A i \in DOMAIN effects, j \in Key : Recent(i, j)' <=> Recent(i, j)
      /\ TellsStay
      /\ \A i, j \in DOMAIN effects : SameRequest(i, j)' <=> SameRequest(i, j)
  BY <1>added DEF Added
<1>5. PICK at \in {"store", "loose"}, seen \in {"none", "expired"} :
         /\ request'[h].at = at /\ request'[h].seen = seen /\ request'[h].effect = e
         /\ request'[h].key = k /\ request'[h].op = op /\ request'[h].who = who
         /\ at = "loose" <=> op \in Early
         /\ seen = IF op \in Early THEN "none" ELSE request[h].seen
  BY <1>1, <1>2, <1>4 DEF ApplyFirst, TypeOK, Request
<1>6. \A g \in Handler : g # h => request'[g] = request[g]
  BY DEF ApplyFirst, TypeOK
\* No other request holds the lock, and only an expired record goes.
<1>7. \A g \in Handler : g # h /\ Locks(g) => request[g].key # k
  BY <1>1, <1>2 DEF KeysInv, RequestsSee
<1>8. /\ \A j \in Key : record'[j] # record[j] =>
            j = k /\ record[k].status = "expired" /\ record'[k].status = "none"
      /\ op \in Early => record'[k].status # "expired"
  <2>1. CASE op \in Early /\ request[h].seen = "expired"
    <3>1. record' = [record EXCEPT ![k] = NoRecord(None, None)]
      BY <1>2, <2>1 DEF ApplyFirst
    <3>2. record[k].status = "expired"
      BY <1>1, <1>2, <2>1 DEF KeysInv, RequestsSee
    <3>3. QED
      BY <3>1, <3>2 DEF NoRecord, TypeOK
  <2>2. CASE ~(op \in Early /\ request[h].seen = "expired")
    <3>1. record' = record
      BY <1>2, <2>2 DEF ApplyFirst
    <3>2. op \in Early => request[h].seen = "none"
      BY <2>2 DEF TypeOK, Request
    <3>3. QED
      BY <1>1, <1>2, <3>1, <3>2 DEF KeysInv, RequestsSee
  <2>3. QED
    BY <2>1, <2>2
<1>9. RequestsSee'
  <2>1. \A g \in Handler : g # h => (Locks(g)' <=> Locks(g))
    BY <1>6 DEF Locks
  <2>2. ASSUME NEW g \in Handler
        PROVE  LET r == request'[g]
               IN  /\ r.at = "idle" => r.key = None
                   /\ r.at # "idle" => r.key \in Key /\ r.op \in Operation /\ r.who \in Identity
                   /\ Locks(g)' /\ r.seen = "expired" => record'[r.key].status = "expired"
                   /\ r.at # "idle" /\ r.seen = "none" => record'[r.key].status # "expired"
                   /\ r.at = "loose" => r.seen = "none"
    <3>1. CASE g = h
      <4>1. Locks(h)' => op \notin Early
        BY <1>5 DEF Locks
      <4>2. op \notin Early => record' = record
        BY <1>2 DEF ApplyFirst
      <4>3. request[h].seen = "none" => record[k].status # "expired"
        BY <1>1, <1>2 DEF KeysInv, RequestsSee
      <4>4. request[h].seen = "expired" => record[k].status = "expired"
        BY <1>1, <1>2 DEF KeysInv, RequestsSee
      <4>5. QED
        BY <1>5, <1>8, <3>1, <4>1, <4>2, <4>3, <4>4
    <3>2. CASE g # h
      <4>1. request'[g] = request[g] /\ (Locks(g)' <=> Locks(g))
        BY <1>6, <2>1, <3>2
      <4>2. CASE request[g].at = "idle"
        BY <4>1, <4>2 DEF KeysInv, RequestsSee, Locks
      <4>3. CASE request[g].at # "idle"
        <5>1. request[g].key \in Key
          BY <4>3 DEF KeysInv, RequestsSee
        <5>2. \/ record'[request[g].key] = record[request[g].key]
              \/ ~Locks(g) /\ record'[request[g].key].status = "none"
          BY <1>7, <1>8, <3>2, <5>1
        <5>3. QED
          BY <4>1, <4>3, <5>2 DEF KeysInv, RequestsSee
      <4>4. QED
        BY <4>2, <4>3
    <3>3. QED
      BY <3>1, <3>2
  <2>3. \A f, g \in Handler :
           f # g /\ Locks(f)' /\ Locks(g)' => request'[f].key # request'[g].key
    BY <1>2, <1>5, <1>6, <1>7, <2>1 DEF KeysInv, RequestsSee
  <2>4. QED
    BY <2>2, <2>3 DEF RequestsSee
<1>10. AllTell'
  <2>1. ASSUME NEW g \in Handler, Holds(g)'
        PROVE  \E i, j, o, w :
                  /\ i = request'[g].effect /\ j = request'[g].key
                  /\ o = Hash[request'[g].op]
                  /\ w = request'[g].who /\ Tells(i, j, o, w)'
    <3>1. CASE g = h
      BY <1>4, <1>5, <3>1 DEF Tells
    <3>2. CASE g # h
      BY <1>4, <1>6, <2>1, <3>2 DEF KeysInv, AllTell, Holds, TellsStay
    <3>3. QED
      BY <3>1, <3>2
  <2>2. ASSUME NEW j \in Key, record'[j].status = "live"
        PROVE  record'[j] = record[j]
    BY <1>8, <2>2
  <2>3. QED
    BY <1>3, <1>4, <2>1, <2>2 DEF KeysInv, AllTell, TellsStay
<1>11. AnswersOnRecord'
  BY <1>3, <1>8 DEF KeysInv, AnswersOnRecord, TypeOK
\* No strict effect of the epoch is older than the request.
<1>12. ASSUME NEW i \in DOMAIN effects, Recent(i, k), record'[k] # record[k]
       PROVE  effects[i].op \notin Whole /\ (deaths = 0 => effects[i].op \notin Strict)
  BY <1>1, <1>2, <1>8, <1>12 DEF KeysInv, EffectsOnRecord, WorkIsFirst
<1>13. EffectsOnRecord'
  <2>1. ASSUME NEW i \in DOMAIN effects', NEW j \in Key
        PROVE  /\ effects'[i].key = j => effects'[i].epoch <= epoch'[j]
               /\ Recent(i, j)' /\ effects'[i].op \in Whole => record'[j].status = "live"
               /\ Recent(i, j)' /\ effects'[i].op \in Strict /\ deaths' = 0 =>
                     \/ record'[j].status = "live"
                     \/ \E g \in Handler : request'[g].at = "store" /\ request'[g].key = j
    <3>1. CASE i = e
      <4>1. effects'[i].key = k /\ effects'[i].op = op /\ effects'[i].epoch = age
        BY <1>4, <3>1
      <4>2. op \in Strict => request'[h].at = "store" /\ request'[h].key = k
        BY <1>5 DEF Strict
      <4>3. QED
        BY <1>2, <1>3, <4>1, <4>2, Bounds DEF Recent
    <3>2. CASE i \in DOMAIN effects /\ i # e
      <4>1. effects'[i] = effects[i] /\ (Recent(i, j)' <=> Recent(i, j))
        BY <1>4, <3>2
      <4>2. \A g \in Handler : request[g].at = "store" => request'[g] = request[g]
        BY <1>1, <1>6
      <4>3. QED
        BY <1>3, <1>8, <1>12, <3>2, <4>1, <4>2 DEF KeysInv, EffectsOnRecord
    <3>3. QED
      BY <1>4, <3>1, <3>2
  <2>2. QED
    BY <2>1 DEF EffectsOnRecord
<1>14. WorkIsFirst'
  <2>1. ASSUME NEW g \in Handler, request'[g].at = "work"
        PROVE  request'[g] = request[g] /\ request[g].key \in Key /\ request[g].key # k
    <3>1. g # h
      BY <1>5, <2>1
    <3>2. request'[g] = request[g] /\ Locks(g)
      BY <1>6, <2>1, <3>1 DEF Locks
    <3>3. QED
      BY <1>7, <2>1, <3>1, <3>2 DEF KeysInv, RequestsSee
  <2>2. \A j \in Key : j # k => ~Recent(e, j)'
    BY <1>4 DEF Recent
  <2>3. QED
    BY <1>3, <1>4, <2>1, <2>2 DEF KeysInv, WorkIsFirst
<1>15. AppliedOnce'
  <2>1. ASSUME NEW i \in DOMAIN effects, effects[i].key = k, effects[i].op = op,
               effects[i].epoch = age, deaths = 0
        PROVE  op \in Early
    <3>1. Recent(i, k)
      BY <1>2, <2>1 DEF Recent
    <3>2. op \notin Strict
      BY <1>1, <1>2, <2>1, <3>1 DEF KeysInv, WorkIsFirst
    <3>3. QED
      BY <1>3, <3>2 DEF Strict
  <2>2. ASSUME NEW i \in DOMAIN effects, NEW j \in DOMAIN effects', i # j,
               SameRequest(i, j)' \/ SameRequest(j, i)'
        PROVE  /\ effects'[i].op \notin Whole /\ effects'[j].op \notin Whole
               /\ deaths = 0 => effects'[i].op \in Early /\ effects'[j].op \in Early
    <3>1. CASE j = e
      BY <1>3, <1>4, <2>1, <2>2, <3>1 DEF SameRequest
    <3>2. CASE j \in DOMAIN effects
      <4>1. SameRequest(i, j) \/ SameRequest(j, i)
        BY <1>4, <2>2, <3>2
      <4>2. effects'[i] = effects[i] /\ effects'[j] = effects[j]
        BY <1>4, <3>2
      <4>3. /\ effects[i].op \notin Whole /\ (deaths = 0 => effects[i].op \in Early)
            /\ effects[i].op = effects[j].op
        BY <2>2, <3>2, <4>1 DEF KeysInv, AppliedOnce, SameRequest
      <4>4. QED
        BY <4>2, <4>3
    <3>3. QED
      BY <1>4, <3>1, <3>2
  <2>3. QED
    BY <1>3, <1>4, <2>2 DEF AppliedOnce
<1>16. QED
  BY <1>9, <1>10, <1>11, <1>13, <1>14, <1>15 DEF KeysInv

LEMMA KeysStep == TypeOK /\ KeysInv /\ [Next]_vars => KeysInv'
<1> SUFFICES ASSUME TypeOK, KeysInv, [Next]_vars PROVE KeysInv'
  OBVIOUS
<1>1. ASSUME NEW h \in Handler, HandlerStep(h) PROVE KeysInv'
  <2>1. ASSUME NEW k \in Key, NEW op \in Operation, NEW who \in Identity,
               Refuse(h, k, op, who)
        PROVE  KeysInv'
    BY <2>1, KeysFrame DEF Refuse, store, past
  <2>2. QED
    BY <1>1, <2>1, ReplayKeys, BeginKeys, EndsKeys, ApplyKeys, ApplyFirstKeys, StoreKeys
       DEF HandlerStep
<1>2. ASSUME NEW w \in Sender, SenderStep(w) \/ Kill(w) PROVE KeysInv'
  BY <1>2, KeysFrame DEF SenderStep, Send, Settle, Kill, store, past, bounds
<1>3. ASSUME NEW e \in Effect, NEW s \in Subscriber, BackoffEnds(e, s) PROVE KeysInv'
  BY <1>3, KeysFrame DEF BackoffEnds, past, bounds
<1>4. CASE UNCHANGED vars
  BY <1>4, KeysFrame DEF vars, store, past, bounds
<1>5. QED
  BY <1>1, <1>2, <1>3, <1>4, ExpireKeys, WorkEndsKeys DEF Next

-----------------------------------------------------------------------------
(* Webhooks: each event is announced once, sent by one worker at a time,   *)
(* and given up after all attempts.                                        *)

LEMMA EnqueueKeeps ==
  ASSUME TypeOK, SendersApart, AttemptsLeft, DeliveriesHonest, NEW e \in Effect,
         Unannounced(e), Enqueue(e), UNCHANGED <<sender, received, kills>>
  PROVE  /\ SendersApart' /\ AttemptsLeft' /\ DeliveriesHonest'
         /\ \A f \in Effect : f # e /\ Unannounced(f) => Unannounced(f)'
<1>1. \A f \in Effect, s \in Subscriber :
         \/ delivery'[f][s] = delivery[f][s]
         \/ /\ f = e /\ delivery[f][s].status = "none"
            /\ delivery'[f][s] = NewDelivery
  BY DEF TypeOK, Enqueue, Unannounced
<1>2. \A f \in Effect : f # e => delivery'[f] = delivery[f]
  BY DEF TypeOK, Enqueue
<1>3. NewDelivery.status = "PENDING" /\ NewDelivery.attempts = 0
  BY DEF NewDelivery
<1>4. SendersApart'
  BY <1>1, <1>3 DEF SendersApart
<1>5. AttemptsLeft'
  BY <1>1, <1>3, Bounds DEF AttemptsLeft
<1>6. DeliveriesHonest'
  <2>1. ASSUME NEW f \in Effect, NEW s \in Subscriber
        PROVE  LET d == delivery'[f][s]
                   open == IF Sending(f, s)' THEN 1 ELSE 0
               IN  /\ d.status = "DELIVERED" => received'[f][s] > 0
                   /\ d.status = "FAILED" => d.attempts = MaxAttempts
                   /\ received'[f][s] <= d.attempts + kills' + open
    <3>1. Sending(f, s)' <=> Sending(f, s)
      BY DEF Sending
    <3>2. CASE delivery'[f][s] = delivery[f][s]
      BY <3>1, <3>2 DEF DeliveriesHonest
    <3>3. CASE delivery[f][s].status = "none" /\ delivery'[f][s] = NewDelivery
      BY <1>3, <3>3, Bounds DEF AttemptsLeft, TypeOK
    <3>4. QED
      BY <1>1, <3>2, <3>3
  <2>2. QED
    BY <2>1 DEF DeliveriesHonest
<1>7. \A f \in Effect : f # e /\ Unannounced(f) => Unannounced(f)'
  BY <1>2 DEF Unannounced
<1>8. QED
  BY <1>4, <1>5, <1>6, <1>7

LEMMA SendersFrame ==
  SendersApart /\ AttemptsLeft /\ DeliveriesHonest
  /\ UNCHANGED <<delivery, sender, received, kills>>
    => SendersApart' /\ AttemptsLeft' /\ DeliveriesHonest'
  BY DEF SendersApart, AttemptsLeft, DeliveriesHonest, Sending

\* Requests that announce nothing.
LEMMA QuietRequests ==
  ASSUME TypeOK, DeliveryInv, NEW h \in Handler,
         \/ \E k \in Key, op \in Operation, who \in Identity :
               Replay(h, k, op, who) \/ Refuse(h, k, op, who) \/ Begin(h, k, op, who)
         \/ Reject(h) \/ Duplicate(h) \/ Die(h)
  PROVE  DeliveryInv'
<1>1. /\ UNCHANGED <<delivery, sender, received, kills, effects>>
      /\ \A g \in Handler : Holds(g)' => Holds(g) /\ request'[g] = request[g]
  <2> USE DEF Holds, store, past, bounds, TypeOK
  <2>1. ASSUME NEW k \in Key, NEW op \in Operation, NEW who \in Identity,
               Replay(h, k, op, who) \/ Refuse(h, k, op, who)
        PROVE  UNCHANGED <<delivery, sender, received, kills, effects, request>>
    BY <2>1 DEF Replay, Refuse
  <2>2. ASSUME NEW k \in Key, NEW op \in Operation, NEW who \in Identity,
               Begin(h, k, op, who)
        PROVE  /\ UNCHANGED <<delivery, sender, received, kills, effects>>
               /\ request'[h].at = "work"
               /\ \A g \in Handler : g # h => request'[g] = request[g]
    BY <2>2 DEF Begin
  <2>3. ASSUME Reject(h) \/ Duplicate(h) \/ Die(h)
        PROVE  /\ UNCHANGED <<delivery, sender, received, kills, effects>>
               /\ request'[h].at = "idle"
               /\ \A g \in Handler : g # h => request'[g] = request[g]
    BY <2>3 DEF Reject, Duplicate, Die, Ends, Idle
  <2>4. QED
    BY <2>1, <2>2, <2>3
<1>2. EventsOnce'
  BY <1>1 DEF DeliveryInv, EventsOnce, Unannounced
<1>3. QED
  BY <1>1, <1>2, SendersFrame DEF DeliveryInv

\* The number of an effect to come is unannounced, and nobody holds it.
LEMMA NextEffect ==
  ASSUME TypeOK, DeliveryInv, NEW key \in Key \union {None},
         NEW op \in Operation \union {None}, NEW who \in Identity \union {None},
         NEW age \in 0..MaxExpiries, Takes(key, op, who, age)
  PROVE  LET e == Len(effects) + 1
         IN  /\ e \in Effect /\ Unannounced(e) /\ e \notin DOMAIN effects
             /\ DOMAIN effects \subseteq DOMAIN effects' /\ e \in DOMAIN effects'
             /\ Len(effects') = e
<1>1. LET e == Len(effects) + 1
      IN  /\ e \in Effect /\ e \notin DOMAIN effects /\ Len(effects') = e
          /\ DOMAIN effects' = DOMAIN effects \union {e}
  BY TakesFacts
<1>2. Unannounced(Len(effects) + 1)
  BY <1>1, EffectsDomain DEF DeliveryInv, EventsOnce
<1>3. QED
  BY <1>1, <1>2

LEMMA ApplyDeliveries ==
  ASSUME TypeOK, KeysInv, DeliveryInv, NEW h \in Handler, Apply(h) \/ ApplyFirst(h)
  PROVE  DeliveryInv'
<1>1. request[h].at = "work"
  BY DEF Apply, ApplyFirst
<1>2. PICK k \in Key, op \in Operation, who \in Identity, age \in 0..MaxExpiries :
         Takes(k, op, who, age)
  BY <1>1 DEF TypeOK, KeysInv, RequestsSee, Apply, ApplyFirst
<1>3. PICK e \in Effect :
         /\ e = Len(effects) + 1 /\ Unannounced(e) /\ e \notin DOMAIN effects
         /\ DOMAIN effects \subseteq DOMAIN effects' /\ e \in DOMAIN effects'
         /\ Len(effects') = e
  <2>1. LET e == Len(effects) + 1
        IN  /\ e \in Effect /\ Unannounced(e) /\ e \notin DOMAIN effects
            /\ DOMAIN effects \subseteq DOMAIN effects' /\ e \in DOMAIN effects'
            /\ Len(effects') = e
    BY <1>2, NextEffect
  <2>2. QED
    BY <2>1
<1>4. Len(effects) \in Nat
  BY EffectsDomain
<1>5. UNCHANGED <<sender, received, kills>>
  BY DEF Apply, ApplyFirst, bounds
<1>6. /\ UNCHANGED delivery \/ (Apply(h) /\ Enqueue(e))
      /\ \A g \in Handler : g # h => request'[g] = request[g]
      /\ Apply(h) => ~Holds(h)'
      /\ Holds(h)' => request'[h].effect = e /\ UNCHANGED delivery
  <2>1. CASE Apply(h)
    <3>1. request'[h].at = "idle" /\ \A g \in Handler : g # h => request'[g] = request[g]
      BY <2>1 DEF Apply, Ends, Idle, TypeOK
    <3>2. UNCHANGED delivery \/ Enqueue(e)
      BY <1>3, <2>1 DEF Apply
    <3>3. QED
      BY <2>1, <3>1, <3>2 DEF Holds
  <2>2. CASE ApplyFirst(h)
    <3>1. /\ request'[h].effect = e /\ \A g \in Handler : g # h => request'[g] = request[g]
          /\ UNCHANGED delivery
      BY <1>3, <2>2 DEF ApplyFirst, TypeOK
    <3>2. ~Apply(h)
      BY <2>2, OutboxAssumption DEF Apply, ApplyFirst
    <3>3. QED
      BY <3>1, <3>2
  <2>3. QED
    BY <2>1, <2>2
<1>7. SendersApart' /\ AttemptsLeft' /\ DeliveriesHonest'
  BY <1>3, <1>5, <1>6, EnqueueKeeps, SendersFrame DEF DeliveryInv
<1>8. \A f \in Effect : f # e /\ Unannounced(f) => Unannounced(f)'
  BY <1>3, <1>5, <1>6, EnqueueKeeps DEF DeliveryInv, Unannounced
<1>9. EventsOnce'
  <2>1. \A f \in Effect : f > Len(effects') => Unannounced(f)'
    BY <1>3, <1>4, <1>8 DEF DeliveryInv, EventsOnce, Effect
  <2>2. ASSUME NEW g \in Handler, Holds(g)'
        PROVE  /\ request'[g].effect \in DOMAIN effects'
               /\ \A s \in Subscriber : delivery'[request'[g].effect][s].status = "none"
               /\ g # h => request'[g].effect # e
    <3>1. CASE g = h
      BY <1>3, <1>6, <2>2, <3>1 DEF Unannounced
    <3>2. CASE g # h
      <4>1. /\ request'[g] = request[g] /\ request[g].effect \in DOMAIN effects
            /\ Unannounced(request[g].effect)
        BY <1>6, <2>2, <3>2 DEF DeliveryInv, EventsOnce, Holds
      <4>2. PICK f \in Effect : f = request[g].effect
        BY <4>1, EffectsDomain
      <4>3. f # e /\ Unannounced(f)'
        BY <1>3, <1>8, <4>1, <4>2
      <4>4. QED
        BY <1>3, <4>1, <4>2, <4>3 DEF Unannounced
    <3>3. QED
      BY <3>1, <3>2
  <2>3. \A f, g \in Handler :
           f # g /\ Holds(f)' /\ Holds(g)' => request'[f].effect # request'[g].effect
    BY <1>6, <2>2 DEF DeliveryInv, EventsOnce, Holds
  <2>4. QED
    BY <2>1, <2>2, <2>3 DEF EventsOnce, Unannounced
<1>10. QED
  BY <1>7, <1>9 DEF DeliveryInv

LEMMA StoreDeliveries ==
  ASSUME TypeOK, DeliveryInv, NEW h \in Handler, Store(h)
  PROVE  DeliveryInv'
<1>1. Holds(h)
  BY DEF Store, Holds
<1>2. PICK e \in Effect : e = request[h].effect /\ Unannounced(e) /\ e \in DOMAIN effects
  BY <1>1, EffectsDomain DEF DeliveryInv, EventsOnce
<1>3. /\ Enqueue(e) /\ UNCHANGED <<sender, received, kills, effects>>
      /\ ~Holds(h)' /\ \A g \in Handler : g # h => request'[g] = request[g]
  BY <1>2 DEF Store, Ends, Idle, Holds, TypeOK, bounds
<1>4. /\ SendersApart' /\ AttemptsLeft' /\ DeliveriesHonest'
      /\ \A f \in Effect : f # e /\ Unannounced(f) => Unannounced(f)'
  BY <1>2, <1>3, EnqueueKeeps DEF DeliveryInv
<1>5. EventsOnce'
  <2>1. \A f \in Effect : f > Len(effects') => Unannounced(f)'
    <3>1. \A f \in Effect : f > Len(effects) => f # e
      BY <1>2, EffectsDomain DEF Effect
    <3>2. QED
      BY <1>3, <1>4, <3>1 DEF DeliveryInv, EventsOnce
  <2>2. ASSUME NEW g \in Handler, Holds(g)'
        PROVE  /\ g # h /\ request'[g] = request[g] /\ Holds(g)
               /\ request[g].effect \in DOMAIN effects
               /\ \A s \in Subscriber : delivery'[request'[g].effect][s].status = "none"
    <3>1. g # h /\ request'[g] = request[g] /\ Holds(g)
      BY <1>3, <2>2 DEF Holds
    <3>2. PICK f \in Effect : f = request[g].effect /\ f \in DOMAIN effects /\ Unannounced(f)
      BY <3>1, EffectsDomain DEF DeliveryInv, EventsOnce
    <3>3. f # e
      BY <1>1, <1>2, <3>1, <3>2 DEF DeliveryInv, EventsOnce
    <3>4. Unannounced(f)'
      BY <1>4, <3>2, <3>3
    <3>5. QED
      BY <3>1, <3>2, <3>4 DEF Unannounced
  <2>3. QED
    BY <1>3, <2>1, <2>2 DEF DeliveryInv, EventsOnce, Unannounced
<1>6. QED
  BY <1>4, <1>5 DEF DeliveryInv

LEMMA WorkEndsDeliveries ==
  ASSUME TypeOK, DeliveryInv, WorkEnds
  PROVE  DeliveryInv'
<1>1. PICK key \in Key \union {None}, op \in Operation \union {None},
           who \in Identity \union {None}, age \in 0..MaxExpiries :
         key = None /\ Takes(key, op, who, age)
  BY Bounds DEF WorkEnds
<1>2. PICK e \in Effect :
         /\ e = Len(effects) + 1 /\ Unannounced(e) /\ e \notin DOMAIN effects
         /\ DOMAIN effects \subseteq DOMAIN effects' /\ Len(effects') = e
  <2>1. LET e == Len(effects) + 1
        IN  /\ e \in Effect /\ Unannounced(e) /\ e \notin DOMAIN effects
            /\ DOMAIN effects \subseteq DOMAIN effects' /\ e \in DOMAIN effects'
            /\ Len(effects') = e
    BY <1>1, NextEffect
  <2>2. QED
    BY <2>1
<1>3. Enqueue(e) /\ UNCHANGED <<request, sender, received, kills>> /\ Len(effects) \in Nat
  BY <1>2, EffectsDomain DEF WorkEnds, bounds
<1>4. /\ SendersApart' /\ AttemptsLeft' /\ DeliveriesHonest'
      /\ \A f \in Effect : f # e /\ Unannounced(f) => Unannounced(f)'
  BY <1>2, <1>3, EnqueueKeeps DEF DeliveryInv
<1>5. EventsOnce'
  <2>1. \A f \in Effect : f > Len(effects') => Unannounced(f)'
    BY <1>2, <1>3, <1>4 DEF DeliveryInv, EventsOnce, Effect
  <2>2. ASSUME NEW g \in Handler, Holds(g)'
        PROVE  /\ Holds(g) /\ request[g].effect \in DOMAIN effects
               /\ \A s \in Subscriber : delivery'[request'[g].effect][s].status = "none"
    <3>1. Holds(g)
      BY <1>3, <2>2 DEF Holds
    <3>2. PICK f \in Effect : f = request[g].effect /\ f \in DOMAIN effects /\ Unannounced(f)
      BY <3>1, EffectsDomain DEF DeliveryInv, EventsOnce
    <3>3. Unannounced(f)'
      BY <1>2, <1>4, <3>2
    <3>4. QED
      BY <1>3, <3>1, <3>2, <3>3 DEF Unannounced
  <2>3. QED
    BY <1>2, <1>3, <2>1, <2>2 DEF DeliveryInv, EventsOnce, Unannounced
<1>6. QED
  BY <1>4, <1>5 DEF DeliveryInv

\* A step that only touches announced deliveries leaves EventsOnce.
LEMMA EventsFrame ==
  ASSUME EventsOnce, UNCHANGED <<request, effects>>, TypeOK,
         \A f \in Effect : Unannounced(f) => Unannounced(f)'
  PROVE  EventsOnce'
<1>1. \A g \in Handler : Holds(g)' <=> Holds(g)
  BY DEF Holds
<1>2. ASSUME NEW g \in Handler, Holds(g)
      PROVE  \A s \in Subscriber : delivery'[request[g].effect][s].status = "none"
  <2>1. PICK f \in Effect : f = request[g].effect /\ Unannounced(f)
    BY <1>2, EffectsDomain DEF EventsOnce
  <2>2. Unannounced(f)'
    BY <2>1
  <2>3. QED
    BY <2>1, <2>2 DEF Unannounced
<1>3. QED
  BY <1>1, <1>2 DEF EventsOnce, Unannounced

LEMMA SendDeliveries ==
  ASSUME TypeOK, DeliveryInv, NEW w \in Sender, NEW e \in Effect, NEW s \in Subscriber,
         Send(w, e, s)
  PROVE  DeliveryInv'
<1>1. PICK got, ok \in BOOLEAN :
         /\ ok => got
         /\ received' = IF got THEN [received EXCEPT ![e][s] = @ + 1] ELSE received
         /\ sender' = [sender EXCEPT ![w] = [at |-> "sent", event |-> e, to |-> s, ok |-> ok]]
  BY DEF Send
<1>2. /\ sender[w].at = "idle" /\ delivery[e][s].status = "PENDING" /\ Unlocked(e, s)
      /\ UNCHANGED <<request, effects, delivery, kills>>
  BY DEF Send, Due, store, bounds
<1>3. /\ sender'[w].at = "sent" /\ sender'[w].event = e /\ sender'[w].to = s
      /\ sender'[w].ok = ok
      /\ \A v \in Sender : v # w => sender'[v] = sender[v]
  BY <1>1 DEF TypeOK
<1>4. \A f \in Effect, t \in Subscriber :
         /\ received[f][t] \in Nat /\ delivery[f][t].attempts \in Nat /\ kills \in Nat
         /\ IF f = e /\ t = s /\ got THEN received'[f][t] = received[f][t] + 1
                                   ELSE received'[f][t] = received[f][t]
  BY <1>1, Bounds DEF TypeOK, Delivery
<1>5. EventsOnce'
  BY <1>2, EventsFrame DEF DeliveryInv, Unannounced
<1>6. SendersApart'
  <2>1. \A v \in Sender : v # w /\ sender[v].at = "sent" =>
           sender[v].event # e \/ sender[v].to # s
    BY <1>2 DEF Sending, Unlocked
  <2>2. ASSUME NEW v \in Sender
        PROVE  LET d == sender'[v]
               IN  IF d.at = "idle" THEN d.event = 0
                   ELSE /\ d.event \in Effect /\ d.to \in Subscriber
                        /\ delivery'[d.event][d.to].status = "PENDING"
                        /\ d.ok => received'[d.event][d.to] > 0
    <3>1. CASE v = w
      BY <1>1, <1>2, <1>3, <1>4, <3>1
    <3>2. CASE v # w
      BY <1>2, <1>3, <1>4, <3>2 DEF DeliveryInv, SendersApart
    <3>3. QED
      BY <3>1, <3>2
  <2>3. \A u, v \in Sender :
           u # v /\ sender'[u].at = "sent" /\ sender'[v].at = "sent" =>
              sender'[u].event # sender'[v].event \/ sender'[u].to # sender'[v].to
    BY <1>3, <2>1 DEF DeliveryInv, SendersApart
  <2>4. QED
    BY <2>2, <2>3 DEF SendersApart
<1>7. AttemptsLeft'
  BY <1>2, <1>4 DEF DeliveryInv, AttemptsLeft
<1>8. DeliveriesHonest'
  <2>1. ASSUME NEW f \in Effect, NEW t \in Subscriber
        PROVE  LET d == delivery'[f][t]
                   open == IF Sending(f, t)' THEN 1 ELSE 0
               IN  /\ d.status = "DELIVERED" => received'[f][t] > 0
                   /\ d.status = "FAILED" => d.attempts = MaxAttempts
                   /\ received'[f][t] <= d.attempts + kills' + open
    <3>1. CASE f = e /\ t = s
      <4>1. received[f][t] <= delivery[f][t].attempts + kills
        BY <1>2, <1>4, <3>1 DEF DeliveryInv, DeliveriesHonest, Unlocked
      <4>2. Sending(f, t)'
        BY <1>3, <3>1 DEF Sending
      <4>3. QED
        BY <1>2, <1>4, <3>1, <4>1, <4>2
    <3>2. CASE ~(f = e /\ t = s)
      <4>1. Sending(f, t)' <=> Sending(f, t)
        <5>1. ~(sender[w].event = f /\ sender[w].to = t)
          BY <1>2 DEF DeliveryInv, SendersApart, Effect
        <5>2. ~(sender'[w].event = f /\ sender'[w].to = t)
          BY <1>3, <3>2
        <5>3. QED
          BY <1>3, <5>1, <5>2 DEF Sending
      <4>2. QED
        BY <1>2, <1>4, <3>2, <4>1 DEF DeliveryInv, DeliveriesHonest
    <3>3. QED
      BY <3>1, <3>2
  <2>2. QED
    BY <2>1 DEF DeliveriesHonest
<1>9. QED
  BY <1>5, <1>6, <1>7, <1>8 DEF DeliveryInv

\* The sender that stops: its event is settled, or it was killed.
LEMMA SettleDeliveries ==
  ASSUME TypeOK, DeliveryInv, NEW w \in Sender, Settle(w)
  PROVE  DeliveryInv'
<1>1. PICK e \in Effect, s \in Subscriber, ok \in BOOLEAN :
         /\ sender[w].at = "sent" /\ e = sender[w].event /\ s = sender[w].to
         /\ ok = sender[w].ok
         /\ delivery[e][s].status = "PENDING" /\ (ok => received[e][s] > 0)
  BY DEF Settle, DeliveryInv, SendersApart, TypeOK, SenderState
<1>2. /\ UNCHANGED <<request, effects, received, kills>>
      /\ delivery' = [delivery EXCEPT ![e][s] = Attempted(@, ok)]
      /\ sender' = [sender EXCEPT ![w] = NoDuty]
  BY <1>1 DEF Settle, past, bounds
<1>3. /\ sender'[w].at = "idle" /\ sender'[w].event = 0
      /\ \A v \in Sender : v # w => sender'[v] = sender[v]
  BY <1>2 DEF TypeOK, NoDuty
<1>4. /\ delivery'[e][s] = Attempted(delivery[e][s], ok)
      /\ \A f \in Effect, t \in Subscriber :
            ~(f = e /\ t = s) => delivery'[f][t] = delivery[f][t]
  BY <1>2 DEF TypeOK
<1>5. /\ delivery[e][s] \in Delivery /\ delivery[e][s].attempts < MaxAttempts
      /\ delivery[e][s].attempts \in Nat
      /\ received[e][s] \in Nat /\ kills \in Nat
  BY <1>1, Bounds DEF TypeOK, DeliveryInv, AttemptsLeft, Delivery
<1>6. /\ delivery'[e][s].attempts = delivery[e][s].attempts + 1
      /\ delivery'[e][s].status \in {"PENDING", "DELIVERED", "FAILED"}
      /\ delivery'[e][s].status = "DELIVERED" => ok
      /\ delivery'[e][s].status = "FAILED" => delivery[e][s].attempts + 1 >= MaxAttempts
      /\ delivery'[e][s].status = "PENDING" => delivery[e][s].attempts + 1 < MaxAttempts
  BY <1>1, <1>4, <1>5, Bounds DEF Attempted, Delivery
<1>7. EventsOnce'
  <2>1. \A f \in Effect : Unannounced(f) => Unannounced(f)'
    BY <1>1, <1>4 DEF Unannounced
  <2>2. QED
    BY <1>2, <2>1, EventsFrame DEF DeliveryInv
\* No other worker has this delivery.
<1>8. ASSUME NEW v \in Sender, v # w, sender[v].at = "sent"
      PROVE  ~(sender[v].event = e /\ sender[v].to = s)
  BY <1>1, <1>8 DEF DeliveryInv, SendersApart
<1>9. SendersApart'
  <2>1. ASSUME NEW v \in Sender
        PROVE  LET d == sender'[v]
               IN  IF d.at = "idle" THEN d.event = 0
                   ELSE /\ d.event \in Effect /\ d.to \in Subscriber
                        /\ delivery'[d.event][d.to].status = "PENDING"
                        /\ d.ok => received'[d.event][d.to] > 0
    <3>1. CASE v = w
      BY <1>3, <3>1
    <3>2. CASE v # w /\ sender[v].at = "idle"
      BY <1>3, <3>2 DEF DeliveryInv, SendersApart
    <3>3. CASE v # w /\ sender[v].at # "idle"
      <4>1. sender[v].at = "sent"
        BY <3>3 DEF TypeOK, SenderState
      <4>2. QED
        BY <1>2, <1>3, <1>4, <1>8, <3>3, <4>1 DEF DeliveryInv, SendersApart
    <3>4. QED
      BY <3>1, <3>2, <3>3
  <2>2. \A u, v \in Sender :
           u # v /\ sender'[u].at = "sent" /\ sender'[v].at = "sent" =>
              sender'[u].event # sender'[v].event \/ sender'[u].to # sender'[v].to
    BY <1>3 DEF DeliveryInv, SendersApart
  <2>3. QED
    BY <2>1, <2>2 DEF SendersApart
<1>10. AttemptsLeft'
  <2>1. ASSUME NEW f \in Effect, NEW t \in Subscriber
        PROVE  /\ delivery'[f][t].status = "PENDING" => delivery'[f][t].attempts < MaxAttempts
               /\ delivery'[f][t].status = "none" =>
                     received'[f][t] = 0 /\ delivery'[f][t].attempts = 0
    <3>1. CASE f = e /\ t = s
      BY <1>6, <3>1
    <3>2. CASE ~(f = e /\ t = s)
      BY <1>2, <1>4, <3>2 DEF DeliveryInv, AttemptsLeft
    <3>3. QED
      BY <3>1, <3>2
  <2>2. QED
    BY <2>1 DEF AttemptsLeft
<1>11. DeliveriesHonest'
  <2>1. ASSUME NEW f \in Effect, NEW t \in Subscriber
        PROVE  LET d == delivery'[f][t]
                   open == IF Sending(f, t)' THEN 1 ELSE 0
               IN  /\ d.status = "DELIVERED" => received'[f][t] > 0
                   /\ d.status = "FAILED" => d.attempts = MaxAttempts
                   /\ received'[f][t] <= d.attempts + kills' + open
    <3>1. CASE f = e /\ t = s
      <4>1. received[e][s] <= delivery[e][s].attempts + kills + 1
        BY <1>5 DEF DeliveryInv, DeliveriesHonest
      <4>2. QED
        BY <1>1, <1>2, <1>5, <1>6, <3>1, <4>1, Bounds
    <3>2. CASE ~(f = e /\ t = s)
      <4>1. Sending(f, t)' <=> Sending(f, t)
        BY <1>1, <1>3, <3>2 DEF Sending, Effect
      <4>2. QED
        BY <1>2, <1>4, <3>2, <4>1 DEF DeliveryInv, DeliveriesHonest
    <3>3. QED
      BY <3>1, <3>2
  <2>2. QED
    BY <2>1 DEF DeliveriesHonest
<1>12. QED
  BY <1>7, <1>9, <1>10, <1>11 DEF DeliveryInv

LEMMA KillDeliveries ==
  ASSUME TypeOK, DeliveryInv, NEW w \in Sender, Kill(w)
  PROVE  DeliveryInv'
<1>1. /\ UNCHANGED <<request, effects, received, delivery>>
      /\ sender' = [sender EXCEPT ![w] = NoDuty] /\ kills' = kills + 1
  BY DEF Kill, store, past
<1>2. /\ sender'[w].at = "idle" /\ sender'[w].event = 0
      /\ \A v \in Sender : v # w => sender'[v] = sender[v]
  BY <1>1 DEF TypeOK, NoDuty
<1>3. EventsOnce'
  BY <1>1, EventsFrame DEF DeliveryInv, Unannounced
<1>4. SendersApart'
  BY <1>1, <1>2 DEF DeliveryInv, SendersApart
<1>5. AttemptsLeft'
  BY <1>1 DEF DeliveryInv, AttemptsLeft
<1>6. DeliveriesHonest'
  <2>1. ASSUME NEW f \in Effect, NEW t \in Subscriber
        PROVE  received'[f][t] <= delivery'[f][t].attempts + kills'
    <3>1. delivery[f][t].attempts \in Nat /\ kills \in Nat /\ received[f][t] \in Nat
      BY Bounds DEF TypeOK, Delivery
    <3>2. received[f][t] <= delivery[f][t].attempts + kills + 1
      BY <3>1 DEF DeliveryInv, DeliveriesHonest
    <3>3. QED
      BY <1>1, <3>1, <3>2
  <2>2. \A f \in Effect, t \in Subscriber :
           received'[f][t] \in Nat /\ delivery'[f][t].attempts \in Nat /\ kills' \in Nat
    BY <1>1, Bounds DEF TypeOK, Delivery
  <2>3. QED
    BY <1>1, <2>1, <2>2 DEF DeliveryInv, DeliveriesHonest
<1>7. QED
  BY <1>3, <1>4, <1>5, <1>6 DEF DeliveryInv

LEMMA BackoffDeliveries ==
  ASSUME TypeOK, DeliveryInv, NEW e \in Effect, NEW s \in Subscriber, BackoffEnds(e, s)
  PROVE  DeliveryInv'
<1>1. /\ UNCHANGED <<request, effects, received, sender, kills>>
      /\ \A f \in Effect, t \in Subscriber :
            /\ delivery'[f][t].status = delivery[f][t].status
            /\ delivery'[f][t].attempts = delivery[f][t].attempts
  BY DEF BackoffEnds, TypeOK, Delivery, past, bounds
<1>2. EventsOnce'
  BY <1>1, EventsFrame DEF DeliveryInv, Unannounced
<1>3. SendersApart'
  BY <1>1 DEF DeliveryInv, SendersApart
<1>4. AttemptsLeft'
  BY <1>1 DEF DeliveryInv, AttemptsLeft
<1>5. DeliveriesHonest'
  BY <1>1 DEF DeliveryInv, DeliveriesHonest, Sending
<1>6. QED
  BY <1>2, <1>3, <1>4, <1>5 DEF DeliveryInv

LEMMA DeliveryStep == TypeOK /\ KeysInv /\ DeliveryInv /\ [Next]_vars => DeliveryInv'
<1> SUFFICES ASSUME TypeOK, KeysInv, DeliveryInv, [Next]_vars PROVE DeliveryInv'
  OBVIOUS
<1>1. ASSUME NEW h \in Handler, HandlerStep(h) PROVE DeliveryInv'
  BY <1>1, QuietRequests, ApplyDeliveries, StoreDeliveries DEF HandlerStep
<1>2. ASSUME NEW w \in Sender, SenderStep(w) \/ Kill(w) PROVE DeliveryInv'
  BY <1>2, SendDeliveries, SettleDeliveries, KillDeliveries DEF SenderStep
<1>3. ASSUME UNCHANGED <<request, effects, delivery, received, sender, kills>>
      PROVE  DeliveryInv'
  BY <1>3, SendersFrame, EventsFrame DEF DeliveryInv, Unannounced
<1>4. ASSUME NEW k \in Key, Expire(k) PROVE DeliveryInv'
  BY <1>3, <1>4 DEF Expire, bounds
<1>5. CASE UNCHANGED vars
  BY <1>3, <1>5 DEF vars, store, past, bounds
<1>6. QED
  BY <1>1, <1>2, <1>4, <1>5, WorkEndsDeliveries, BackoffDeliveries DEF Next

LEMMA TypeStep == TypeOK /\ KeysInv /\ DeliveryInv /\ [Next]_vars => TypeOK'
<1> SUFFICES ASSUME TypeOK, KeysInv, DeliveryInv, [Next]_vars PROVE TypeOK'
  OBVIOUS
<1>1. ASSUME NEW h \in Handler, HandlerStep(h) PROVE TypeOK'
  BY <1>1, AskTypes, WorkTypes DEF HandlerStep
<1>2. CASE UNCHANGED vars
  BY <1>2 DEF TypeOK, vars, store, past, bounds
<1>3. QED
  BY <1>1, <1>2, DeliveryTypes DEF Next

LEMMA OutboxStart == Init => OutboxInv
<1> SUFFICES ASSUME Init PROVE OutboxInv
  OBVIOUS
<1>1. TypeOK
  <2>1. effects \in Seq(EffectRow) /\ Len(effects) = 0
    BY DEF Init
  <2>2. 0 \in 0..MaxExpiries /\ 0 \in 0..(MaxAttempts + MaxKills)
    BY Bounds
  <2>3. 0 \in 0..MaxRequests /\ 0 \in 0..MaxDeaths /\ 0 \in 0..MaxKills /\ 0 <= MaxEffects
    BY Bounds
  <2>4. QED
    BY <2>1, <2>2, <2>3, StartTypes DEF Init, TypeOK
<1>2. DOMAIN effects = {} /\ Len(effects) = 0
  BY DEF Init
<1>3. \A h \in Handler : request[h].at = "idle" /\ request[h].key = None
  BY DEF Init, Idle
<1>4. KeysInv
  <2>1. \A k \in Key : record[k].status = "none"
    BY DEF Init, NoRecord
  <2>2. answers = {}
    BY DEF Init
  <2>3. QED
    BY <1>2, <1>3, <2>1, <2>2 DEF KeysInv, RequestsSee, Locks, AllTell, Holds,
       AnswersOnRecord, EffectsOnRecord, WorkIsFirst, AppliedOnce
<1>5. DeliveryInv
  <2>1. \A e \in Effect, s \in Subscriber :
           /\ delivery[e][s].status = "none" /\ delivery[e][s].attempts = 0
           /\ received[e][s] = 0
    BY DEF Init, NoDelivery
  <2>2. \A w \in Sender : sender[w].at = "idle" /\ sender[w].event = 0
    BY DEF Init, NoDuty
  <2>3. kills = 0
    BY DEF Init
  <2>4. EventsOnce
    BY <1>3, <2>1 DEF EventsOnce, Holds, Unannounced
  <2>5. SendersApart /\ AttemptsLeft
    BY <2>1, <2>2 DEF SendersApart, AttemptsLeft
  <2>6. DeliveriesHonest
    BY <2>1, <2>3 DEF DeliveriesHonest
  <2>7. QED
    BY <2>4, <2>5, <2>6 DEF DeliveryInv
<1>6. QED
  BY <1>1, <1>4, <1>5 DEF OutboxInv

LEMMA OutboxStep == OutboxInv /\ [Next]_vars => OutboxInv'
  BY TypeStep, KeysStep, DeliveryStep DEF OutboxInv

-----------------------------------------------------------------------------
\* Rows, requests and histories have their types.  That a subscriber hears of an
\* event a bounded number of times is part of it.
THEOREM OutboxTypes == Spec => []TypeOK
<1>1. OutboxInv => TypeOK
  BY DEF OutboxInv
<1>2. QED
  BY <1>1, OutboxStart, OutboxStep, PTL DEF Spec

\* One effect for a key while its record lives: the lock, the constraint and the
\* place of the commit suffice for any number of handlers, keys and requests.
THEOREM OneEffect == Spec => []AppliedOnce
<1>1. OutboxInv => AppliedOnce
  BY DEF OutboxInv, KeysInv
<1>2. QED
  BY <1>1, OutboxStart, OutboxStep, PTL DEF Spec

\* Answers to a key agree, and tell of effects of the very operation asked, or of
\* the same follow-up question to another run.
THEOREM OneAnswer == Spec => []AnswersAgree
<1>1. OutboxInv => AnswersAgree
  <2> SUFFICES ASSUME OutboxInv PROVE AnswersAgree
    OBVIOUS
  <2>1. \A a \in answers :
           a.op \in Operation /\ Tells(a.effect, a.key, Hash[a.op], a.who)
    BY DEF OutboxInv, KeysInv, AllTell, TypeOK
  <2>2. \A a, b \in Operation : Hash[a] = Hash[b] => a = b \/ b \in FollowUp
    BY OutboxAssumption DEF Operation
  <2>3. QED
    BY <2>1, <2>2 DEF AnswersAgree, Tells, OutboxInv, KeysInv, AnswersOnRecord
<1>2. QED
  BY <1>1, OutboxStart, OutboxStep, PTL DEF Spec

\* A delivery's status is true, for any number of webhook workers.
THEOREM HonestDeliveries == Spec => []DeliveriesHonest
<1>1. OutboxInv => DeliveriesHonest
  BY DEF OutboxInv, DeliveryInv
<1>2. QED
  BY <1>1, OutboxStart, OutboxStep, PTL DEF Spec

-----------------------------------------------------------------------------
(* The deliveries implement OutboxContract.                                *)

PromiseStep == [Promise!ContractNext]_Promise!contractVars

Statuses == {"none", "PENDING", "DELIVERED", "FAILED"}

LEMMA StatusTypes ==
  ASSUME TypeOK, NEW a \in Announcement
  PROVE  delivery[a[1]][a[2]].status \in Statuses
<1>1. a[1] \in Effect /\ a[2] \in Subscriber
  BY DEF Announcement
<1>2. QED
  BY <1>1 DEF TypeOK, Delivery, DeliveryStatus, Statuses

\* New rows are pending.
LEMMA AnnouncePromised ==
  ASSUME TypeOK, TypeOK',
         \A a \in Announcement :
            \/ delivery'[a[1]][a[2]].status = delivery[a[1]][a[2]].status
            \/ /\ delivery[a[1]][a[2]].status = "none"
               /\ delivery'[a[1]][a[2]].status = "PENDING"
  PROVE  PromiseStep
<1> DEFINE new == {a \in Announcement : /\ delivery[a[1]][a[2]].status = "none"
                                       /\ delivery'[a[1]][a[2]].status = "PENDING"}
<1>1. new \in SUBSET (Announcement \ (Pairs({"PENDING"}) \union Pairs({"DELIVERED", "FAILED"})))
  BY DEF Pairs
<1>2. Pairs({"PENDING"})' = Pairs({"PENDING"}) \union new
  BY DEF Pairs
<1>3. Pairs({"DELIVERED", "FAILED"})' = Pairs({"DELIVERED", "FAILED"})
  BY DEF Pairs
<1> HIDE DEF new
<1>4. Promise!Announce
  BY <1>1, <1>2, <1>3 DEF Promise!Announce
<1>5. QED
  BY <1>4 DEF PromiseStep, Promise!ContractNext

\* One row is settled.
LEMMA SettlePromised ==
  ASSUME TypeOK, TypeOK', NEW w \in Sender, Settle(w), DeliveryInv
  PROVE  PromiseStep
<1>1. PICK e \in Effect, s \in Subscriber, ok \in BOOLEAN :
         /\ delivery[e][s].status = "PENDING"
         /\ delivery' = [delivery EXCEPT ![e][s] = Attempted(@, ok)]
  BY DEF Settle, DeliveryInv, SendersApart, TypeOK, SenderState
<1>2. /\ delivery'[e][s] = Attempted(delivery[e][s], ok)
      /\ \A f \in Effect, t \in Subscriber :
            ~(f = e /\ t = s) => delivery'[f][t] = delivery[f][t]
  BY <1>1 DEF TypeOK
<1>3. delivery'[e][s].status \in {"PENDING", "DELIVERED", "FAILED"}
  BY <1>1, <1>2 DEF TypeOK, Attempted, Delivery
<1>4. PICK x \in Announcement : x = <<e, s>>
  BY DEF Announcement
<1>5. ASSUME NEW a \in Announcement, a # x
      PROVE  delivery'[a[1]][a[2]] = delivery[a[1]][a[2]]
  <2>1. PICK f \in Effect, t \in Subscriber : a = <<f, t>>
    BY DEF Announcement
  <2>2. QED
    BY <1>2, <1>4, <1>5, <2>1
<1>6. CASE delivery'[e][s].status = "PENDING"
  <2>1. \A a \in Announcement :
           delivery'[a[1]][a[2]].status = delivery[a[1]][a[2]].status
    BY <1>1, <1>4, <1>5, <1>6
  <2>2. QED
    BY <2>1, AnnouncePromised
<1>7. CASE delivery'[e][s].status # "PENDING"
  <2>1. x \in Pairs({"PENDING"})
    BY <1>1, <1>4 DEF Pairs
  <2>2. Pairs({"PENDING"})' = Pairs({"PENDING"}) \ {x}
    BY <1>4, <1>5, <1>7 DEF Pairs
  <2>3. Pairs({"DELIVERED", "FAILED"})' = Pairs({"DELIVERED", "FAILED"}) \union {x}
    BY <1>3, <1>4, <1>5, <1>7 DEF Pairs
  <2>4. Promise!Settle(x)
    BY <2>1, <2>2, <2>3 DEF Promise!Settle
  <2>5. QED
    BY <2>4 DEF PromiseStep, Promise!ContractNext
<1>8. QED
  BY <1>6, <1>7

LEMMA EnqueuePromised ==
  ASSUME TypeOK, TypeOK', NEW e \in Effect, Unannounced(e), Enqueue(e)
  PROVE  PromiseStep
<1>1. ASSUME NEW a \in Announcement
      PROVE  \/ delivery'[a[1]][a[2]].status = delivery[a[1]][a[2]].status
             \/ /\ delivery[a[1]][a[2]].status = "none"
                /\ delivery'[a[1]][a[2]].status = "PENDING"
  <2>1. PICK f \in Effect, t \in Subscriber : a = <<f, t>>
    BY DEF Announcement
  <2>2. \/ delivery'[f][t] = delivery[f][t]
        \/ delivery[f][t].status = "none" /\ delivery'[f][t] = NewDelivery
    BY DEF TypeOK, Enqueue, Unannounced
  <2>3. QED
    BY <2>1, <2>2 DEF NewDelivery
<1>2. QED
  BY <1>1, AnnouncePromised

LEMMA PromiseKept == OutboxInv /\ OutboxInv' /\ [Next]_vars => PromiseStep
<1> SUFFICES ASSUME OutboxInv, OutboxInv', [Next]_vars PROVE PromiseStep
  OBVIOUS
<1> USE DEF OutboxInv
<1>1. ASSUME UNCHANGED delivery PROVE PromiseStep
  BY <1>1, AnnouncePromised
<1>2. ASSUME NEW h \in Handler, HandlerStep(h) PROVE PromiseStep
  <2>1. CASE Apply(h)
    <3>1. PICK k \in Key, op \in Operation, who \in Identity, age \in 0..MaxExpiries :
             Takes(k, op, who, age)
      BY <2>1 DEF TypeOK, KeysInv, RequestsSee, Apply
    <3>2. LET e == Len(effects) + 1 IN e \in Effect /\ Unannounced(e)
      BY <3>1, NextEffect
    <3>3. UNCHANGED delivery \/ Enqueue(Len(effects) + 1)
      BY <2>1 DEF Apply
    <3>4. QED
      BY <1>1, <3>2, <3>3, EnqueuePromised
  <2>2. CASE Store(h)
    <3>1. /\ Enqueue(request[h].effect) /\ request[h].effect \in Effect
          /\ Unannounced(request[h].effect)
      BY <2>2, EffectsDomain DEF Store, Holds, DeliveryInv, EventsOnce
    <3>2. QED
      BY <3>1, EnqueuePromised
  <2>3. CASE ~Apply(h) /\ ~Store(h)
    BY <1>1, <1>2, <2>3 DEF HandlerStep, Replay, Refuse, Begin, Reject, ApplyFirst, Duplicate,
       Die, store
  <2>4. QED
    BY <2>1, <2>2, <2>3
<1>3. CASE WorkEnds
  <2>1. PICK key \in Key \union {None}, op \in Operation \union {None},
             who \in Identity \union {None}, age \in 0..MaxExpiries :
           key = None /\ Takes(key, op, who, age)
    BY <1>3, Bounds DEF WorkEnds
  <2>2. LET e == Len(effects) + 1 IN e \in Effect /\ Unannounced(e)
    BY <2>1, NextEffect
  <2>3. Enqueue(Len(effects) + 1)
    BY <1>3 DEF WorkEnds
  <2>4. QED
    BY <2>2, <2>3, EnqueuePromised
<1>4. ASSUME NEW w \in Sender, SenderStep(w) \/ Kill(w) PROVE PromiseStep
  <2>1. CASE Settle(w)
    BY <2>1, SettlePromised
  <2>2. CASE ~Settle(w)
    BY <1>1, <1>4, <2>2 DEF SenderStep, Send, Kill, store
  <2>3. QED
    BY <2>1, <2>2
<1>5. ASSUME NEW e \in Effect, NEW s \in Subscriber, BackoffEnds(e, s) PROVE PromiseStep
  <2>1. ASSUME NEW a \in Announcement
        PROVE  delivery'[a[1]][a[2]].status = delivery[a[1]][a[2]].status
    <3>1. PICK f \in Effect, t \in Subscriber : a = <<f, t>>
      BY DEF Announcement
    <3>2. delivery'[f][t].status = delivery[f][t].status
      BY <1>5 DEF BackoffEnds, TypeOK, Delivery
    <3>3. QED
      BY <3>1, <3>2
  <2>2. QED
    BY <2>1, AnnouncePromised
<1>6. ASSUME NEW k \in Key, Expire(k) PROVE PromiseStep
  BY <1>1, <1>6 DEF Expire
<1>7. CASE UNCHANGED vars
  BY <1>1, <1>7 DEF vars, store
<1>8. QED
  BY <1>2, <1>3, <1>4, <1>5, <1>6, <1>7 DEF Next

\* Deliveries appear with what they announce and are settled once: the safety part
\* of the contract, for any number of handlers, webhook workers and subscribers.
THEOREM PromiseSafe == Spec => Promise!ContractSafety
<1>1. Init => Promise!ContractInit
  BY DEF Init, Promise!ContractInit, Pairs, Announcement, NoDelivery
<1>2. QED
  BY <1>1, OutboxStart, OutboxStep, PromiseKept, PTL
     DEF Spec, Promise!ContractSafety, PromiseStep
=============================================================================
