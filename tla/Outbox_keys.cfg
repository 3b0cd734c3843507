SPECIFICATION FairSpec
CONSTANTS
    h1 = h1
    h2 = h2
    i1 = i1
    i2 = i2
    k1 = k1
    s1 = s1
    w1 = w1
    w2 = w2
    publish = publish
    cancel = cancel
    subscribe = subscribe
    followA = followA
    followB = followB
    question = question
    Handler = {h1, h2}
    Identity = {i1, i2}
    Key = {k1}
    Whole = {subscribe, followA, followB}
    Apart = {publish}
    Early = {cancel}
    Subscribing = {subscribe}
    FollowUp = {followA, followB}
    Hash <- Hashes
    Subscriber = {s1}
    Sender = {w1, w2}
    MaxAttempts = 2
    MaxEffects = 3
    MaxRequests = 3
    MaxExpiries = 1
    MaxDeaths = 1
    MaxKills = 1
INVARIANTS
    TypeOK
    AppliedOnce
    AnswersAgree
    DeliveriesHonest
PROPERTIES
    Delivers
CHECK_DEADLOCK FALSE
