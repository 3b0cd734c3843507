SPECIFICATION FairSpec
CONSTANTS
    w1 = w1
    k1 = k1
    k2 = k2
    c1 = c1
    c2 = c2
    Worker <- OneWorker
    NoWorker = NoWorker
    MaxAttempts = 2
    Claim <- OneClaim
    Client <- OneClient
    Overlap = FALSE
    Budgets <- Reviewed
INVARIANTS
    TypeOK
    PublicationGate
    PublishedWhole
    RecheckEndAgrees
    ReportFollows
PROPERTIES
    ArchivedFirst
    CompletedOnce
    RecheckSettles
CHECK_DEADLOCK FALSE
