SPECIFICATION Spec
CONSTANTS
    w1 = w1
    k1 = k1
    k2 = k2
    c1 = c1
    c2 = c2
    Worker <- OneWorker
    NoWorker = NoWorker
    MaxAttempts = 1
    Claim <- OneClaim
    Client <- TwoClients
    Overlap = TRUE
    Budgets <- Overlapping
INVARIANTS
    PublicationGate
CHECK_DEADLOCK FALSE
