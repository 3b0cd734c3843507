SPECIFICATION Spec
CONSTANTS
    w1 = w1
    w2 = w2
    c1 = c1
    c2 = c2
    Worker <- TwoWorkers
    Client <- TwoClients
    NoWorker = NoWorker
    MaxAttempts = 2
    Overlap = TRUE
    MaxOps = 2
    Mortal <- NoOne
    MaxStalls = 0
INVARIANT CancelNotLost
CHECK_DEADLOCK FALSE
