SPECIFICATION FairSpec
CONSTANTS
    w1 = w1
    w2 = w2
    c1 = c1
    c2 = c2
    Worker <- TwoWorkers
    Client <- OneClient
    NoWorker = NoWorker
    MaxAttempts = 2
    Overlap = FALSE
    MaxOps = 2
    Mortal <- FirstWorker
    MaxStalls = 0
PROPERTIES
    RequestsHonoured
    WorkSettles
CHECK_DEADLOCK FALSE
