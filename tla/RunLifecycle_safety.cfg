SPECIFICATION Spec
CONSTANTS
    w1 = w1
    w2 = w2
    c1 = c1
    c2 = c2
    Worker <- TwoWorkers
    Client <- OneClient
    NoWorker = NoWorker
    MaxAttempts = 2
    Overlap = FALSE
    MaxOps = 3
    Mortal <- NoOne
    MaxStalls = 1
SYMMETRY Symmetry
INVARIANTS
    TypeOK
    
    
    
    ModeMatches
    WaitingClaimable
PROPERTIES
    FailureIsNoRequest
    KeepsContract
CHECK_DEADLOCK FALSE
