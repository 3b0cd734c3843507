SPECIFICATION Spec
CONSTANTS
    p1 = p1
    p2 = p2
    t1 = t1
    t2 = t2
    u1 = u1
    u2 = u2
    x1 = x1
    x2 = x2
    x3 = x3
    Process <- TwoProcesses
    Task <- OneTask
    Page <- OnePage
    Text <- TwoTexts
    MaxRequests = 7
    MaxSources = 1
    MaxClaims = 2
    MaxResearchers = 1
    MaxVerifiers = 1
    MaxStarts = 2
INVARIANTS
    TypeOK
    EvidenceFirst
    OneRowPerFinding
CHECK_DEADLOCK FALSE
