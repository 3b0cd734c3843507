SPECIFICATION FairSpec
CONSTANTS
    p1 = p1
    p2 = p2
    t1 = t1
    t2 = t2
    u1 = u1
    u2 = u2
    x1 = x1
    x2 = x2
    x3 = x3
    Process <- OneProcess
    Task <- TwoTasks
    Page <- TwoPages
    Text <- OneText
    MaxRequests = 8
    MaxSources = 1
    MaxClaims = 1
    MaxResearchers = 2
    MaxVerifiers = 1
    MaxStarts = 3
INVARIANTS
    ReportSupported
PROPERTIES
    NothingRedone
    EndsHonestly
    ExecutionEnds
CHECK_DEADLOCK FALSE
