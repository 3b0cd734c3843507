SPECIFICATION Spec
CONSTANTS
    r1 = r1
    r2 = r2
    p1 = p1
    p2 = p2
    Run = {r1, r2}
    Page = {p1}
    MaxDumps = 1
SYMMETRY Symmetry
INVARIANTS
    TypeOK
    EvidenceKept
PROPERTIES
    RestoresWhole
    TakesPublished
CHECK_DEADLOCK FALSE
