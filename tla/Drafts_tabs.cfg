SPECIFICATION Spec
CONSTANTS
    t1 = t1
    t2 = t2
    x1 = x1
    x2 = x2
    g1 = g1
    u1 = u1
    u2 = u2
    o1 = o1
    Tab = {t1, t2}
    Text = {x1}
    Setting = {g1}
    Upload = {u1}
    Note = {}
    Questions = 1
    MaxMaterials = 1
    MaxMessages = 4
    MaxFaults = 1
SYMMETRY Tabs
INVARIANTS
    TypeOK
    ConfirmedAsSeen
    FilesKept
    AnswersTrue
PROPERTIES
    NoLostEdit
    EditsStand
CHECK_DEADLOCK FALSE
