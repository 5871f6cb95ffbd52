SPECIFICATION MCSpec

SYMMETRY Symmetry

CONSTANTS
    a = a
    b = b
    c = c
    Nodes = {a, b, c}
    Relations <- MCRelations
    Requests <- ClaimRequests
    NoRequest = NoRequest
    Txns = {t1, t2}
    Trigger = TRUE
    Target = a
    NoClaim = NoClaim
    Jobs = {j1}
    Closing = {c}
    MaxTasks = 2

INVARIANTS
    CyclesComeOfOverlaps
    WalksAreComplete
    ImpactedHaveOneTask

PROPERTIES
    EndedStaysEnded

CHECK_DEADLOCK FALSE
