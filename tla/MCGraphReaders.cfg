SPECIFICATION ReadersSpec

CONSTANTS
    w1 = w1
    w2 = w2
    w3 = w3
    w4 = w4
    Writers = {w1, w2, w3, w4}
    NodeLimit = 3
    EdgeLimit = 3
    Ceiling = 10
    MaxOpen = 2

    c1 = c1
    c2 = c2
    c3 = c3
    Claims = {c1, c2, c3}
    Root = c1
    Links <- MCLinks
    MaxDepth = 2
    MaxNodes = 2
    MaxEdges = 2

INVARIANTS
    OldEdgesAreDelivered
    GraphIsComplete
    EveryRelationIsDrawn
    CompleteViewsAreWhole

PROPERTIES
    ReaderFinishes

CHECK_DEADLOCK FALSE
