SPECIFICATION Spec

SYMMETRY Symmetry

CONSTANTS
    alice = alice
    bob = bob
    q1 = q1
    c1 = c1
    a1 = a1
    e1 = e1
    NoCommand = NoCommand
    Txns = {t1, t2}
    Actors = {alice, bob}
    NodeIds = {q1, c1, a1, e1}
    Commands <- MCCommands
    SeedRank <- MCSeedRank
    SeedAuthor = alice
    FirstRank = 3
    MaxRank = 7
    MaxRevision = 2
    Retirable = {a1}
    Dismissable = {bob}

INVARIANTS
    IInv
    Acyclic
    SignedEdgesAreAdmitted

PROPERTIES
    ImplementsDag

CHECK_DEADLOCK FALSE
