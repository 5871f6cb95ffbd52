SPECIFICATION EventsSpec

CONSTANTS
    Scripts <- MCScripts
    Attached <- MCAttached
    MaxCheckpoints = 1
    MaxExports = 1
    PageLimit = 1
    Importers = {i1, i2}

    f1 = f1
    f2 = f2
    o1 = o1
    Workers = {w1, w2}
    Jobs = {f1, f2, o1}
    FrontierJobs = {f1, f2}
    NoJob = NoJob
    Clients = {TRUE, FALSE}
    Limit = 2
    MaxAttempts = 2
    BaseDelay = 1
    MaxDelay = 1

INVARIANTS
    ServedProofsVerify
    ReplayIsFaithful
    PagesDeliver
    FrontiersAreContiguous
    ImportsAreWhole
    OneHolder
    ReceiptsArePaidFor

PROPERTIES
    ImplementsDelivery
    FrontierJobsSettle

CHECK_DEADLOCK FALSE
