SPECIFICATION TabsSpec

CONSTANTS
    None = None
    ann = ann
    bob = bob
    agent = agent
    t1 = t1
    t2 = t2
    k1 = k1
    k2 = k2
    k3 = k3
    k4 = k4
    login = login
    claim = claim
    other = other
    answer = answer
    run = run
    edit = edit
    Actors <- MCActors
    Humans <- MCHumans
    Tokens <- MCTokens
    Keys <- MCKeys
    Codes <- MCCodes
    Commands <- MCCommands
    Scripts <- MCScripts
    Deployments <- MCDeployments
    InitialTokens <- MCInitialTokens
    InitialKeys <- MCInitialKeys
    Limit = 1
    TokenLimit = 1
    Window = 1
    Ttl = 1
    MaxInFlight = 2
    MaxTime = 1
    MaxRevocations = 1
    MaxLost = 1

    Tabs = {tab1, tab2}
    Signals = {star}
    Calls = {call1, call2, call3}
    Nobody = Nobody
    Views = {seen}
    ListLimit = 1
    MaxUses = 2
    MaxFailures = 1

INVARIANT ProvisioningIsIdempotent

CHECK_DEADLOCK FALSE
