SPECIFICATION WorkSpec

SYMMETRY Symmetry

CONSTANTS
    Actors = {alice, bob}
    Invocations = {i1, i2}
    Duration = 2
    Extension = 1
    MaxTime = 4
    MaxExpiry = 6

    public = public
    private = private
    Members = {1, 2}
    Relations <- MCRelations
    TraceEvents = {public, private}
    PrivateEvents = {private}

    claim = claim
    claim1 = claim1
    other = other
    other1 = other1
    task = task
    snapshot = snapshot
    artifact = artifact
    report = report
    location = location
    external = external
    bundle = bundle
    run1 = run1
    run2 = run2
    evidence = evidence
    link = link
    contract = contract
    policy = policy
    Rows <- MCRows
    Seeds <- MCSeeds
    Kind <- MCKind
    Needs <- MCNeeds
    Outputs <- MCOutputs
    Submissions <- MCSubmissions
    Claims = {claim, other}
    Policies <- MCPolicies
    Modes <- MCModes
    Txns = {t1, t2}
    Jobs = {j1}
    None = None
    MaxEvaluations = 1

INVARIANTS
    OnlyCrossedLeasesOverlap
    FixedInputsCompile
    WithheldStaysWithheld
    NoVoiceIsLost
    EvaluationsHearFindings
    ReadyIsEarned

PROPERTIES
    HoldersKeepTheirLeases

CHECK_DEADLOCK FALSE
