SPECIFICATION Spec
CONSTANTS
    Adapter = {"ais", "tos"}
    Ais = "ais"
    Dynamic = {"ais", "tos"}
    MaxAge <- Adapters
    Skew = 1
    Alignment = 1
    MaxRecent = 2
    ApprovedAt = 0
    ExpiresAt = 2
    MaxSent = 2
    MaxTime = 2
    MaxIntakeFaults = 1
    Socket = {s1, s2, s3}
    NoSocket = NoSocket
    StaleAfter = 1
    MaxAisTime = 3
    Call = {c1, c2}
    ClearanceType = {"CUSTOMS", "HEALTH"}
    MaxMessageAge = 1
    Future = 0
    MaxMail = 2
    MaxCommunityTime = 2
    MaxCommunityRestarts = 1
    Model = {m0, m1, m2}
    Legacy = m0
    Command = {x, y}
    None = None
    MaxActivations = 3
    MaxDamage = 1
    MaxDeaths = 1
    CallOrder <- Calls
    BerthOrder <- Berths
    NoBerth = "none"
    DeepDraught = {"c1"}
    LongEnough <- FittingBerths
    MaximumCranes <- BerthCranes
    AvailableCranes = 2
    Exchange <- CallExchange
    Discharges <- CallDischarges
    ChannelLength = 1
    MaximumSpeed = 1
    YardCapacity = 3
    InitialInventory = 1
    GateOutPerStep = 1
    Action = {"hold", "berth"}
    Hold = "hold"
    Situation = {"s", "t"}
    CoolingDown = {"t"}
    Identity = {"a", "b"}
    Roles = {"operator", "safety_officer"}
    MaxProposals = 2
    Person = {"c", "p", "q"}
    Creator = "c"
    Login <- Logins
    ApprovalLife = 1
    ApprovalSkew = 0
    ReceiptAge = 1
    ReceiptLife = 3
    ReceiptSkew = 0
    WindowStart = 0
    WindowEnd = 2
    OwnerRole = {"OPERATOR_OWNER", "SAFETY_OWNER"}
    SoundEvidence = {1, 2}
    MaxApprovals = 2
    MaxReceipts = 1
    MaxSignoffs = 2
    MaxRevisions = 2
    MaxGateTime = 2
    Scenario = {"base", "hold"}
    Baseline = "base"
    Inspected <- InspectedVessels
    ReleaseOneIn = 2
    Processing = 1
    CatchUp = 3
    MaxSequence = 5
    MaxScenarioChanges = 2
    Job = {j1, j2, j3}
    MaxConcurrentJobs = 1
    MaxQueuedJobs = 1
    MaxRestarts = 1
    Process = {p1, p2}
    Ttl = {1, 2}
    MaxClock = 2
    MaxTokens = 3
    MaxHolderDeaths = 1
INVARIANTS
    LiveMeansLive
    ClearancesAreExplained
    ProposalsAreSigned
    GatesHold
    QueueIsSound
    FencingIsSound
PROPERTIES
    ShadowIsTrustworthy
    ModelsStayLoadable
    TwinIsPhysical
    BacklogIsExact
    HeldUntilExpiry
    KeepsServicePromises
    WaitsEnd
CHECK_DEADLOCK FALSE
