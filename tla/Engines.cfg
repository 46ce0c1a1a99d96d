SPECIFICATION EnginesSpec
CONSTANTS
    Subject <- MCSubject
    Action = {"hold-plan", "capacity-control"}
    HoldPlan = "hold-plan"
    Scenario = {"normal", "data-loss"}
    Normal = "normal"
    DataLoss = "data-loss"
    HoldTicks = 1
    ActionTicks = 2
    MaxWall = 1
    MaxSeq = 2
    Controller = {}
    Fcfs = "fcfs"
    Stamp = {1}
    Plan = {"p"}
    CoreAction = "capacity-control"
    ApprovalRequest <- MCApprovalRequest
    SharedKey = {}
    MaxTrail = 1
    MaxDecisions = 0
    Call = {c1, c2}
    MaxObjects = 2
    Situations <- SomeSituations
    Abstentions <- SomeAbstentions
    Sea <- SeaOfTicks
    Effects <- StrongAndWeak
    Conditions = {"normal", "yard-saturation", "extreme-weather", "data-loss"}
    LastTick = 3
    KeptTicks = 2
    PortRecord <- ThreeMonths
    Months = 3
    Horizon = 3
    Residual <- Noise
    DisruptionEvery = 3
    DisruptionFor = 1
    Learners = 3
    Trials = 2
    Episodes = 10
    ReportEvery = 8
    Size = {19, 20, 24, 30}
    Grade = {1, 2}
    ChampionAlgorithms = 2
    Configurations = 2
    Ladder = 2
    Scores <- SomeScores
    Check = {"reward"}
    MaxRuns = 2
    MaxSourceEdits = 1
    NoFile = NoFile
    Seeds = {17, 37}
    Unstable = {1}
    Field = {"tide", "truck", "price"}
    Required = {"tide", "truck"}
    PublicMonths = 377
    FullCoverage = 12
    Loader = {l1, l2}
    Manifests <- MCManifests
    NoManifest = NoManifest
    Sources <- MCSources
    NoPort = "any"
    MonthCounts = {19, 24, 25, 26, 377}
    MaxRevisions = 1
    Process = {p1, p2}
    MaxEdits = 1
    Client = {c3, c4}
    Payload = {v1, v2}
    Absent = Absent
    Torn = Torn
    OneProcess = TRUE
    MaxGeneration = 3
    MaxCrashes = 2
    MaxFileDamage = 1
INVARIANTS
    ProposalsAreSound
    PlansAreSafe
    FlowsAreOneHistory
    ReplayIsSound
    BenchmarkIsSound
    EvidenceIsEarned
    DataIsEarned
    StoreKeepsItsWord
PROPERTIES
    PlansKeepThePromise
    NothingAckedIsReplaced
CHECK_DEADLOCK FALSE
