SPECIFICATION Spec
CONSTANTS
    Subject <- MCSubject
    Action = {"hold-plan", "capacity-control"}
    HoldPlan = "hold-plan"
    Scenario = {"normal", "data-loss"}
    Normal = "normal"
    DataLoss = "data-loss"
    HoldTicks = 1
    ActionTicks = 3
    MaxWall = 3
    MaxSeq = 3
    Controller = {"mpc"}
    Fcfs = "fcfs"
    Stamp = {1}
    Plan = {"p"}
    CoreAction = "capacity-control"
    ApprovalRequest <- MCApprovalRequest
    SharedKey = {retryKey}
    MaxTrail = 4
    MaxDecisions = 1
INVARIANTS
    TypeOK
    AppliedOnce
    FourEyes
    StatusIsTruthful
    BooksAreRight
PROPERTIES
    ExecutedIsFinal
    FailsClosed
    CorePlanHitsItsSnapshot
    KeepsThePromise
CHECK_DEADLOCK FALSE
