SPECIFICATION ProposalSpec
CONSTANTS
    Subject <- MCSubject
    Action = {"hold-plan", "capacity-control"}
    HoldPlan = "hold-plan"
    Scenario = {"normal", "data-loss"}
    Normal = "normal"
    DataLoss = "data-loss"
    HoldTicks = 1
    ActionTicks = 2
    MaxWall = 1
    MaxSeq = 2
    Controller = {}
    Fcfs = "fcfs"
    Stamp = {1}
    Plan = {"p"}
    CoreAction = "capacity-control"
    ApprovalRequest <- MCApprovalRequest
    SharedKey = {}
    MaxTrail = 1
    MaxDecisions = 0
    Call = {c1, c2}
    MaxObjects = 2
INVARIANT ExecutionIsReported
CHECK_DEADLOCK FALSE
