SPECIFICATION Spec
CONSTANTS
    Job = {1, 2}
    NoJob = 0
    MaxTrainingTroubles = 1
    MaxVersion = 3
    MaxPlans = 1
    MaxActions = 3
    MaxTokens = 1
    PageAction = {"overview", "reset"}
    HighImpact = {"reset"}
    Steps = 2
    MaxRuns = 3
    MaxRequests = 2
    MaxUserActs = 5
    NativeRun = {r1, r2}
    None = None
    MaxKept = 1
    MaxRequest = 1
    MaxTroubles = 1
    MaxWindowFailures = 1
INVARIANTS
    TrainingIsWatched
    ResultsAreMatched
    WindowIsAccountedFor
PROPERTIES
    PanelIsCurrent
    AssistantIsHonest
    EndsOnceForItsRequest
    PageWaitsEnd
    JobsEnd
CHECK_DEADLOCK FALSE
