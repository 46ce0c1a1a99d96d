SPECIFICATION JobsSpec
CONSTANTS
    Job = {j1, j2}
    MaxConcurrentJobs = 1
    MaxQueuedJobs = 2
    MaxRestarts = 0
INVARIANTS
    CancelStops
CHECK_DEADLOCK FALSE
