SPECIFICATION StoreSpec
CONSTANTS
    Client = {c1, c2}
    Payload = {v1, v2}
    Absent = Absent
    Torn = Torn
    OneProcess = TRUE
    MaxGeneration = 2
    MaxCrashes = 1
    MaxFileDamage = 0
INVARIANTS
    EveryCommitIsJournaled
CHECK_DEADLOCK FALSE
