SPECIFICATION StoreSpec
CONSTANTS
    Client = {c1, c2}
    Payload = {v1, v2}
    Absent = Absent
    Torn = Torn
    OneProcess = FALSE
    MaxGeneration = 2
    MaxCrashes = 0
    MaxFileDamage = 0
INVARIANTS
    NoRivals
CHECK_DEADLOCK FALSE
