SPECIFICATION LeaseFairSpec
CONSTANTS
    Process = {p1, p2}
    Ttl = {1, 2}
    MaxClock = 2
    MaxTokens = 3
    MaxHolderDeaths = 1
PROPERTIES
    StandbyTakesOver
CHECK_DEADLOCK FALSE
