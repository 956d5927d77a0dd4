CONSTANTS
    Workers = {w1, w2}
    Items = {0}
    Cohorts = {1}
    MembersOf <- MCMembersOf
    Runs = {1}
    TTL = 3
    MaxAuthority = 2
    MaxEdits = 1
    None = None
    MaxConcurrency = 1
    FreezeOcrRerunCap = 1
    MaxFaults = 3
    Disturbances = {"pause", "wait", "edit", "authority"}
    MaxMoves = 1
SPECIFICATION FairSpec
CHECK_DEADLOCK FALSE
INVARIANTS
    SkippedHeartbeatIsSafe
PROPERTIES
    EveryRunSettles
