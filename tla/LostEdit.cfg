CONSTANTS
    Workers = {w1}
    Items = {0}
    Cohorts = {1}
    MembersOf <- MCMembersOf
    Runs = {1}
    TTL = 1
    MaxAuthority = 1
    MaxEdits = 1
    None = None
    MaxConcurrency = 1
    FreezeOcrRerunCap = 1
    MaxFaults = 0
    Disturbances = {"edit"}
    MaxMoves = 1
SPECIFICATION Spec
SYMMETRY Symmetric
CHECK_DEADLOCK FALSE
PROPERTIES
    NoEditLost
