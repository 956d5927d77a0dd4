CONSTANTS
    Workers = {w1, w2}
    Items = {0}
    Cohorts = {1, 2}
    MembersOf <- MCMembersOf
    Runs = {1, 2}
    TTL = 3
    MaxAuthority = 1
    MaxEdits = 0
    None = None
    MaxConcurrency = 1
    FreezeOcrRerunCap = 1
    MaxFaults = 2
    Disturbances = {"regroup"}
    MaxMoves = 1
SPECIFICATION Spec
SYMMETRY Symmetric
CHECK_DEADLOCK FALSE
PROPERTIES
    LiveClaimsAreRespected
    ImplementsLease
