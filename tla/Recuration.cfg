CONSTANTS
    Workers = {w1}
    Items = {0, 1}
    Cohorts = {1}
    MembersOf <- MCMembersOf
    Runs = {1, 2}
    TTL = 1
    MaxAuthority = 2
    MaxEdits = 0
    None = None
    MaxConcurrency = 1
    FreezeOcrRerunCap = 1
    MaxFaults = 0
    Disturbances = {"authority", "review"}
    MaxMoves = 1
SPECIFICATION Spec
SYMMETRY Symmetric
CHECK_DEADLOCK FALSE
PROPERTIES
    PromotedAsReviewed
