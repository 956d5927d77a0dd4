CONSTANTS
    Workers = {w1}
    Items = {0, 1}
    Cohorts = {1}
    MembersOf <- MCMembersOf
    Runs = {1, 2}
    TTL = 1
    MaxAuthority = 1
    MaxEdits = 0
    None = None
    MaxConcurrency = 1
    FreezeOcrRerunCap = 1
    MaxFaults = 0
    Disturbances = {"rerun", "reset", "review"}
    MaxMoves = 2
SPECIFICATION Spec
SYMMETRY Symmetric
CHECK_DEADLOCK FALSE
INVARIANTS
    SupersededLeavesNoChildRunning
PROPERTIES
    LiveClaimsAreRespected
