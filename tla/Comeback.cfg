CONSTANTS
    Workers = {w1, w2}
    Items = {0}
    Cohorts = {1}
    MembersOf <- MCMembersOf
    Runs = {1}
    TTL = 1
    MaxAuthority = 1
    MaxEdits = 0
    None = None
    MaxConcurrency = 2
    FreezeOcrRerunCap = 1
    MaxFaults = 3
    Disturbances = {"reset", "review"}
    MaxMoves = 1
SPECIFICATION HistorySpec
CHECK_DEADLOCK FALSE
INVARIANTS
    CommittedTogether
PROPERTIES
    NoWriteAfterLoss
    CommittedOncePerRun
    CleanCompletion
