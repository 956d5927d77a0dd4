CONSTANTS
    Workers = {w1, w2}
    Items = {0, 1}
    Cohorts = {1}
    MembersOf <- MCMembersOf
    Runs = {1}
    TTL = 2
    MaxAuthority = 2
    MaxEdits = 1
    None = None
    MaxConcurrency = 1
    FreezeOcrRerunCap = 1
    MaxFaults = 2
    Disturbances = {"edit", "authority"}
    MaxMoves = 2
SPECIFICATION HistorySpec
SYMMETRY Symmetric
CHECK_DEADLOCK FALSE
INVARIANTS
    TypeOK
    CommittedTogether
    FrozenUnderOneAuthority
    SupersededLeavesNoChildRunning
PROPERTIES
    NoWriteAfterLoss
    DecisionsAreHistory
    CommittedOncePerRun
    CleanCompletion
