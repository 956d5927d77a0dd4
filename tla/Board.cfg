CONSTANTS
    Items = {1}
    Workers = {w1, w2}
    MaxPages = 1
    MaxGens = 2
    None = None
    MaxConcurrency = 2
    SameMillisecond = FALSE
    PromptRestart = FALSE
    Disturbances = {"reset", "retry", "skip", "send_back", "to_stage", "advance", "switch", "version", "late_url", "url", "variant", "fallback", "bulk_fallback", "resolve", "record", "revert", "hold", "pause", "profile"}
    MaxMoves = 2
    MaxFaults = 1
SPECIFICATION FairSpec
INVARIANTS TypeOK ClaimHasTask
PROPERTIES StaleNeverRoutes ConflictHoldsSourcing EveryItemRests
