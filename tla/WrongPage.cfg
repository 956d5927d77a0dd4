CONSTANTS
    Items = {1}
    Workers = {w1, w2}
    MaxPages = 2
    MaxGens = 2
    None = None
    MaxConcurrency = 2
    SameMillisecond = FALSE
    PromptRestart = FALSE
    Disturbances = {"send_back", "url"}
    MaxMoves = 2
    MaxFaults = 0
SPECIFICATION Spec
SYMMETRY Symmetric
PROPERTY ReviewedFromItsSource
CHECK_DEADLOCK FALSE
