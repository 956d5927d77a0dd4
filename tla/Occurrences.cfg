CONSTANTS
    Batches = {b1}
    ChangeSets = {c1}
    RunNows = {r1}
    MaxRetries = 1
    MaxChanges = 2
    Faults = {"crash", "throw", "off"}
    MaxFaults = 1
    None = None
SPECIFICATION FairSpec
CHECK_DEADLOCK FALSE
INVARIANTS
    TypeOK
    ObservedIsKept
    ClaimIsReclaimable
PROPERTIES
    EndsOnce
    EveryOccurrenceEnds
