CONSTANTS
    Skus = {1, 2}
    Stocked = {1}
    Sets = {1, 2}
    Versions = {v0, v1}
    Base = v0
    MaxDrifts = 2
    None = None
    Faults = {}
    MaxFaults = 2
SPECIFICATION Spec
PROPERTY BulkKeepsUnpushed
CHECK_DEADLOCK FALSE
