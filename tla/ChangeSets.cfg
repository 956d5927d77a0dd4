CONSTANTS
    Skus = {1}
    Stocked = {1}
    Sets = {1, 2}
    Versions = {v0, v1}
    Base = v0
    MaxDrifts = 2
    None = None
    Faults = {"git", "crash", "edit", "rebuild"}
    MaxFaults = 2
SPECIFICATION Spec
INVARIANTS TypeOK UploadedWasCommitted SyncedWasShown ReconcileHasDraft
CHECK_DEADLOCK FALSE
