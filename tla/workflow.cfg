CONSTANTS
    Interval = 2
    ResultIntervals = {2, 4}
    AutoRegister = TRUE
    Horizon = 3
    MaxAttempts = 2
    None = None
SPECIFICATION Spec
INVARIANTS ReturnedIsStored BoundsAreOwn AuditIsClean StoredTwiceOnlyIfLost
CHECK_DEADLOCK FALSE
