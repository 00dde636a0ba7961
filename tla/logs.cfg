CONSTANTS
    t1 = t1
    t2 = t2
    t3 = t3
    v1 = v1
    v2 = v2
    None = None
    Blocks = {b1, b2}
    Revisioned = {"actuals"}
    SingleBelief = {}
    Predictors = {"predictors"}
    Logs = {"forecasts"}
    Targets = {t1, t2}
    Grid = {t1, t2}
    Values = {v1, v2}
    RunIds = {u1, u2}
    Claims = {0}
    Batches <- LogBatches
    MaxTime = 1
    MaxTold = 1
SPECIFICATION Spec
SYMMETRY Symmetry
CONSTRAINT OneTable
INVARIANTS RunNeverSplit AcknowledgedStored
PROPERTIES PinStableWhenQuiet ImplementsLog
