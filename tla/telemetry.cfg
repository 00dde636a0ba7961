CONSTANTS
    t1 = t1
    t2 = t2
    t3 = t3
    v1 = v1
    v2 = v2
    None = None
    Blocks = {b1, b2}
    Revisioned = {}
    SingleBelief = {"telemetry"}
    Predictors = {}
    Logs = {}
    Targets = {t1, t2, t3}
    Grid = {t1, t2}
    Values = {v1, v2}
    RunIds = {}
    Claims = {1}
    Batches <- TelemetryBatches
    MaxTime = 0
    MaxTold = 2
SPECIFICATION FairSpec
INVARIANTS TypeOK OneBeliefPerTarget AcknowledgedStored
PROPERTY CallEnds
