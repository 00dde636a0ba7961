CONSTANTS
    Batches <- Feed
    Interval = 2
    Horizon = 5
    Claims = {2, 5}
    Windows <- Asked
    MaxNow = 1
    Jobs = {j, k}
    MaxWrites = 2
    Null = Null
SPECIFICATION Spec
SYMMETRY Symmetry
INVARIANTS EngineCutoffAgrees GapsAreFilled ReadsAgree
PROPERTY LaterBeliefsAreInvisible
CHECK_DEADLOCK FALSE
