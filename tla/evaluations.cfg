CONSTANTS
    w1 = w1
    w2 = w2
    k1 = k1
    k2 = k2
    None = None
    Workers = {w1, w2}
    Crews = {{w1}, {w1, w2}}
    Keys = {k1, k2}
    Orders <- NightlyOrders
    Pinned = {w1}
    MaxBacktests = 2
    MaxEvals = 2
    MaxTruth = 1
SPECIFICATION FairSpec
INVARIANTS OneSeriesPerKey MetricsReadable ReportConsistent
PROPERTIES LoadNotSuperseded SaveEnds
