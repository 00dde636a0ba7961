CONSTANTS
    Tables = {a}
    Observed = {a}
    Ids = {i}
    Intervals = {6, 9}
    Month = 9
    Targets = {0, 7, 8}
    Window = 3
    Period = 1
    MaxOpen = 1
    MaxRows = 2
    MaxNow = 4
    None = None
SPECIFICATION Spec
INVARIANTS OrphansAreReported DefectsAreReported
