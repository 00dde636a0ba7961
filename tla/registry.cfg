CONSTANTS
    quarter = quarter
    hour = hour
    t = t
    None = None
    Blocks = {b1, b2}
    Names = {n1, n2}
    Intervals = {quarter, hour}
    Targets = {t}
    Grid <- GridOf
    MaxId = 2
SPECIFICATION Spec
SYMMETRY Symmetry
INVARIANTS CachedIdSafe
PROPERTIES ReturnedIdStands ImplementsCatalogue
