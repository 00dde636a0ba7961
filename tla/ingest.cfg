CONSTANTS
    Procs = {p, q}
    Plan <- TwoTargets
    MaxFaults = 2
SPECIFICATION FairIngestSpec
INVARIANTS TargetsWhole
PROPERTY EveryFileLoaded
