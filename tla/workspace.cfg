CONSTANTS
    w1 = w1
    w2 = w2
    l1 = l1
    l2 = l2
    A = A
    B = B
    None = None
    Workers = {w1, w2}
    Labels = {l1, l2}
    Tables = {A, B}
    Home = A
    Storages <- Crowd
    Events = {1, 2}
    Outputs <- Growing
    MaxSaves = 3
SPECIFICATION FairSpec
INVARIANTS ListedIsStored ResumeLoads
PROPERTIES ImplementsLabelStore ProductionKept SaveEnds
