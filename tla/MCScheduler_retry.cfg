SPECIFICATION Spec
CONSTANTS
    w1 = w1
    w2 = w2
    A = A
    B = B
    Absent = Absent
    NoList = NoList
    BadList = BadList
    Keys = {1}
    Workers = {w1, w2}
    Origins = {A, B}
    Concurrency = 2
    PerOrigin = 1
    TargetLists <- Editing
    CatchUp = FALSE
    MaxJitter = 0
    StartupWindow = 1
    MaxBackoff = 1
    ScanTime = 1
    Horizon = 2
    MayCrash = TRUE
SYMMETRY WorkerSymmetry
CONSTRAINT FewOverlaps
INVARIANTS TypeOK HeldBackHasSuccessor OneRunPerKey AttemptsAreCounted
PROPERTY MinIntervalKept
