SPECIFICATION FairSpec
CONSTANTS
    w1 = w1
    w2 = w2
    A = A
    B = B
    Absent = Absent
    NoList = NoList
    BadList = BadList
    Keys = {1, 2}
    Workers = {w1, w2}
    Origins = {A, B}
    Concurrency = 1
    PerOrigin = 1
    TargetLists <- Shared
    CatchUp = FALSE
    MaxJitter = 0
    StartupWindow = 0
    MaxBackoff = 1
    ScanTime = 0
    Horizon = 2
    MayCrash = FALSE
INVARIANT SlotsBounded
PROPERTIES HeldBackIsSettled KeepsWatching ShutdownCompletes
