SPECIFICATION FairSpec
CONSTANTS
    s1 = s1
    s2 = s2
    b1 = b1
    b2 = b2
    Clients = {s1, s2}
    Browsers = {b1, b2}
    Size = 2
    Limit = 2
    MaxScans = 2
    MaxGeneration = 1
INVARIANTS LiveIsTrue IdleIsCurrent NoneOutlivesClose
PROPERTIES LeasesAreKept NobodyWaitsForEver
CHECK_DEADLOCK FALSE
