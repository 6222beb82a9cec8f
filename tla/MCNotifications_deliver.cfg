SPECIFICATION Spec
CONSTANTS
    s1 = s1
    s2 = s2
    c1 = c1
    c2 = c2
    Scans = {s1, s2}
    Subjects = {c1}
    Webhooks = {1}
    Channels = {2}
    Wanted <- Selective
    Dropping = {2}
    QueueSize = 1
    MaxRetries = 2
    Window = 2
    MaxTicks = 2
SYMMETRY ScanSymmetry
CHECK_DEADLOCK FALSE
INVARIANTS Accounted WholeScanLast SilenceFollowsReport
