SPECIFICATION FairSpec
CONSTANTS
    s1 = s1
    s2 = s2
    c1 = c1
    c2 = c2
    Scans = {s1}
    Subjects = {c1, c2}
    Webhooks = {1}
    Channels = {2}
    Wanted <- Selective
    Dropping = {2}
    QueueSize = 1
    MaxRetries = 2
    Window = 1
    MaxTicks = 0
CHECK_DEADLOCK FALSE
PROPERTIES EventsAreSettled DrainCompletes
