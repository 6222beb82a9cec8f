SPECIFICATION FairSpec
CONSTANTS
    Off = Off
    None = None
    Intervals = {2}
    Commands = {"sweep"}
    PruneInterval = 2
    Delay = 1
    Jitter = 0
    MinUptime = 2
PROPERTIES RunsAreSpaced LastReloadApplies SchedulesAreKept
