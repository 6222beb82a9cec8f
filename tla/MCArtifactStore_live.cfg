SPECIFICATION FairSpec
CONSTANTS
    daemon = daemon
    Scans = {1, 2}
    Bodies = {1}
    Document <- Numbered
    Legacy = {1}
    Approvable = {1, 2}
    Collectors = {daemon}
    PageSize = 2
PROPERTY LeftoversAreCleared
