SPECIFICATION Spec
CONSTANTS
    daemon = daemon
    Scans = {1, 2, 3}
    Bodies = {1}
    Document <- Numbered
    Legacy = {1}
    Approvable = {2}
    Collectors = {daemon}
    PageSize = 2
INVARIANT EvidenceKept
