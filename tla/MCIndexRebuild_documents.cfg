SPECIFICATION Spec
CONSTANTS
    Scans = {1, 2}
PROPERTY DocumentsAreKept
