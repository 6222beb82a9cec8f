\* Prunes of the retention machine end with its clock.
SPECIFICATION Spec
CONSTANTS
  a = a
  b = b
  None = None
  Sites = {"scan"}
  MaxImages = 3
  MaxCount = 2
  Clients = {a, b}
  Compactors = {1}
  Scans = {1, 2}
  Unreadable = {1}
  Openers = {a, b}
  Rows = {1, 2}
  Batch = 1
  MaxInARow = 2
  Moments <- Hours
  Tiers = {0, 1}
  Units <- Named
  Period <- Clock
  Policies <- Thinning
  Bounds <- Older
SYMMETRY Symmetry
CHECK_DEADLOCK FALSE
INVARIANTS ImagesAreTrue RetentionHolds
PROPERTIES EvidenceSurvives RebuildIsSafe UpgradesAreSafe
