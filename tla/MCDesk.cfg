\* The presses end, the bounds of time, links and edits are reached, a file is full.
SPECIFICATION Spec
CONSTANTS
  None = None
  \* Two presses beside the scheduler, one budget of one address in two ticks,
  \* and a configured target that somebody may type the address of.
  Presses = {"one", "two"}
  Typed = {"address", "target"}
  Configured = {"target"}
  Limit = 1
  Hour = 2
  MinInterval = 2
  MaxTime = 3
  Assets = {"tag", "second", "pixel"}
  Page = "page"
  Cause <- AskedBy
  Domains = {"cmp", "ads", "stats"}
  Domain <- HostOf
  Script = "tag"
  Versions = {}
  Setters = {"second"}
  Outcomes = {"applied", "failed"}
  Stacks = {TRUE}
  Allow = {"cmp"}
  Deny = {"ads"}
  Healthy = 19
  RatioNum = 1
  RatioDen = 20
  \* Two processes, the second of which may be given the pid of the first.
  Procs = {"first", "second"}
  Pids = {1, 2}
  Boxes = {1, 2}
  Files <- FewFiles
  Paths = {"a", "b"}
  Certs = {"old", "new"}
  Expires <- Ends
  Urgent <- Late
  Horizon = 2
  MaxEdits = 2
  MaxHups = 1
  Scans = {"s1", "s2"}
  Refs = {"a", "b"}
  Names <- Evidence
  SeriesOf <- OneSeries
  Readers = {1}
  Keys = {"old", "new"}
  Validity = {5}
  DefaultValidity = 1
  MaxValidity = 1
  SignedTtl = 2
  SignLimit = 1
  MaxClock = 3
  MaxLinks = 1
  NoKey = None
  Intervals = {30, 100}
  Counts = {2, 4}
  Backoffs = {20, 40}
  Caps = {20, 60}
  Windows = {60}
  Ratios = {5}
  DefaultInterval = 144
  DefaultAttempts = 2
  DefaultBackoff = 10
  DefaultCap = 50
  DefaultWindow = 100
  Hashes <- Hashed
  Word = 1024
  MaxWritten = 4
  Urls <- FewUrls
  Bodies <- FewBodies
  Configs <- FewConfigs
  Third = {"/tag"}
  NoName = None
CHECK_DEADLOCK FALSE
INVARIANTS DeskHolds DriftIsReported AssetsFollowRules BoxesAreAccounted SharesHold SettingsWork
PROPERTIES ReloadIsSafe
