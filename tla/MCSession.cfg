\* A scan ends, and with it the machine that models it.
SPECIFICATION Spec
CHECK_DEADLOCK FALSE
CONSTANTS
  \* A page of two requests: the document, which posts and is fingerprinted,
  \* and one that may be a beacon, be redirected, stall or be a WebSocket.  Of
  \* three hops at most two are recorded, and one body waits to be read.
  Ids = {1, 2}
  Document = 1
  Scripts = {1}
  Posts = {1}
  Heartbeats = {2}
  Moved = {2}
  Sockets = {2}
  Slow = {2}
  Heavy = {2}
  Modes = {"hashed"}
  Endings = {"expired"}
  AfterLoad = {"hook"}
  Workers = {"worker"}
  MaxRecords = 2
  QueueSize = 1
  RuleLists <- Lists
  \* Two scans of one series, and every second one to keep its bodies.  The
  \* clock moves within the window, past the time of a retry, and past both.
  Observations = {1, 2}
  Num = 1
  Den = 2
  SampleWindow = 2
  StaleAfter = 1
  MaxAttempts = 2
  Ends = {"ok", "failed"}
  Moments = {0, 2, 5}
  Answers <- TwoAnswers
  Paths <- FewPaths
  Letters = {"/", "a", "b"}
  Agent = "wsaw"
  Checks = {1, 2}
  Ttl = 1
  FetchLimit = 1
  MaxClock = 2
  FallbackAllow = TRUE
  RobotsFiles <- FewLines
INVARIANTS CaptureIsHonest ConsentIsHonest RobotsAreFollowed
PROPERTIES LedgerIsTrue
