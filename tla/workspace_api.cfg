SPECIFICATION MCSpec
CONSTANTS
  Requests = {1, 2, 3}
  Admins = {1, 2}
  Models = {"ma", "mb"}
  NeedsKey = {"ma"}
  Untimed = {"mb"}
  MaxVersion = 3
  RequestLimit = 1
  MaxInFlight = 2
  MaxCalls = 3
  MaxDeaths = 1
  Headers <- MCHeaders
  Loop <- MCLoop
  Weight <- MCWeight
  Priority <- MCPriority
  Rank <- MCRank
  ShareModels = {"s1", "s2", "s3"}
  MaxWeight = 3
  Rounds = 2
  Emails = {"e1", "e2", "e3"}
  MaxSlug = 3
  KeyVersions = {1, 2, 3}
  Callers = {1, 2, 3}
  Known = {"e1"}
  LimitKeys = {"k1", "k2"}
  Limit = 2
  Window = 2
  MaxTime = 3
  MaxLosses = 1
  MaxWindows = 1
CHECK_DEADLOCK FALSE
INVARIANTS
  ChatAccounted
  SmoothShare
  AccessSound
  TwiceTheLimit
PROPERTY ChatEnds
