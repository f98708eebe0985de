SPECIFICATION ClientSpec
CONSTANTS
  s1 = s1
  s2 = s2
  Subs <- TwoSubs
  u1 = u1
  u2 = u2
  Flushers <- TwoFlushers
  o1 = o1
  o2 = o2
  r1 = r1
  r2 = r2
  c1 = c1
  Opens <- TwoOpens
  Restores <- TwoRestores
  Closes <- OneClose
  MaxMessages = 3
  Pieces = 2
  MaxTurns = 2
  MaxHides = 1
  MaxPics = 1
  MaxLeaves = 1
  MaxTrips = 3
  PageSize = 2
  MaxList = 3
  OldDays = 5
  MaxDays = 6
  MaxReloads = 2
  MaxFeedHides = 1
  DetailSize = 1
  FullList = 3
  OldEntries = {2, 3, 4}
  MaxEntries = 4
  MaxChanges = 1
  MaxDetailHides = 1
  MaxPolls = 2
  MaxOrders = 1
  MaxTries = 1
  MaxVisits = 1
  App = app
  Index = index
  Other = other
  NoOne = noone
  MaxSessions = 3
  MaxLogins = 2
  MaxLapses = 1
  Cap = 2
  MaxPoints = 2
  MaxFaults = 2
  MaxKills = 1
  NoRound = NoRound
  NoSub = NoSub
  NoCall = NoCall
  MaxCalls = 2
  MaxDeaths = 1
  Spots = {0, 180}
  Near = 120
  Front <- FrontWindow
  Back <- BackWindow
  CheckInterval = 2
  Mature = 3
  OldStay = 4
  FallbackInterval = 2
  SavedInterval = 1
  TouchInterval = 3
  VipInterval = 2
  MaxMoves = 1
  Studies = {"way"}
  Characters = {65, 128, 20013, 57344, 65536, 1114111}
  Malformed <- BadBytes
  MaxItems = 2
  MaxQueue = 3
  MaxBatch = 2
  MaxEvents = 5
  MaxLaunches = 3
  Tasks = {1, 2}
  Links = 1
  MaxOpenings = 1
  MaxShows = 1
  MaxQuits = 1
  Keys = {"key1"}
  Addresses = {"addr1", "addr2"}
  MaxConfigs = 1
  MaxPresses = 1
  MaxExits = 0
  Jobs = {1, 2}
  Subjects = {"avatar"}
  MaxActs = 2
  MaxAways = 1
  Parts = {"login", "index", "drawer", "editor", "detail", "vip", "family", "backend", "settings", "points"}
PROPERTIES WaitingEnds
CHECK_DEADLOCK FALSE
