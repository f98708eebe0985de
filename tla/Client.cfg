SPECIFICATION ClientSafety
CONSTANTS
  s1 = s1
  s2 = s2
  Subs <- TwoSubs
  u1 = u1
  u2 = u2
  Flushers <- TwoFlushers
  o1 = o1
  o2 = o2
  r1 = r1
  r2 = r2
  c1 = c1
  Opens <- TwoOpens
  Restores <- TwoRestores
  Closes <- OneClose
  MaxMessages = 3
  Pieces = 2
  MaxTurns = 2
  MaxHides = 1
  MaxPics = 2
  MaxLeaves = 1
  MaxTrips = 3
  PageSize = 2
  MaxList = 3
  OldDays = 5
  MaxDays = 6
  MaxReloads = 2
  MaxFeedHides = 1
  DetailSize = 1
  FullList = 2
  OldEntries = {2, 3}
  MaxEntries = 3
  MaxChanges = 2
  MaxDetailHides = 1
  MaxPolls = 1
  MaxOrders = 1
  MaxTries = 2
  MaxVisits = 2
  App = app
  Index = index
  Other = other
  NoOne = noone
  MaxSessions = 2
  MaxLogins = 2
  MaxLapses = 1
  Cap = 2
  MaxPoints = 3
  MaxFaults = 2
  MaxKills = 1
  NoRound = NoRound
  NoSub = NoSub
  NoCall = NoCall
  MaxCalls = 2
  MaxDeaths = 1
  Spots = {0, 180}
  Near = 120
  Front <- FrontWindow
  Back <- BackWindow
  CheckInterval = 2
  Mature = 3
  OldStay = 4
  FallbackInterval = 2
  SavedInterval = 1
  TouchInterval = 3
  VipInterval = 2
  MaxMoves = 1
  Studies = {"way", "circumstances"}
  Characters = {65, 128, 20013, 57344, 65536, 1114111}
  Malformed <- BadBytes
  MaxItems = 2
  MaxQueue = 3
  MaxBatch = 2
  MaxEvents = 5
  MaxLaunches = 3
  Tasks = {1, 2}
  Links = 2
  MaxOpenings = 2
  MaxShows = 1
  MaxQuits = 1
  Keys = {"key1", "key2"}
  Addresses = {"addr1", "addr2"}
  MaxConfigs = 2
  MaxPresses = 2
  MaxExits = 1
  Jobs = {1, 2}
  Subjects = {"phone", "name", "avatar"}
  MaxActs = 3
  MaxAways = 1
  Parts = {"login", "index", "drawer", "editor", "place", "detail", "vip", "family", "backend", "settings", "points", "recorder", "stays", "decoder", "log"}
INVARIANTS DrawerSafe EditorSafe FeedSafe DetailSafe BuyerSafe SessionSafe PointsSafe RecorderSafe StaysSafe FormsSafe
PROPERTIES LoggedIn
CHECK_DEADLOCK FALSE
