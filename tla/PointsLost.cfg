SPECIFICATION PointsSpec
CONSTANTS
  Flushers = {u1, u2, u3}
  NoRound = NoRound
  Cap = 2
  MaxPoints = 3
  MaxFaults = 0
  MaxKills = 0
INVARIANT PointsKept
CHECK_DEADLOCK FALSE
