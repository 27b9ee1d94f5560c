SPECIFICATION Spec
CONSTANTS
  Tolerance = 1
  Offset = 1
  Strategies <- Library
  Signals <- Verdicts
  DisabledKillzones <- Closed
  MinScore = 70
  MinRr = 15
  QualityFloor = 60
  Interval = 2
  Cooldown = 3
  Expiry = 4
  MaxBars = 2
  Prices <- PricesTried
  Killzones <- Names
  MinuteCandles <- MinutesTried
  HourCloses <- HoursTried
  Steps = {1, 2}
  MaxTime = 7
  MaxMade = 2
  MaxTouches = 2
  MaxQueued = 2
INVARIANT CooldownHolds
INVARIANT TrackedAreFresh
INVARIANT PoolsApart
INVARIANT LevelsBracketClose
PROPERTY SweepsAreEvaluated
CHECK_DEADLOCK FALSE
