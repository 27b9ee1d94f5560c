SPECIFICATION TapeSpec
CONSTANTS
  Scripts <- Swinging
  LeftBars = 1
  RightBars = 2
  MinCandleGap = 2
  Bos <- Breaks
  Mss <- Shifts
  Choch <- Warns
  OrderBlock <- BlockPlans
  LiquidityEvents <- Found
  GapContext <- OnGaps
  BlockContext <- OnBlocks
  SessionContext <- OnSessions
  RangeContext <- OnRange
  RaidContext <- OnRaids
  Plans <- OnPlans
  SwingsOnly <- OfLegs
PROPERTY SwingsAreNotRepainted
CHECK_DEADLOCK FALSE
