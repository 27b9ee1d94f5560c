SPECIFICATION TapeSpec
CONSTANTS
  Scripts <- Everything
  LeftBars = 1
  RightBars = 2
  MinCandleGap = 2
  Bos <- Breaks
  Mss <- Shifts
  Choch <- Warns
  OrderBlock <- BlockPlans
  LiquidityEvents <- Found
  GapContext <- OnGaps
  BlockContext <- OnBlocks
  SessionContext <- OnSessions
  RangeContext <- OnRange
  RaidContext <- OnRaids
  Plans <- OnPlans
  SwingsOnly <- OfLegs
INVARIANT SwingsKeepTheirGap
INVARIANT SwingsAnswerOnce
INVARIANT BlocksHoldUntilEntry
PROPERTY StructureIsNotRepainted
PROPERTY FailedBreaksStayFailed
PROPERTY ShiftConfidenceKept
PROPERTY EntriesStay
CHECK_DEADLOCK FALSE
