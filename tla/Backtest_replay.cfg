SPECIFICATION Spec
CONSTANTS
  Signals <- Plans
  CandleChoices <- Candlesticks
  MaxCandles = 5
  Opens <- Times
  Spread2 = 0
  Slippage = 1
  MaxHold = 6
  StaleAfter = 4
  Session <- Hours
  Cutoff <- Friday
  BreakevenAfter = 1
INVARIANT NothingDisappears
INVARIANT FillsAreForward
INVARIANT ResultWithinPlan
INVARIANT MetricsAreExact
CHECK_DEADLOCK FALSE
