SPECIFICATION Spec
CONSTANTS
  Tapes <- Candles5
  Selections <- Scored
  Distances = {0, 4}
  Width = 4
  Warmup = 2
  MaxOpen = 1
  Cooldown = 4
  Life = 4
  Milestones <- Rungs
  MinRr = 2
  MinRiskToCost = 1
  MaxDrift = 2
  MaxDriftPct = 50
  TrapFilter = TRUE
  Opens <- Times
  Spread2 = 0
  Slippage = 1
  MaxHold = 8
  StaleAfter = 6
  Session <- Hours
  Cutoff <- Friday
  BreakevenAfter = 1
INVARIANT PlacesAreEnough
INVARIANT EntriesKeepThePlan
INVARIANT NoLookAhead
CHECK_DEADLOCK FALSE
