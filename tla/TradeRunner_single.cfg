SPECIFICATION FairSpec
CONSTANTS
  r1 = r1
  r2 = r2
  Runners <- OneRunner
  Modes <- AllModes
  RiskUnits = 20
  ConfirmBuffer = 4
  TrailBuffer = 3
  MilestoneCap = 6
  Target = 60
  Closes <- SomeCloses
  MaxBatch = 2
  MaxTicket = 3
  MaxCrashes = 2
  ManualStops = {}
  ManualTrading = FALSE
  QueryMayFail = FALSE
  LateExecution = FALSE
  LateUpdates = TRUE
INVARIANTS TypeOK SinglePosition PlanKeepsOwnFrame OpenedIsManaged MemoryMatchesRecord
PROPERTIES StopNeverRetreats StaleRecordIsCleared
