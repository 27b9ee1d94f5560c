SPECIFICATION Spec
CONSTANTS
  r1 = r1
  r2 = r2
  Runners <- OneRunner
  Modes <- ManagingModes
  RiskUnits = 20
  ConfirmBuffer = 4
  TrailBuffer = 3
  MilestoneCap = 6
  Target = 60
  Closes <- SomeCloses
  MaxBatch = 1
  MaxTicket = 3
  MaxCrashes = 1
  ManualStops = {}
  ManualTrading = FALSE
  QueryMayFail = FALSE
  LateExecution = FALSE
  LateUpdates = FALSE
INVARIANTS RecordSurvivesRestart
