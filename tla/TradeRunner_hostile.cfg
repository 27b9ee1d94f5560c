SPECIFICATION Spec
CONSTANTS
  r1 = r1
  r2 = r2
  Runners <- OneRunner
  Modes <- AllModes
  RiskUnits = 20
  ConfirmBuffer = 4
  TrailBuffer = 3
  MilestoneCap = 6
  Target = 60
  Closes <- SomeCloses
  MaxBatch = 2
  MaxTicket = 2
  MaxCrashes = 1
  ManualStops <- RaisedStop
  ManualTrading = TRUE
  QueryMayFail = TRUE
  LateExecution = TRUE
  LateUpdates = TRUE
INVARIANTS RecordNeverAhead
PROPERTIES OneEntryPerRun
