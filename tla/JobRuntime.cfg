SPECIFICATION Spec
CONSTANTS
  Crons = {"vaults", "reports", "cold", "backfill"}
  MaxCallbacks = 3
  MaxFailures = 2
  MaxHangs = 1
  MaxDeaths = 1
  StartupDelay = 3
  MaxDelay = 10
PROPERTIES ImplementsExclusiveRuns FailureReportedOnce BackfillCompletes EveryCallReturns
CHECK_DEADLOCK FALSE
