SPECIFICATION LiveSpec
CONSTANTS
  v1 = v1
  v2 = v2
  Vaults <- MCVaults
  BlockLimit = 0
  BatchSize = 2
  ColdCid = 2
  MaxReports = 2
  MaxHandlers = 1
  MaxFaults = 1
INVARIANTS StatsBackedByLeaves
PROPERTIES LatestEventuallyStored NewestPairEventuallyCalculated
