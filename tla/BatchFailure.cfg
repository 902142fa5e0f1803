SPECIFICATION Spec
CONSTANTS
  o1 = o1
  o2 = o2
  Owners <- MCOwners
  Hub = Hub
  None = None
  Zero = Zero
  LastOpBlock = 1
  MaxBlock = 2
  MaxLogs = 1
  ConfirmationBlocks = 1
  LookbackBlocks = 2
  EnabledJobs <- DisconnectedOwnerWriters
  LegacyRows = FALSE
  BatchReadsFail = TRUE
  MaxFaults = 1
SYMMETRY OwnerSymmetry
PROPERTIES DisconnectsOnlyUnlistedVaults
