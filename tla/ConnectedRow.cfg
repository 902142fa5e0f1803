SPECIFICATION LiveSpec
CONSTANTS
  o1 = o1
  o2 = o2
  Owners <- MCOwners
  Hub = Hub
  None = None
  Zero = Zero
  LastOpBlock = 1
  MaxBlock = 3
  MaxLogs = 2
  ConfirmationBlocks = 1
  LookbackBlocks = 2
  EnabledJobs <- ConnectedRowWriters
  LegacyRows = FALSE
  BatchReadsFail = FALSE
  MaxFaults = 1
PROPERTIES EventuallyDelegated
