SPECIFICATION Spec
CONSTANTS
  o1 = o1
  o2 = o2
  Owners <- MCOwners
  Hub = Hub
  None = None
  Zero = Zero
  LastOpBlock = 2
  MaxBlock = 3
  MaxLogs = 2
  ConfirmationBlocks = 1
  LookbackBlocks = 2
  EnabledJobs <- MembersWriters
  LegacyRows = TRUE
  BatchReadsFail = FALSE
  MaxFaults = 1
SYMMETRY OwnerSymmetry
INVARIANTS RoleAccessSound
PROPERTIES MembersNeverWiped
