SPECIFICATION Spec
CONSTANTS
  Replicas = {r1, r2}
  None = none
  OldImage = 10
  MaxFaults = 2
  Rows = {row1}
INVARIANTS
  TypeOK
  AppliedInOrderOnce
  PendingIsCurrent
  ServesItsSchema
  OnlyLateRowsStayUnflagged
PROPERTY EventuallyUp
