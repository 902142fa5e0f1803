SPECIFICATION Spec
CONSTANTS
  Timestamps = {4, 7, 8}
  Rollout = 7
  Day = 2
  Days = 2
  MAX_SANE_SETTLED_GROWTH = 1000
  FeeBase = 10
  MaxFee = 100
  NoSnapshot = NoSnapshot
  Owners <- MCOwners
  Leaves <- MCLeaves
  Bounds = {5, 8, 9}
  Absent = Absent
  MAX_INT_32 = 8
INVARIANTS
  SmaCoversItsDays
  FreshSmaIsNewest
  FreshLatestIsNewest
  RangeIsWhatWasAsked
  AnomaliesAreOfTheReports
  SmaAgreesWithListing
