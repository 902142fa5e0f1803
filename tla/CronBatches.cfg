SPECIFICATION Spec
CONSTANTS
  v1 = v1
  v2 = v2
  v3 = v3
  Vaults = {v1, v2, v3}
  FirstList <- FirstTwo
  BatchSize = 2
  MembersBatch = 1
  Settings <- MCSettings
  Attempts = 1
  MaxBlock = 4
  MaxFaults = 1
INVARIANTS
  FlagsAreOfTheirBlock
  RunReachesEveryVault
  SkipsAreBoundedByMoves
PROPERTIES
  RunsEnd
  EventuallyListed
