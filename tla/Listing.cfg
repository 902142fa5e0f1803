SPECIFICATION Spec
CONSTANTS
  v1 = v1
  v2 = v2
  v3 = v3
  Vaults <- MCVaults
  Values = {1, 2}
  Null = Null
  Limits = {2}
  Offsets = {0, 1}
  MaxReports = 1
SYMMETRY VaultSymmetry
INVARIANTS
  DisconnectedGroupedAtEnd
  ListedVaultsAreFound
