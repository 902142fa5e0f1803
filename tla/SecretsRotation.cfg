SPECIFICATION LiveSpec
CONSTANTS
  Versions = {a, b, c}
  Absent = Absent
  MaxChanges = 3
INVARIANT NoNeedlessRestart
PROPERTY StaleSecretsDropped
