SPECIFICATION Spec
CONSTANTS
  Keys = {1, 2, 3, 4, 5}
  Fresh = {1, 2, 3, 4, 5}
  Starts <- NoKeys
  Again = TRUE
  B = 2
  None = None
PROPERTY AbsentKeysGoIn
