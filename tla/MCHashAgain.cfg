SPECIFICATION Spec
CONSTANTS
  Keys = {0, 64}
  Values = {1}
  None = None
  Probings = {"linear", "quadratic"}
  InitialSize = 64
  MaxSize = 64
  Careful = {}
PROPERTY RefusedKeyIsAbsent
CHECK_DEADLOCK FALSE
