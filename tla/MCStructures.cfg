SPECIFICATION Spec
CONSTANTS
  Items = {1, 2}
  None = None
  Universe <- MCUniverse
  MaxItems = 4
  HeapItems = 6
  InitialCapacity = 2
  Values = {1, 2}
  Careful = {"put", "remove"}
  Probings = {"linear", "quadratic"}
  InitialSize = 4
  MaxSize = 8
  HashKeys = {0, 3, 11}
  HeapKeys = {1, 2, 3}
  BSTKeys = {1, 2, 3, 4}
  RBKeys = {1, 2, 3, 4, 5, 6, 7}
  BKeys = {1, 2, 3, 4, 5, 6, 7, 8, 9, 10}
  BFresh = {1, 2, 3, 4, 5, 6}
  BStarts <- MCStarts
  B = 2
  num_vertices = 4
  Inputs <- MCInputs
  Sources = {0, 3}
  inf = 100
INVARIANTS DegreesFitArray TreesAreBalanced GraphAnswersRight
PROPERTIES BytesAreBitmap DequesAreSequences TableIsMap HeapIsPriorityQueue TreesAreSets
