SPECIFICATION Spec
CONSTANTS
  Users = {1, 2, 3}
  Requests = {1, 3, 6}
  Chunk = 6
  Large = 3
  NumLists = 4
  Limit = 14
INVARIANTS BlocksTileTheHeap FreeBlocksJoined ListsHoldTheFree
PROPERTY ImplementsAllocator
VIEW LiveView
CHECK_DEADLOCK FALSE
