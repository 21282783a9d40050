SPECIFICATION QueueSpec
CONSTANTS
  d1 = d1
  d2 = d2
  Dirs <- MCDirs
  StartDir = d1
  MaxFiles = 3
  PoolLimit = 2
  MaxMoves = 1
  MaxRetries = 1
INVARIANTS InOnePlace PoolIsFull
PROPERTIES EveryFileEnds
CHECK_DEADLOCK FALSE
