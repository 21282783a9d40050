SPECIFICATION Spec
CONSTANTS
  Dirs <- MCDirs
  Names <- MCNames
  Target <- MCTarget
  NoDir = NoDir
  Contents <- MCContents
  Filters <- MCFilters
  PageSize = 3
  MaxLoads = 4
  MaxRequests = 1
INVARIANTS TypeOK SelectedVisible ActsOnWhatItWasOpenedFor InTheOrderIndicated
CHECK_DEADLOCK FALSE
