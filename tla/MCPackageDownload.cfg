SPECIFICATION PackageSpec
CONSTANTS
  Selections <- MCSelections
  Children <- MCChildren
  Chunks <- MCChunks
  TrimTo <- MCTrimTo
  Concurrency = 2
  Cap = 1
  Modes = {"transfer", "messages"}
  HeaderLen = 3
  FooterLen = 2
  Uint32 = 16
  Uint16 = 4
INVARIANTS CompleteIsWhole FetchedOnce
PROPERTIES DownloadEnds
CHECK_DEADLOCK FALSE
