SPECIFICATION TreeSpec
CONSTANTS
  Paths <- MCPaths
  Dirs0 <- MCDirs0
  NewName = "n"
  MaxListings = 3
  MaxMkdirs = 2
INVARIANTS DestinationShown ListsWhatItMade InputKept
CHECK_DEADLOCK FALSE
