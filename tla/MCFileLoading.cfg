SPECIFICATION Spec
CONSTANTS
  root = root
  sub = sub
  login = login
  Paths <- MCPaths
  Parent <- MCParent
  Login <- login
  HISTORY_LIMIT = 1
  MaxPages = 2
  MaxLoads = 4
  MaxChanges = 1
  MaxClosed = 1
  MaxSessions = 2
INVARIANTS ShownIsCurrentButForStrays NothingOlder NothingOfOthers
CHECK_DEADLOCK FALSE
PROPERTIES Settles
