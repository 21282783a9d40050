SPECIFICATION Spec
CONSTANTS
  Listers = {l1, l2}
  Mutators = {m1}
  Dirs = {d}
  Views = {plain, hidden}
  DirOf <- MCDirOf
  TTL = 1
  MaxScan = 1
  MaxChanges = 2
  MaxTime = 3
  MaxGuards = 1
  Nothing = Nothing
SYMMETRY MCSymmetry
INVARIANTS Fresh BoundedStaleness
CHECK_DEADLOCK FALSE
