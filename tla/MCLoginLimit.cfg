SPECIFICATION Spec
CONSTANTS
  Requests = {r1, r2, r3}
  Keys = {k1, k2}
  LIMIT = 1
  WINDOW = 2
  CAP = 1
  EVICTED = 1
  PERMITS = 2
  MaxLag = 1
  MaxTime = 3
SYMMETRY FullSymmetry
INVARIANTS TwoWindows ValidPasses RowsBounded
CHECK_DEADLOCK FALSE
