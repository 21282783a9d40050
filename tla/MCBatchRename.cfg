SPECIFICATION Spec
CONSTANTS
  Names = {a, b, c, d}
  Batches = {b1, b2}
  Pairs <- MCPairs
  MaxFaults = 2
  Absent = Absent
SYMMETRY MCSymmetry
INVARIANTS NothingLost StrandedByAnother AllOrNothing
CHECK_DEADLOCK FALSE
