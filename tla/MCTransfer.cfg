SPECIFICATION Spec
CONSTANTS
  Paths = {a, b, c}
  Ops = {o1, o2}
  Absent = Absent
  MaxFaults = 2
  Jobs <- MCCrossJobs
  Device <- MCTwoDevices
INVARIANTS TypeOK NoLoss VisibleFilesWhole DestinationGivenBack
CHECK_DEADLOCK FALSE
SYMMETRY MCSymmetry
