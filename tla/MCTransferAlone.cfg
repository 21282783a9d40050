SPECIFICATION Spec
CONSTANTS
  Paths = {a, b, c}
  Ops = {o1}
  Absent = Absent
  MaxFaults = 3
  Jobs <- MCAllJobs
  Device <- MCDevices
INVARIANT CleanFailure
PROPERTY AllOrNothing
CHECK_DEADLOCK FALSE
