SPECIFICATION Spec
CONSTANTS
  Processes = {server, console}
  Absent = Absent
  Partial = Partial
  Found = Found
  MaxDeaths = 2
INVARIANTS OneSecret RunsWithOneAdmin StartsAgain
PROPERTIES ForeignUntouched ComesToRun
