SPECIFICATION Spec
CONSTANTS
  Procs = {q1, q2}
  Commands = {"tick", "pause"}
  InitialStatus = "active"
  Overlap = TRUE
  MaxCommands = 2
  MaxRuns = 1
  MaxFaults = 0
CHECK_DEADLOCK FALSE
PROPERTIES HeartbeatsNeverSteer
