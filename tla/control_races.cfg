SPECIFICATION FairSpec
CONSTANTS
  Procs = {q1, q2}
  Commands = {"activate", "observe", "complete", "force", "pause", "resume", "tick",
              "start", "up"}
  InitialStatus = "draft"
  Overlap = TRUE
  MaxCommands = 3
  MaxRuns = 0
  MaxFaults = 1
CHECK_DEADLOCK FALSE
INVARIANTS CompletedIsFrozen
PROPERTIES LoopEnds
