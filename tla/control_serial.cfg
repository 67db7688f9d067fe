SPECIFICATION Spec
CONSTANTS
  Procs = {q1, q2}
  Commands = {"activate", "observe", "complete", "force", "clean", "pause", "resume",
              "tick", "start", "up"}
  InitialStatus = "draft"
  Overlap = FALSE
  MaxCommands = 4
  MaxRuns = 1
  MaxFaults = 1
SYMMETRY ProcSymmetry
CHECK_DEADLOCK FALSE
INVARIANTS RunningBeatHasOwner WakeNeedsOpening
PROPERTIES AtomicStore
