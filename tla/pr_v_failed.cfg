SPECIFICATION Spec
CONSTANTS
  NoPr = NoPr
  PRs = {pr1}
  Procs = {p1}
  MaxOpenPrs = 1
  Overlap = FALSE
  Faults = {"not_ok"}
  MaxCrashes = 0
CHECK_DEADLOCK FALSE
SYMMETRY PrSymmetry
INVARIANTS FailuresAreTransient
