SPECIFICATION Spec
CONSTANTS
  NoPr = NoPr
  PRs = {pr1, pr2}
  Procs = {p1}
  MaxOpenPrs = 2
  Overlap = FALSE
  Faults = {"not_ok", "unverified", "transient", "lost", "refused"}
  MaxCrashes = 1
CHECK_DEADLOCK FALSE
SYMMETRY PrSymmetry
INVARIANTS TypeOK OneRowPerOutcome OutcomesAreReal
PROPERTIES NothingForgotten
