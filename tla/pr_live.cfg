SPECIFICATION FairSpec
CONSTANTS
  NoPr = NoPr
  PRs = {pr1, pr2}
  Procs = {p1}
  MaxOpenPrs = 1
  Overlap = FALSE
  Faults = {"raises", "transient", "refused"}
  MaxCrashes = 1
CHECK_DEADLOCK FALSE
INVARIANTS OpenPrsBounded
PROPERTIES OutcomesArrive
