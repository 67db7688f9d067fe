SPECIFICATION Spec
CONSTANTS
  Modified = {"m"}
  Added = {"a"}
  Faults = {}
CHECK_DEADLOCK FALSE
PROPERTIES PrCarriesReviewedPatch
