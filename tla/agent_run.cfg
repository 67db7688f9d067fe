SPECIFICATION FairSpec
CONSTANTS
  MaxAbandoned = 2
  MaxSwitches <- Switches
  MaxStrategies = 1
  Questions = {q1, q2}
  MaxRetries = 3
  MaxHands = 1
  Overlap = FALSE
  Faults = {"raise", "interrupt", "kill", "save"}
  MaxFaults = 1
  Kinds <- SomeKinds
  StartGoals <- SomeGoals
  MaxTurns = 2
  MaxInvocations = 3
  PhaseBudget <- Budgets
  MaxQuiet = 2
  MaxRecoveries = 2
  MaxRounds = 1
CHECK_DEADLOCK FALSE
INVARIANTS TypeOK CompletedMeansOpened NoSecondAttemptAfterPr EndedIsRecorded WorkspaceFinalized TransientNotScored SummaryAgrees ReplacedRunNotScored PanelsBounded
PROPERTIES CompletedIsEarned RunEnds DueSettles
