SPECIFICATION Spec
CONSTANTS
  Runs <- SomeRuns
  Participants = {"p", "q"}
  ParticipantOf <- Owner
  PageLimit = 2
  Starts <- SomeStarts
  Outcomes = {"open", "merged"}
  Builders = {"gateway", "watcher", "hand"}
CHECK_DEADLOCK FALSE
INVARIANTS TypeOK OneTruth
PROPERTIES CatchesUp OutcomeReachesSummary
