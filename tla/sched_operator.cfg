SPECIFICATION Spec
CONSTANTS
  p1 = p1
  p2 = p2
  ctl = ctl
  op = op
  Participants <- OneParticipant
  Controller = ctl
  Manual <- OneOperator
  ManualSources <- ManualOnly
  MaxConcurrent = 1
  OperatorStatuses <- ActiveOnly
  MaxRuns = 3
  MaxFaults = 1
  WakeInterval = 1
  ShortGrace = 1
  FullGrace = 2
  MaxReplacementAttempts = 1
  MaxRetryAttempts = 1
INVARIANTS TypeOK ReplacementBudget StaleSparesYoungRuns
PROPERTIES ExhaustedIsFinal
