SPECIFICATION FairSpec
CONSTANTS
  p1 = p1
  p2 = p2
  ctl = ctl
  op = op
  Participants <- TwoParticipants
  Controller = ctl
  Manual <- NoOperators
  ManualSources <- ManualOnly
  MaxConcurrent = 1
  OperatorStatuses <- ActiveOrObserving
  MaxRuns = 3
  MaxFaults = 1
  WakeInterval = 2
  ShortGrace = 1
  FullGrace = 2
  MaxReplacementAttempts = 2
  MaxRetryAttempts = 1
INVARIANTS SlotRecoverable
PROPERTIES InfraRestoresClock NeverLockedOut AbandonedRunRecovered
