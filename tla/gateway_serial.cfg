SPECIFICATION FairSpec
CONSTANTS
  None = None
  Gateways = {g1, g2}
  Apis = {a1, a2}
  Operators = {o1}
  Commands = {"up", "down", "restart"}
  Overlap = FALSE
  Faults = {"gateway", "api", "boot", "down"}
  MaxCommands = 3
  MaxFaults = 1
CHECK_DEADLOCK FALSE
INVARIANTS SingleGateway EndedMeansEnded
PROPERTIES DownMeansDown ApiRecordRepaired AskedToStopStops
