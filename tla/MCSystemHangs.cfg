CONSTANTS
  p1 = p1
  p2 = p2
  Clients <- OneClient
  MaxRetries = 2
  MaxFaults = 1
  MaxCrashes = 1
  CanPartition = TRUE
  PrepareCanFail = TRUE
SPECIFICATION FairSpec
PROPERTIES
  EveryHangExplained
  EverySessionEnds
CHECK_DEADLOCK FALSE
