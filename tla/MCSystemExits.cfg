CONSTANTS
  p1 = p1
  p2 = p2
  Clients <- OneClient
  MaxRetries = 3
  MaxFaults = 1
  MaxCrashes = 1
  CanPartition = FALSE
  PrepareCanFail = FALSE
SPECIFICATION FairSpec
PROPERTIES
  EveryClientExits
  KeepsFairPromise
  EveryClientSucceeds
CHECK_DEADLOCK FALSE
