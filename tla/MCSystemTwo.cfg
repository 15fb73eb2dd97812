CONSTANTS
  p1 = p1
  p2 = p2
  Clients <- TwoClients
  MaxRetries = 1
  MaxFaults = 1
  MaxCrashes = 1
  CanPartition = TRUE
  PrepareCanFail = TRUE
SPECIFICATION Spec
INVARIANTS
  ServerExpectsFrame
  SuccessIsShared
PROPERTIES
  KeepsPromise
SYMMETRY Symmetry
CHECK_DEADLOCK FALSE
