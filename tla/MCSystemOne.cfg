CONSTANTS
  p1 = p1
  p2 = p2
  Clients <- OneClient
  MaxRetries = 3
  MaxFaults = 1
  MaxCrashes = 1
  CanPartition = TRUE
  PrepareCanFail = TRUE
SPECIFICATION Spec
INVARIANTS
  TypeOK
  IInv
  EndsInv
  ClientExpectsFrame
  RandomnessDrawnOnce
  CompletedIsFinal
PROPERTIES
  StateNeverRewinds
  AttemptsStayOver
CHECK_DEADLOCK FALSE
