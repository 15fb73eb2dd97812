CONSTANTS
  Words <- MCWords
  DeltaBits = 20
  Instances = 3
  PointLen = 2
  MaskedShares = {0, 1, 2}
  PointsLen = 3
  SharesLen = 2
SPECIFICATION Spec
INVARIANTS
  MaskedShareArrives
CHECK_DEADLOCK FALSE
