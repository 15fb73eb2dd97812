CONSTANTS
  BitLength = 2
  Mantissa = 3
  XShares = {1, 2, 3}
  YShares = {1, 2, 3}
SPECIFICATION IdealSpec
INVARIANTS
  SharesAddUp
CHECK_DEADLOCK FALSE
