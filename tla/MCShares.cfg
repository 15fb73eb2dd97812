CONSTANTS
  BitLength = 3
  Mantissa = 5
  XShares = {1, 3, 4, 7, 25, 26, 34}
  YShares = {2, 5, 7}
SPECIFICATION IdealSpec
INVARIANTS
  TypeOK
  ProductIsShared
  MaskExactForSmallShares
CHECK_DEADLOCK FALSE
