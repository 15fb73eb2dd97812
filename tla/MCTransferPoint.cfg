CONSTANTS
  FieldPrime = 43
  Base = 3
  Digits = 4
  Order <- CurveOrder
  Point <- CurvePoint
  Infinity <- CurveInfinity
  Generator <- CurveGenerator
  PointAdd <- CurveAdd
  NegatePoint <- CurveNegate
  Multiple <- CurveMultiple
  XCoord <- CurveXCoord
SPECIFICATION Spec
INVARIANTS
  PointFollowsChoice
CHECK_DEADLOCK FALSE
