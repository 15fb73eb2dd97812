CONSTANTS
  Words <- MCWords
  DeltaBits = 20
  Instances = 3
  PointLen = 2
  MaskedShares = {0, 1, 2}
  PointsLen = 3
  SharesLen = 2
SPECIFICATION Spec
INVARIANTS
  TypeOK
  OnlyAliceMessagesAccepted
  LayoutsAgreeOnOnes
  SetupArrives
  MaskedShareUnsent
  ReadAsWritten
  FieldsAreWhole
  MessagesMixedUpOneWay
CHECK_DEADLOCK FALSE
