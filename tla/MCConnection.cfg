CONSTANTS
  Base = 2
  HeaderLen = 2
  Frames <- MCFrames
  MaxFrames = 2
  BufferLen = 2
SPECIFICATION Spec
INVARIANTS
  TypeOK
  NothingHeldBack
  IInv
PROPERTIES
  FramesReachAlice
  FramesReachBob
CHECK_DEADLOCK FALSE
