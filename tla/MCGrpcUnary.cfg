SPECIFICATION FairSpec
CONSTANTS
  MaxCalls = 3
  MaxSize = 2
  SizesOf <- MCSizesOf
  PathsOf <- MCPathsOf
  Methods <- MCMethods
  ToServer = 20
  ToClient = 12
INVARIANTS
  ReturnsAfterTrailers
  FramesFit
  OnlyWritersDeadlock
PROPERTIES
  ImplementsRpc
  WorkDecreases
  EveryCallEnds
CHECK_DEADLOCK FALSE
