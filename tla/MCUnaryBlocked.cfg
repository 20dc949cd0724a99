SPECIFICATION FairSpec
CONSTANTS
  MaxCalls = 2
  MaxSize = 3
  SizesOf <- MCBlockedSizesOf
  PathsOf <- MCBlockedPathsOf
  Methods <- MCOneMethod
  ToServer = 1
  ToClient = 3
PROPERTY
  EveryCallEnds
CHECK_DEADLOCK FALSE
