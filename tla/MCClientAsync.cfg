SPECIFICATION FairSpec
CONSTANTS
  c1 = c1
  c2 = c2
  c3 = c3
  NoCall = NoCall
  Calls = {c1, c2, c3}
  Capacity = 1
INVARIANTS
  AcceptsCapacity
  PanicsOnlyWithLoop
  OnlyLoopBlocks
PROPERTIES
  EveryCallEnds
CHECK_DEADLOCK FALSE
