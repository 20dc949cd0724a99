SPECIFICATION Spec
CONSTANTS
  Frames <- MCFrames
  MaxFrames = 2
INVARIANTS
  FramesSurvive
  CompleteOnlyWhole
CHECK_DEADLOCK FALSE
