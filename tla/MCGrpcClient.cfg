SPECIFICATION Spec
CONSTANTS
  MaxCalls = 3
  Paths = {"/a"}
  MaxSize = 2
  Messages = {"m"}
  ServerFrames <- MCServerFrames
  MaxFrames = 6
INVARIANTS
  RequestFraming
  EndsAgainOncePerCall
  SentBeforeWaiting
  AnswerIsStreamBody
CHECK_DEADLOCK FALSE
