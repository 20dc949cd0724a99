SPECIFICATION FairSpec
CONSTANTS
  s1 = s1
  s2 = s2
  StreamIds = {s1, s2}
  NoStream = NoStream
  Bodies <- MCBodies
  Paths <- MCPaths
  Methods <- MCMethods
  MaxFrames = 5
INVARIANTS
  TypeOK
  DispatchInOrder
  DispatchPrompt
  AnswersOwnStream
  AnsweredAtRead
  ResponseBlocks
PROPERTIES
  ReapOnlyReset
  ImplementsExchange
  EveryMessageAnswered
CHECK_DEADLOCK FALSE
