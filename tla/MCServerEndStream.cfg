SPECIFICATION Spec
CONSTANTS
  s1 = s1
  s2 = s2
  StreamIds = {s1, s2}
  NoStream = NoStream
  Bodies <- MCUnaryBodies
  Paths <- MCPaths
  Methods <- MCMethods
  MaxFrames = 4
INVARIANT EndStreamOnce
CHECK_DEADLOCK FALSE
