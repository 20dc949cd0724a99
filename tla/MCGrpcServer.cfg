SPECIFICATION FairSpec
CONSTANTS
  c1 = c1
  c2 = c2
  c3 = c3
  NoClient = NoClient
  Clients = {c1, c2, c3}
  Streams = {1}
  Messages = {1}
  Limits <- MCLimits
PROPERTIES
  CutOnlyWithProcess
  EnoughToServeAll
  EveryClientServed
  EveryMessageAnswered
  HungUpReleased
CHECK_DEADLOCK FALSE
