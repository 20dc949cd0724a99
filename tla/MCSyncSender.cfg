SPECIFICATION Spec
CONSTANTS
  c1 = c1
  c2 = c2
  c3 = c3
  c4 = c4
  NoCall = NoCall
  Calls = {c1, c2, c3, c4}
  Capacity = 2
SYMMETRY MCSymmetry
INVARIANTS
  SenderKept
PROPERTIES
  RefusesAfterPanic
  ImplementsChannel
CHECK_DEADLOCK FALSE
