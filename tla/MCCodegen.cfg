SPECIFICATION Spec
CONSTANTS
  Requests <- MCRequests
  RustMod <- MCRustMod
  RustFqName <- MCRustFqName
  Words <- MCWords
INVARIANTS
  GeneratesRequested
  StubsReachHandlers
  ItemsClashOnlyBySuffix
  HelloworldIsCurrent
CHECK_DEADLOCK FALSE
