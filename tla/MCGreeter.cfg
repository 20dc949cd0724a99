SPECIFICATION Spec
CONSTANTS
  Hello = "Hello"
  World = "world"
  Words = {"Hello", "world", "rust", "go"}
  UnknownKeys <- MCUnknownKeys
  Inputs <- MCInputs
  MaxOps = 2
INVARIANTS
  GreetsByName
  RequestSurvives
  EchoKeepsFields
CHECK_DEADLOCK FALSE
