SPECIFICATION Spec
CONSTANTS
  Limit = 7
  Timeout = 2
  Slice = 1
  Colours <- MCColours
  Typed <- MCTyped
  MaxTyped = 0
  Environments <- MCEnvironments
  Requests <- MCRequests
  Scenarios <- MCScenarios
  MaxRenders = 1
  Light <- MCLight
INVARIANT PlainIsPlain
CHECK_DEADLOCK FALSE
