SPECIFICATION Spec
CONSTANTS
  Limit = 7
  Timeout = 3
  Slice = 1
  Colours <- MCColours
  Typed <- MCTyped
  MaxTyped = 1
  Environments <- MCEnvironments
  Requests <- MCRequests
  Scenarios <- MCScenarios
  MaxRenders = 2
  Light <- MCLight
INVARIANTS
  RenderTypeOK
  FoundIsTheAnswer
  TerminalLeftAsFound
  CacheHonest
  DisabledIsSilent
  ParagraphLaidOut
  TuiTextSound
PROPERTY
  RenderEnds
CHECK_DEADLOCK FALSE
