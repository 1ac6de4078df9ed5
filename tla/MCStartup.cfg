SPECIFICATION Spec
CONSTANTS
  Inputs <- AllInputs
  Words <- SmallWords
  MaxArgs = 2
INVARIANTS
  StartupTypeOK
  FlagsExclusive
  HigherLayersWin
  RequestInDocumentOrder
  FormatKept
  ArgumentsArriveWhole
  ExitIsExplained
CHECK_DEADLOCK FALSE
