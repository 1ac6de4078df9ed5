SPECIFICATION Spec
CONSTANTS
  Configs <- MCConfigs
  Chars <- MCChars
  Keys <- MCKeys
  QueryCap = 3
  Viewports = {1, 2, 3}
INVARIANTS
  TypeOK
  SelectionInRange
  FilterIsCurrent
  QuerySelectsMatch
  NumbersNameTheirRow
  MnemonicCycleVisitsAll
  PageIsClampedSteps
CHECK_DEADLOCK FALSE
