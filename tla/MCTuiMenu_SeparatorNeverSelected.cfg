SPECIFICATION MenuSpec
CONSTANTS
  Configs <- MCConfigs
  Chars <- MCChars
  Keys <- MCKeys
  QueryCap = 2
  Viewports = {3}
  Screens <- MCScreens
  NoFrame = NoFrame
INVARIANT
  SeparatorNeverSelected
CHECK_DEADLOCK FALSE
