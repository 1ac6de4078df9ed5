SPECIFICATION ProgramFairSpec
CONSTANTS
  Configs <- MCConfigs
  Chars <- MCChars
  Keys <- MCKeys
  QueryCap = 2
  Viewports = {3}
  Screens <- MCScreens
  NoFrame = NoFrame
PROPERTY
  InterruptEndsMenu
CHECK_DEADLOCK FALSE
