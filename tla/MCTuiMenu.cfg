SPECIFICATION KeysKeepComing
CONSTANTS
  Configs <- MCConfigs
  Chars <- MCChars
  Keys <- MCKeys
  QueryCap = 2
  Viewports = {3}
  Screens <- MCScreens
  NoFrame = NoFrame
INVARIANTS
  MenuTypeOK
  ConfirmedItemShown
  SelectedRowOnScreen
PROPERTIES
  InterruptEndsMenu
CHECK_DEADLOCK FALSE
