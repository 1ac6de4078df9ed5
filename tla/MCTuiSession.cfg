SPECIFICATION FairSpec
CONSTANTS
  Windows <- MCWindows
  NoWindow = 0
  Cap = 1
  Screens <- MCScreens
  MaxSignals = 2
INVARIANTS
  SessionTypeOK
  BackgroundsLive
  BackgroundIsInnermostMenu
  EndsClean
PROPERTIES
  ExitStatusEarned
  SignalEndsSession
  RefinesScreenSession
CHECK_DEADLOCK FALSE
