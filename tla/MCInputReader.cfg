SPECIFICATION FairSpec
CONSTANTS
  Max = 32
  Initial = 8
  Chunk = 3
  Longest = 36
INVARIANTS
  InputTypeOK
  NeverOverruns
  TextIsWhole
  RefusesOnlyLarge
PROPERTY
  ReadEnds
CHECK_DEADLOCK FALSE
