SPECIFICATION Spec
CONSTANTS
  Max = 32
  Initial = 8
  Chunk = 3
  Longest = 36
INVARIANT ErrorReturnsNull
CHECK_DEADLOCK FALSE
