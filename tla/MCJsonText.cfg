SPECIFICATION Spec
CONSTANTS
  Documents <- MCDocuments
  Arguments <- MCArguments
  MaxDepth = 4
  MaxArgs = 2
  KeySize = 4
  Initial = 2
INVARIANTS
  ReadersAcceptTheGrammar
  ResponsesReadBack
CHECK_DEADLOCK FALSE
