SPECIFICATION ChainSpec
CONSTANTS
  N = 3
  Values = {0, 1}
  Limit = 2
  MaxCalls = 4
INVARIANTS
  UndoCovers
PROPERTIES
  SaveIsWhole
CHECK_DEADLOCK FALSE
