SPECIFICATION Spec
CONSTANTS
  Window = 5
  MinReversals = 2
  Threshold = 2
  LostAfter = 1
  Hold = 1
  KMax = 5
  Buffers = {b1, b2, b3}
  Positions = {0, 1, 2, 3}
  MaxGap = 2
  MaxTime = 7
SYMMETRY BufferSymmetry
INVARIANTS
  BuffersSuffice
  ReversalsAreSwings
CHECK_DEADLOCK FALSE
