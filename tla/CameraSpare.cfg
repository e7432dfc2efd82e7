SPECIFICATION Spec
CONSTANTS
  Buffers = {b1, b2, b3}
  QueueLen = 2
  CoopSinks = {tcp}
  KillSinks = {sdcard}
  MaxFrames = 4
  QInit = 1
  QMin = 0
  QMax = 2
  QHigh = 2
  QStep = 1
  QOverflowStep = 2
  NoFrame = NoFrame
  b1 = b1
  b2 = b2
  b3 = b3
  tcp = tcp
  sdcard = sdcard
SYMMETRY BufferSymmetry
PROPERTIES
  CoopStopKeepsBatch
  ImplementsFrameStream
