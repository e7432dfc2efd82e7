SPECIFICATION FairSpec
CONSTANTS
  Buffers = {b1, b2, b3}
  QueueLen = 3
  CoopSinks = {tcp}
  KillSinks = {sdcard}
  MaxFrames = 3
  QInit = 1
  QMin = 0
  QMax = 2
  QHigh = 2
  QStep = 1
  QOverflowStep = 2
  NoFrame = NoFrame
  b1 = b1
  b2 = b2
  b3 = b3
  tcp = tcp
  sdcard = sdcard
INVARIANTS
  TypeOK
  ExclusiveBuffers
  QueueOutlivesItsUsers
  OverflowUnreachable
PROPERTIES
  LostOnlyByDeletion
  TeardownEnds
  QueuedIsReleased
