SPECIFICATION FairSpec
CONSTANTS
  Handlers = {h1, h2}
  Posters = {p1, p2}
  QueueLen = 2
  MaxRecords = 3
  MaxBags = 2
INVARIANTS
  InOrderOnce
  OneBagOpen
PROPERTIES
  NeverBlocks
  QuietStopEndsWriter
CHECK_DEADLOCK FALSE
