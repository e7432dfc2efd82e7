SPECIFICATION Spec
CONSTANTS
  Wrap = 5
  MaxAge = 2
  QueueLen = 2
  Batch = 2
  MaxTime = 5
  MaxSessions = 2
INVARIANTS
  TypeOK
  SamplesInOrder
  EveryLossIsCounted
  BatchClock
  ReportIsTrue
CHECK_DEADLOCK FALSE
