SPECIFICATION FairSpec
CONSTANTS
  MaxSessions = 2
  CallTime = 2
  Period = 1
  SinkWait = 3
  StatsWait = 3
INVARIANTS
  CountNeverLow
  SingleCaller
  QueueOutlivesStats
PROPERTIES
  ClosesIdleConnections
  ExpiryIsFalseAlarm
  StopReturns
