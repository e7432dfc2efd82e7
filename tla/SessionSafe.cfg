SPECIFICATION FairSpec
CONSTANTS
  Callers = {console, poller}
  MaxCalls = 2
  MaxConns = 2
  MaxFlight = 2
  console = console
  poller = poller
INVARIANTS
  TypeOK
  PendingIsHeld
  OwnAnswers
  CompleteReply
  FailsOnlyDead
PROPERTIES
  ReconnectIsServed
CHECK_DEADLOCK FALSE
