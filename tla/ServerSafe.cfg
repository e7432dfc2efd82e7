SPECIFICATION Spec
CONSTANTS
  Handlers = {h1, h2}
  Poller = poll
  MaxOps = 3
  MaxQueue = 2
INVARIANTS
  OneConsole
PROPERTIES
  RequestsEnd
CHECK_DEADLOCK FALSE
