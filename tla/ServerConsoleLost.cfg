SPECIFICATION Spec
CONSTANTS
  Handlers = {h1}
  Poller = poll
  MaxOps = 2
  MaxQueue = 1
PROPERTIES
  ConsoleFollowsMode
CHECK_DEADLOCK FALSE
