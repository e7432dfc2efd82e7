SPECIFICATION Spec
CONSTANTS
  CmdQueueLen = 2
  MaxInputs = 3
  ImuPresent = TRUE
  SdPresent = TRUE
INVARIANTS
  ReinitOnlyWhenStopped
