SPECIFICATION FairSpec
CONSTANTS
  CmdQueueLen = 2
  MaxInputs = 3
  ImuPresent = TRUE
  SdPresent = TRUE
INVARIANTS
  TypeOK
  ModeTellsPipelines
PROPERTIES
  ImplementsOperatingMode
  CommandsAreHandled
