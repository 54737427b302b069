SPECIFICATION FairSpec
CONSTANTS
  NOutputs = 1
  SyncOutputs <- SyncOne
  Plans <- OneScreen
  MaxWoken = 1
  MaxFlight = 1
  MaxTroubles = 1
PROPERTIES
  HardwareIsNotBlamed
CHECK_DEADLOCK FALSE
