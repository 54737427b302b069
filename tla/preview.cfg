SPECIFICATION FairSpec
CONSTANTS
  NOutputs = 2
  SyncOutputs <- SyncOne
  Plans <- OnePlan
  MaxWoken = 1
  MaxFlight = 1
  MaxTroubles = 2
INVARIANTS
  TypeOK
  DeadlineNeverOvertakesSave
  PowerOffStands
PROPERTIES
  LeaseEnds
  KeepOffersWhatIsSeen
  KeptIsShownAndSaved
  RevertedMeansRestored
  ImplementsPreviewContract
CHECK_DEADLOCK FALSE
