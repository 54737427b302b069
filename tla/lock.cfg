SPECIFICATION FairSpec
CONSTANTS
  o1 = o1
  o2 = o2
  Outputs <- TwoOutputs
  Faults <- NoFaults
INVARIANTS
  TypeOK
  NoUnreachable
  LockedHidesSession
  LockRenderStateIsTruthful
  ClientKnowsLocked
PROPERTIES
  LockSurvivesClient
  ImplementsLockContract
  LockCompletes
