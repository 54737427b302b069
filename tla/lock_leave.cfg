SPECIFICATION FairSpec
CONSTANTS
  o1 = o1
  o2 = o2
  Outputs <- TwoOutputs
  Faults <- LeaveFaults
PROPERTY
  LockCompletes
