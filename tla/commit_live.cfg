SPECIFICATION FairSpec
CONSTANTS
  p1 = p1
  p2 = p2
  f1 = f1
  f2 = f2
  o1 = o1
  o2 = o2
  Base = Base
  Edited = Edited
  Absent = Absent
  NoProc = NoProc
  NoOp = NoOp
  NoFile = NoFile
  Procs <- TwoProcs
  Files <- TwoFiles
  Ops <- OneOp
  Dirty <- BothFiles
  Previews <- OneOp
  MaxTroubles = 2
PROPERTIES
  ProcessesEnd
  RecoveryCompletes
