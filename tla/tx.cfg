SPECIFICATION Spec
CONSTANTS
  w1 = w1
  w2 = w2
  Windows <- TwoWindows
  Mode = "compare"
  WmMayStop = TRUE
  RemapInTransaction = FALSE
SYMMETRY Symmetry
INVARIANTS
  TypeOK
  NoUnreachable
  CountIsExact
  NoLostWakeup
  FrozenFrameIsScheduled
  AckedMeansAcked
PROPERTIES
  NoTornFrame
  ClosingIsTornDown
  ImplementsFrameTransaction
