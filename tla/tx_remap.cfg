SPECIFICATION Spec
CONSTANTS
  w1 = w1
  w2 = w2
  Windows <- OneWindow
  Mode = "internal"
  WmMayStop = FALSE
  RemapInTransaction = TRUE
INVARIANT
  NoUnreachable
