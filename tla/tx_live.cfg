SPECIFICATION FairSpec
CONSTANTS
  w1 = w1
  w2 = w2
  Windows <- OneWindow
  Mode = "compare"
  WmMayStop = FALSE
  RemapInTransaction = FALSE
PROPERTIES
  ClosedWindowsGo
  ManageLeadsToRender
