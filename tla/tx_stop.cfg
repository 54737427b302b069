SPECIFICATION FairSpec
CONSTANTS
  w1 = w1
  w2 = w2
  Windows <- OneWindow
  Mode = "external"
  WmMayStop = TRUE
  RemapInTransaction = FALSE
PROPERTY
  ManageLeadsToRender
