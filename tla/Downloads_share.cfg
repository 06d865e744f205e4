CONSTANTS
  Thread = {t1, t2}
  NoThread = NoThread
  Overlay = Overlay
  Name = {n1}
  Size = 2
  Chunk = 2
  Rows = 1
  OpenFails = FALSE
  RowsFail = FALSE
SPECIFICATION FairSpec
INVARIANTS SavedIsWhole NothingPartial IconIsWhole
PROPERTIES AbortsWhenTornDown
