SPECIFICATION FairSpec
CONSTANTS
  Books = {b1}
  Layers = {0, 1}
  book_layer <- UpperHome
  UpperBoards = {u}
  LowerBoards = {}
  Modes = {"ACTIVE", "SLEEP"}
  Reloads = FALSE
  Settle = 1
  LayerSettle = 2
  Recent = 1
  IrRecent = 2
  Stale = 2
INVARIANTS RecordFollows
PROPERTIES RecordCatchesUp WindowCloses
