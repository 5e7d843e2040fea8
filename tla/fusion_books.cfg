SPECIFICATION Spec
CONSTANTS
  Books = {b1, b2}
  Layers = {0}
  book_layer <- UpperHome
  UpperBoards = {u}
  LowerBoards = {}
  Modes = {"ACTIVE", "SLEEP", "FIND"}
  Reloads = TRUE
  Settle = 1
  LayerSettle = 1
  Recent = 1
  IrRecent = 1
  Stale = 2
SYMMETRY BookSymmetry
PROPERTIES RecordKept MissNeedsTime
