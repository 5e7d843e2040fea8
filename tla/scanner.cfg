SPECIFICATION FairSpec
CONSTANTS
  N = 2
  book_layer <- MCBookLayer
  Tags = {t1}
  MaxEvents = 1
  MissingConfirm = 2
  ReturnConfirm = 2
  LayerConfirm = 1
  HoldOff = 1
  Fresh = 0
  Forget = 1
INVARIANTS ViewConsistent
PROPERTIES EventsConfirmed ChangesAreNoticed
