SPECIFICATION Spec
CONSTANTS
  Deltas = {0, 1, 6}
  DeltaCap = 6
  LayerConfirm = 6
  Echo = 2
  SteadyPolls = 8
INVARIANTS SteadyLayerWins NoFavourite
PROPERTIES ChangeIsStable
