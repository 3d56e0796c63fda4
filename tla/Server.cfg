SPECIFICATION Spec
CONSTANT Connections = {c1, c2}
INVARIANTS
  MapHoldsTheServing
  OnlyReleasesAreLeft
PROPERTIES
  EveryConnectionAccepted
  EveryRequestEnds
  OnlySilenceHoldsItUp
CHECK_DEADLOCK FALSE
