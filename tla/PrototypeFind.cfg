SPECIFICATION Spec
CONSTANTS
  far = far
  near = near
  pole = pole
  Calls = {far, near, pole}
  Workers = {w1, w2}
  NumNearby <- MCNumNearby
INVARIANTS
  PendingOpsExact
  NothingLost
PROPERTIES
  AnswerFrozen
  CompleteUnlessPending
  ReturnsInTime
  ReturnsWhenDone
