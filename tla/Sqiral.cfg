SPECIFICATION Spec
CONSTANTS
  LatDegrees = 2
  HalfTurn = 2
  Resolution = 3
INVARIANTS
  EachCellOnce
  InGrid
  CoversThePopulated
  NothingNearerMissed
  EndsAtFarthestCorner
