SPECIFICATION Spec
CONSTANTS
  LatDegrees = 3
  HalfTurn = 4
  Resolution = 1
  Word = 64
INVARIANTS
  FindsTheSouth
