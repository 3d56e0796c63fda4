SPECIFICATION Spec
CONSTANTS
  LatDegrees = 3
  HalfTurn = 4
  Resolution = 2
  Word = 64
INVARIANTS
  NobodyTwice
  FindsTheNorth
