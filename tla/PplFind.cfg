SPECIFICATION FairSpec
CONSTANTS
  f1 = f1
  f2 = f2
  c1 = c1
  c2 = c2
  c3 = c3
  p1 = p1
  p2 = p2
  p3 = p3
  p4 = p4
  NoThread = NoThread
  Finders = {f1, f2}
  Workers = {w1, w2, w3}
  Cells = {c1, c2, c3}
  People = {p1, p2, p3, p4}
  Route <- MCRoute
  Hits <- MCHits
  MaxPpl = 2
  PerFindConcurrency = 2
PROPERTIES
  EveryFindReturns
  PoolJoins
  ImplementsProvider
INVARIANTS
  PendingMatchesWork
  NoWorkletteTwice
  ContextOutlivesWork
  NoMissedNotify
  NoLostWakeup
  NoWorkAbandoned
  NearestFirst
  IInv
