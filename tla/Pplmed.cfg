SPECIFICATION Spec
CONSTANTS
  r1 = r1
  r2 = r2
  Requests = {r1, r2}
  Matches <- MCMatches
  MaxPpl = 1
  MaxLines = 2
  TestDbSize = 1
INVARIANTS
  ServesWholeData
  ProviderOutlivesFinds
  ComesDownForACause
PROPERTIES
  RequestsAnswered
  ImplementsServer
CHECK_DEADLOCK FALSE
