SPECIFICATION PplmeSpec
CONSTANTS
  here = here
  there = there
  LittleEndian = TRUE
  LastYear = 9999
  Found <- MCFound
  Strange <- MCStrange
  MaxBody = 2
  Capacity = 2
  MaxRequests = 2
INVARIANTS
  WholeMessagesOnly
  TrueIffAnswered
  PrintsWhatWasFound
PROPERTIES
  EveryRequestReturns
  PplmeReturns
CHECK_DEADLOCK FALSE
