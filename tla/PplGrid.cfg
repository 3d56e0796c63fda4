SPECIFICATION Spec
CONSTANTS
  home = home
  away = away
  ann = ann
  bob = bob
  cyd = cyd
  dee = dee
  People = {ann, bob, cyd, dee}
  Cells = {home, away}
  Searchers = {s1, s2}
  Home <- MCHome
  Dob <- MCDob
  Today = 10
  LastDay = 15
  YearDays = 2
  MaxAgeDifference = 1
  Ages <- MCAges
  Vicinities <- MCVicinities
PROPERTIES
  SearchFindsTheWindow
CHECK_DEADLOCK FALSE
