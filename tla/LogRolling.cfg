CONSTANTS
  t1 = t1
  t2 = t2
  home = home
  other = other
  rslog = rslog
  Threads <- TwoThreads
  Dirs <- TwoDirs
  Home = home
  Bases <- OneBase
  Default = rslog
  Levels <- InfoAndWarn
  Warn = 3
  MaxSize = 2
  MaxSecond = 1
  MaxLines = 3
SPECIFICATION Spec
CHECK_DEADLOCK FALSE
INVARIANTS TypeOK ThreadOrder
PROPERTIES NewSecondKeepsLines TwoRollsKeepLines
