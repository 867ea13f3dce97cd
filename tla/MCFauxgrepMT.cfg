SPECIFICATION GrepSpec
CONSTANTS
  Workers = {w1, w2}
  Main = main
  Nobody = nobody
  Capacity = 2
  MaxJobs = 3
  MaxSpurious = 1
  Matches <- MCMatches
INVARIANT OutputIsPrefix
PROPERTY SearchedWhileWorkersLeft
CHECK_DEADLOCK FALSE
