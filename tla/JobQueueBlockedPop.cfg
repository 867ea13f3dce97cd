SPECIFICATION FairSpec
CONSTANTS
  Workers = {w1, w2}
  Main = main
  Nobody = nobody
  Capacity = 2
  MaxJobs = 3
  MaxSpurious = 1
CHECK_DEADLOCK FALSE
PROPERTY BlockedPopReturnsAfterDestroy
