SPECIFICATION HistSpec
CONSTANTS
  Workers = {w1, w2}
  Main = main
  Nobody = nobody
  Capacity = 1
  MaxJobs = 2
  MaxSpurious = 1
  NumBits = 2
  Chunk = 2
  Content <- MCContent
INVARIANT BitsConserved
PROPERTY EverythingCounted
CHECK_DEADLOCK FALSE
