SPECIFICATION FibsSpec
CONSTANTS
  Workers = {w1, w2, w3}
  Main = main
  Nobody = nobody
  Capacity = 2
  MaxJobs = 3
  MaxSpurious = 1
  Input <- MCInput
INVARIANTS
  TypeOK
  RingFifo
  ConsAmountExact
  NoLostWakeup
  TornDownOnlyWhenDrained
  AbortOnlyWhenDrained
  ExitedComplete
  NoUseAfterFree
PROPERTIES
  ImplementsFifo
  EarlyReturnNeverAbandons
  EveryLineAnswered
CHECK_DEADLOCK FALSE
