SPECIFICATION ServeSpec
CONSTANTS
  x = x
  y = y
  z = z
  Newline = newline
  Bytes = {x, y, z, newline}
  Message <- MCMessage
  BufSize = 4
  HeaderLen = 2
  BodyLen = 2
  None = none
  MaxInt = 7
  Requests = {0, 1, 2, 5, 7}
  MaxInterrupts = 1
CHECK_DEADLOCK FALSE
INVARIANTS
  TypeOK
  WrittenInOrder
  StreamConserved
  ShortOnlyAtEnd
  BodyIsWhole
PROPERTY EveryCallReturns
