SPECIFICATION Spec
CONSTANTS
  x = x
  y = y
  Nul = nul
  Bytes = {x, y, nul}
  BlockLen = 2
  Originals <- MCOriginals
  OldFiles <- MCOldFiles
CHECK_DEADLOCK FALSE
INVARIANTS
  AcceptedIsOriginal
  OrderDoesNotMatter
PROPERTY TransferEnds
