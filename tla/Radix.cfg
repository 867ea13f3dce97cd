SPECIFICATION Spec
CONSTANTS
  BLOCK_SIZE_STEP = 8
  MIN_ALLOCATION = 16
  NUM_SIZES = 4
  ChunkBlocks = 2
  WordBytes = 4
  HeapStart = 8
  MAX_BITS = 4
  OutMax = 2
  MaxInputs = 5
  MaxTake = 4
  MaxShort = 1
  Unset = unset
INVARIANTS NoNodeLost WrittenInOrder
PROPERTIES ImplementsSortedBag
CHECK_DEADLOCK FALSE
