SPECIFICATION Spec
CONSTANTS
  ByteMod = 4
  PageWords = 4
  Window = 2
  FirstSize = 2
  WordBits = 8
  JalBits = 5
  ImmMod = 16
  ArgBase = 128
  NoText = 0
  Texts = {1, 2, 3, 4, 5}
  Chars = {65, 255}
  Pow2 <- MCPow2
  BitAnd <- MCBitAnd
  Registers <- MCRegisters
  Instructions <- MCInstructions
  Files <- MCFiles
  ArgVectors <- MCArgVectors
  Garbage <- MCGarbage
INVARIANTS MemoryIsFlat TextIsLast
PROPERTIES SimulatesRiscV
CHECK_DEADLOCK FALSE
