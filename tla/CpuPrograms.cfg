\* No cache: every program of a setup and two instructions.
SPECIFICATION FairSpec
CONSTANTS
  MemSize = 64
  BlockSize = 16
  NumCacheLines = 2
  CacheType = 0
  WordSize = 4
  ByteMod = 64
  CycleMod = 1
  LinePadding = 2
  Files <- MCPrograms
  InitBytes <- MCZeroBytes
  Inputs <- MCInputs
  ZeroChar = 16
  Newline = 10
  Blanks = {11}
INVARIANTS TypeOK
PROPERTIES HeapBelowStack RefusalHasNoEffect StringStored StringPrinted InstructionsFinish
