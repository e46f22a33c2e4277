\* A division whose quotient does not fit a word.
SPECIFICATION Spec
CONSTANTS
  MemSize = 64
  BlockSize = 16
  NumCacheLines = 2
  CacheType = 0
  WordSize = 4
  ByteMod = 64
  CycleMod = 1
  LinePadding = 2
  Files <- MCPrograms
  InitBytes <- MCZeroBytes
  Inputs <- MCInputs
  ZeroChar = 16
  Newline = 10
  Blanks = {11}
INVARIANTS NoHostSignal
