\* Lines read by trap 6 under the convention of the unit tests.
SPECIFICATION Spec
CONSTANTS
  MemSize = 64
  BlockSize = 16
  NumCacheLines = 2
  CacheType = 0
  WordSize = 4
  ByteMod = 64
  CycleMod = 1
  LinePadding = 2
  Files <- MCPrograms
  InitBytes <- MCZeroBytes
  Inputs <- MCInputs
  ZeroChar = 16
  Newline = 10
  Blanks = {11}
PROPERTIES LengthCountsTerminator
