\* A direct-mapped cache of two lines under a memory of four blocks; the stack shares
\* its set with the code.
SPECIFICATION StackSpec
CONSTANTS
  MemSize = 64
  BlockSize = 16
  NumCacheLines = 2
  CacheType = 1
  WordSize = 4
  ByteMod = 64
  CycleMod = 1
  LinePadding = 2
  Files <- MCCalls
  InitBytes <- MCZeroBytes
  Inputs <- MCNoInput
  ZeroChar = 16
  Newline = 10
  Blanks = {11}
INVARIANTS StackHoldsPushed
PROPERTIES ReturnsToCaller CacheIsTransparent
