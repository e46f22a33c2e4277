\* Fully associative, no wrap of the counter.
SPECIFICATION Spec
CONSTANTS
  MemSize = 8
  BlockSize = 2
  NumCacheLines = 3
  CacheType = 2
  WordSize = 2
  ByteMod = 1
  CycleMod = 100
  LinePadding = 1
  MaxCycles = 33
  ByteAddrs <- MCOneBytePerBlock
  WordAddrs <- MCNone
  InitBytes <- MCZeroBytes
PROPERTIES ImplementsLruStack
CHECK_DEADLOCK FALSE
