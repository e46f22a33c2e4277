\* Direct mapped, words at any address.
SPECIFICATION Spec
CONSTANTS
  MemSize = 6
  BlockSize = 2
  NumCacheLines = 2
  CacheType = 1
  WordSize = 2
  ByteMod = 2
  CycleMod = 1
  LinePadding = 1
  MaxCycles = 1
  ByteAddrs <- MCAnyBytes
  WordAddrs <- MCAnyWords
  InitBytes <- MCZeroBytes
INVARIANTS ReadWordIsMemory
