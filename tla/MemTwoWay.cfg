\* Two-way: two sets of two lines, three blocks competing for the second set, the last
\* of them mostly outside the memory.
SPECIFICATION Spec
CONSTANTS
  MemSize = 21
  BlockSize = 4
  NumCacheLines = 4
  CacheType = 3
  WordSize = 2
  ByteMod = 2
  CycleMod = 2
  LinePadding = 1
  MaxCycles = 2
  ByteAddrs <- MCSharedSetBytes
  WordAddrs <- MCSharedSetWord
  InitBytes <- MCZeroBytes
INVARIANTS TypeOK OneCopy LinesInMemory CleanLinesAgree ValidWaysFirst
PROPERTIES ImplementsFlatMemory EvictsOnlyWhenFull
