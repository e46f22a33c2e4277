\* All sets of three ways, the order of filling not assumed.
SPECIFICATION Spec
CONSTANTS
  MemSize = 4
  BlockSize = 1
  NumCacheLines = 3
  CacheType = 2
  WordSize = 1
  ByteMod = 1
  CycleMod = 3
  LinePadding = 0
  MaxStamp = 3
  ScanSets <- MCScanSets
  ScanTags <- MCScanTags
INVARIANTS HitIsFirst MissTakesVictim
