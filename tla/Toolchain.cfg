\* Every spelled program and every short file; a memory of 64 bytes of six bits.
SPECIFICATION ToolFairSpec
CONSTANTS
  Sources <- MCSources
  Names <- MCNames
  NumeralValue <- MCNumerals
  OtherChars <- MCOther
  Codes <- MCCodes
  Escapes <- MCEscapes
  ByteMod = 64
  MaxLength = 5
  NoLabel = ""
  MemSize = 64
  BlockSize = 16
  NumCacheLines = 2
  CacheType = 0
  WordSize = 4
  CycleMod = 1
  LinePadding = 2
  InitBytes <- MCZeroBytes
  Inputs <- MCNoInput
  ZeroChar = 16
  Newline = 10
  Blanks = {11}
INVARIANTS AsmTypeOK LocationIsLength CodeInPlace EmittedInPlace NothingIsPatched RunsTheSource
PROPERTIES ScanAdvances AssemblerEnds ImplementsSource
