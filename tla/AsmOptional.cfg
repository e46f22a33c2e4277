\* .INT without an operand: behind it the end of its line, a comment, or the end of the file.
SPECIFICATION ToolFairSpec
CONSTANTS
  Sources <- MCOptional
  Names <- MCNames
  NumeralValue <- MCNumerals
  OtherChars <- MCOther
  Codes <- MCCodes
  Escapes <- MCEscapes
  ByteMod = 64
  MaxLength = 5
  NoLabel = ""
  MemSize = 64
  BlockSize = 16
  NumCacheLines = 2
  CacheType = 0
  WordSize = 4
  CycleMod = 1
  LinePadding = 2
  InitBytes <- MCZeroBytes
  Inputs <- MCNoInput
  ZeroChar = 16
  Newline = 10
  Blanks = {11}
PROPERTIES OperandOptional
