CONSTANTS
  WordBits = 14
  NarrowBits = 7
  FastDigits = 3
  Window = 4
  GroupDigits = 2
  Values <- MCValues
  Texts <- MCTexts
  Suffixes <- MCSuffixes
  Strings <- MCStrings
  Runes <- MCRunes
  Documents <- MCDocuments
  Binaries <- MCBinaries
  BinaryTexts <- MCBinaryTexts
  Precision = 14
  NarrowPrecision = 5
  MaxExponent = 20
  NarrowMaxExponent = 19
  FloatWordBits = 18
  Decimals = 2
  LossyLimit = 2
  SmallExponent <- MCSmallExponent
  LargeExponent = 3
  LossyValues <- MCLossyValues
  ShortValues <- MCShortValues
  FloatTexts <- MCFloatTexts
  MaxDepth = 2
  SloppyValues <- MCSloppyValues
SPECIFICATION ScalarSpec
CHECK_DEADLOCK FALSE
INVARIANTS
  TypeOK
  WrittenIsRead
  ReadIsNumber
  StringIsRead
  FloatIsRead
