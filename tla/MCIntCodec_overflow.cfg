CONSTANTS
  WordBits = 14
  NarrowBits = 7
  FastDigits = 3
  Window = 4
  GroupDigits = 2
  Values <- MCValues
  Texts <- TooWide
  Suffixes <- MCSuffixes
SPECIFICATION Spec
CHECK_DEADLOCK FALSE
INVARIANTS
  OverflowReported
