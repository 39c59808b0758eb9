CONSTANTS
  None = None
  Names <- MCNames
  Lower <- MCLower
  Hash <- MCHash
  Translate <- MCTranslate
  SwitchSize = 3
  DocSize = 2
  Configs <- MCConfigs
  Structs <- MCStructs
SPECIFICATION Spec
CHECK_DEADLOCK FALSE
INVARIANTS
  TypeOK
  RoundTrip
  DominantFields
  MembersFindFields
