CONSTANTS
  None = None
  Goroutines = {g1, g2}
  Types <- MCTypes
  Kind <- MCKind
  Elems <- MCElems
  PtrShaped <- MCPtrShaped
  KeyType = "string"
  Requests <- MCRequests
  Extensions = {"naming"}
  Creates <- MCCreates
  MaxCalls = 2
  MaxExtensions = 1
SPECIFICATION FairSpec
CHECK_DEADLOCK FALSE
INVARIANTS
  TypeOK
  NoNilCodec
  CodecFits
PROPERTIES
  EveryCallServed
  ImplementsRegistry
