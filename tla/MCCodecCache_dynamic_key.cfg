CONSTANTS
  None = None
  Goroutines = {g1, g2}
  Types <- IntMapTypes
  Kind <- IntMapKind
  Elems <- IntMapElems
  PtrShaped <- IntMapPtrShaped
  KeyType = "string"
  Requests <- IntMapRequests
  Extensions = {"naming"}
  Creates <- IntMapCreates
  MaxCalls = 2
  MaxExtensions = 0
SPECIFICATION Spec
CHECK_DEADLOCK FALSE
INVARIANTS
  NoNilCodec
