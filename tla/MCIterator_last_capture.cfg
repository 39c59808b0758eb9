CONSTANTS
  Inputs <- NumberLast
  Sources = {"reader"}
  BufSize = 8
  MaxDepth = 2
  ReadErrors = {"EOF"}
  Clients = {"Decode"}
  MaxOps = 2
SPECIFICATION Spec
INVARIANTS
  CaptureReturnsLastValue
