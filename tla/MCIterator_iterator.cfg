CONSTANTS
  Inputs <- MCInputs
  Sources = {"reader", "bytes"}
  BufSize = 3
  MaxDepth = 2
  ReadErrors = {"EOF", "ioerr"}
  Clients = {"Skip", "SkipAndReturnBytes", "Decode", "More", "WhatIsNext", "Reset", "Unmarshal", "Valid"}
  MaxOps = 3
SPECIFICATION MCSpec
INVARIANTS
  TypeOK
  WindowIsInput
  CaptureIsInput
  NameIsInput
  DepthRestored
  SkipMovesOverValue
  SkipAcceptsValue
  CaptureReturnsValue
  ErrorIsSticky
  PeekKeepsValue
  UnmarshalIffJSON
PROPERTIES
  CallsReturn
