CONSTANTS
  Inputs <- Number
  Sources = {"bytes"}
  BufSize = 3
  MaxDepth = 2
  ReadErrors = {"EOF"}
  Clients = {"Valid"}
  MaxOps = 1
SPECIFICATION Spec
INVARIANTS
  ValidIffJSON
