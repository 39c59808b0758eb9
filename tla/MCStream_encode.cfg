CONSTANTS
  None = None
  Goroutines = {g1, g2}
  StreamIds = {s1, s2, s3}
  Names <- MCNames
  Steps = {0, 1}
  Values <- MCValues
  Depth <- MCDepth
  Calls = {"Marshal", "Encode"}
  MaxCalls = 3
  MaxFailures = 1
SPECIFICATION Spec
SYMMETRY Symmetry
CHECK_DEADLOCK FALSE
INVARIANTS
  TypeOK
  PoolBalance
  MarshalIsText
  WriterGetsLines
