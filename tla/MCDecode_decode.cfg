CONSTANTS
  MaxDepth = 5
  Types <- MCTypes
  Destinations <- MCDestinations
  Configs <- MCConfigs
  Inputs <- MCInputs
  Refused <- MCRefused
  MaxCalls = 2
  Explored <- MCExplored
  Word = 1024
  Paths <- MCPaths
  MaxGets = 2
SPECIFICATION WholeSpec
INVARIANTS
  TypeOK
  
  
  NothingShared
  GetFindsValue
  ConvertsAsTable
PROPERTIES
  KeptIsKept
CHECK_DEADLOCK FALSE
