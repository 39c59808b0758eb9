SPECIFICATION Spec
CONSTANTS
  g1 = g1
  g2 = g2
  naming = naming
  decorating = decorating
  Goroutines = {g1, g2}
  Bases <- MCBases
  BaseExtensions <- MCBaseExtensions
  Registers = "start"
  Extensions = {naming, decorating}
  Others = {"default", "compatible"}
  Types = {"T"}
  MaxIndent = 1
  MaxCalls = 4
INVARIANTS
  TypeOK
  AsAsked
PROPERTIES
  SharedApisKeep
SYMMETRY Symmetry
CHECK_DEADLOCK FALSE
