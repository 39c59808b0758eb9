SPECIFICATION Spec
CONSTANTS
  g1 = g1
  g2 = g2
  naming = naming
  decorating = decorating
  Goroutines = {g1, g2}
  Bases <- MCTwins
  BaseExtensions <- MCTwinExtensions
  Registers = "ever"
  Extensions = {naming, decorating}
  Others = {"default", "compatible"}
  Types = {"T"}
  MaxIndent = 1
  MaxCalls = 4
INVARIANTS
  IndentedLikeMarshal
SYMMETRY Symmetry
CHECK_DEADLOCK FALSE
