CONSTANTS
  MaxBlocks = 10
  MaxDepth = 6
  Order <- OrderOfFew
  Graphs <- ConnectedGraphs
SPECIFICATION Spec
INVARIANTS TypeOK DominatorsRight LoopsRight OnePreheader
PROPERTIES IdomOnlyClimbs EndsWithoutDeadPredecessor
CHECK_DEADLOCK FALSE
