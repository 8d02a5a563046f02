CONSTANTS
  MaxBlocks = 9
  MaxDepth = 7
SPECIFICATION Spec
INVARIANTS TypeOK NothingAfterTerminator EdgesAgree AllTerminated ScopesClosed LoopsHaveOneEntry
CHECK_DEADLOCK FALSE
