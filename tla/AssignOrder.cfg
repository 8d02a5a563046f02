CONSTANTS
  Programs <- OneProgram
  MaxTests = 3
  MaxBlocks = 14
  MaxDepth = 12
SPECIFICATION Spec
INVARIANT AddressFirst
CHECK_DEADLOCK FALSE
