CONSTANTS
  Programs <- AllPrograms
  MaxTests = 3
  MaxBlocks = 14
  MaxDepth = 12
SPECIFICATION Spec
INVARIANTS TypeOK WellTyped
PROPERTY EndsWithMeaning ImplementsCfgBuilder
CHECK_DEADLOCK FALSE
