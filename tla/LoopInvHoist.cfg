CONSTANT
  Functions <- LocalFunctions
SPECIFICATION Spec
INVARIANTS TypeOK MovesOutAndUp OnlyInvariantsMove OperandsComputedBefore
PROPERTY EndsWithoutInvariants
CHECK_DEADLOCK FALSE
