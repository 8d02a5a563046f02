CONSTANTS
  Width = 3
  Floats <- SomeFloats
  NaN <- NotANumber
  FloatOp <- Arithmetic
  FloatCmp <- Compares
  FromInt <- Nearest
  Truncated <- Cast
  Functions <- OneFunction
SPECIFICATION Spec
INVARIANT BranchesOnBit
CHECK_DEADLOCK FALSE
