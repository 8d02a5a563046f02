CONSTANTS
  Width = 3
  Floats <- SomeFloats
  NaN <- NotANumber
  FloatOp <- Arithmetic
  FloatCmp <- Compares
  FromInt <- Nearest
  Truncated <- Cast
  Functions <- AllFunctions
SPECIFICATION Spec
INVARIANTS TypeOK SameMeaning
PROPERTY EndsFolded
CHECK_DEADLOCK FALSE
