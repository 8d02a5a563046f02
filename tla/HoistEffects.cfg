CONSTANT
  Functions <- JoinFunctions
SPECIFICATION Spec
INVARIANT MovedWithoutEffect
CHECK_DEADLOCK FALSE
