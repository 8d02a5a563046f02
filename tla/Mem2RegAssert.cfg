CONSTANTS
  Var = {1, 2}
  Functions <- TwoBranches
SPECIFICATION NamesSpec
INVARIANT AssertionHolds
CHECK_DEADLOCK FALSE
