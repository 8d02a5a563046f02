CONSTANTS
  Var = {1, 2}
  Functions <- Both
SPECIFICATION NamesSpec
INVARIANTS TypeOK NoEmptyStack  SameUses NamedApart
PROPERTY EndsWithEmptyStacks
CHECK_DEADLOCK FALSE
