CONSTANTS
  Constant = {"c"}
  Functions <- SSAFunctions
SPECIFICATION Spec
INVARIANTS TypeOK NothingDeadIsLive
 
CHECK_DEADLOCK FALSE
