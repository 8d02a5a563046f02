CONSTANTS
  a = a  l1 = l1  l2 = l2  s = s  p = p  b1 = b1  b2 = b2  r = r  c = c  bb = bb
  Alloca = {a}
  Load = {l1}
  Store = {s}
  Phi = {p}
  Pure = {b1}
  Void = {r}
  Const = {c}
  Label = {bb}
  MaxPairs = 1
SPECIFICATION Spec
INVARIANTS TypeOK UsesComplete UsesSound NoDanglingOperand
PROPERTY ImplementsValueGraph
SYMMETRY Interchangeable
CHECK_DEADLOCK FALSE
