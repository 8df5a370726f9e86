SPECIFICATION Spec
CONSTANTS
  Node = {n1, n2}
  Nil = Nil
  Configs <- OnlyLeasing
  MaxBlock = 0
  MaxLeaving = 1
  Order <- SameOrder
  Healthy = {}
INVARIANT
  LeaseNeverPanics
CHECK_DEADLOCK FALSE
