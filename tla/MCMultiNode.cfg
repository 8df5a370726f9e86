SPECIFICATION Spec
CONSTANTS
  Node = {n1, n2}
  Nil = Nil
  Configs <- WatchingOrComparing
  MaxBlock = 2
  MaxLeaving = 1
  Order <- SameOrder
  Healthy = {}
SYMMETRY NodeSymmetry
INVARIANTS
  StateMachineNeverPanics
  AlwaysWatched
CHECK_DEADLOCK FALSE
