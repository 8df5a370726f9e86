SPECIFICATION FairSpec
CONSTANTS
  Node = {n1, n2}
  Nil = Nil
  Configs <- OnlyPlain
  MaxBlock = 0
  MaxLeaving = 1
  Order <- SameOrder
  Healthy <- OneOf
PROPERTIES
  PoolRecovers
  PoolCloseCompletes
CHECK_DEADLOCK FALSE
