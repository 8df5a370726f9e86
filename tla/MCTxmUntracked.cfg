SPECIFICATION Spec
CONSTANTS
  Id = {j1}
  Nil = Nil
  Signature <- MCSignature
  Payload <- DistinctPayload
  MaxFee = 1
  MaxBump = 1
  MaxSenders = 1
  MaxQueueLen = 1
  MaxSigsToConfirm = 2
INVARIANT
  BroadcastIsTracked
CHECK_DEADLOCK FALSE
