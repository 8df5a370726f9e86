SPECIFICATION Spec
CONSTANTS
  Id = {i1, i2, i3}
  Signature = {s1, s2, s3}
  Caller = {c1, c2}
  Nil = Nil
INVARIANTS
  TypeOK
  MapsAgree
  OneOutcome
PROPERTY
  ImplementsPendingTx
CHECK_DEADLOCK FALSE
