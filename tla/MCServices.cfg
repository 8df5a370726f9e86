SPECIFICATION Spec
CONSTANTS
  Parts = {"cache", "chain"}
  LiveLength = 2
  PollPeriod = 1
  Jitter = 0
  TTL = 0
  Timeout = 1
  VerifyDelay = 1
  MaxWrites = 3
  Node = {"n1", "n2"}
  Reliable = {"n1"}
  User = {"user"}
  ChainID = {"devnet", "testnet"}
  Expected = "devnet"
  Modes = {"clients"}
  Keys = 2
  Operations = {"Transact"}
  NilPointer = NilPointer
  None = None
PROPERTIES
  CachesCatchUp
  MonitorServes
CHECK_DEADLOCK FALSE
