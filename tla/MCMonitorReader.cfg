SPECIFICATION Spec
CONSTANTS
  Parts = {"chain"}
  LiveLength = 2
  PollPeriod = 1
  Jitter = 0
  TTL = 0
  Timeout = 1
  VerifyDelay = 1
  MaxWrites = 3
  Node = {"n1", "n2"}
  Reliable = {"n1"}
  User = {"user"}
  ChainID = {"devnet"}
  Expected = "devnet"
  Modes = {"multinode"}
  Keys = 2
  Operations = {"Transact"}
  NilPointer = NilPointer
  None = None
INVARIANT
  MonitorReaderIsAClient
CHECK_DEADLOCK FALSE
