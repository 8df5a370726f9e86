SPECIFICATION Spec
CONSTANTS
  Parts = {"instructions", "layouts", "reports", "digests", "events",
    "caches", "clients", "fees"}
  ClientMethods = {"DeployOCRv2Store", "CreateFeed", "InitOCR2",
    "DeployOCRv2AccessController", "AddAccess", "SetValidatorConfig",
    "SetWriter", "createProposal", "proposeConfig", "proposePayees",
    "writeOffChainConfig", "finalizeOffChainConfig", "acceptProposal", "SetBilling"}
  Pairs = {"Proposal", "State", "Store", "AccessController", "Transmissions",
    "NewTransmission", "Round", "NewOracle", "LatestConfig", "solState",
    "solAccessController",
    "TransmissionsHeader", "Transmission", "eventSetBilling",
    "eventRoundRequested", "eventNewTransmission"}
  I128Align = 8
  Observation <- SomeObservations
  Observer = {0, 1, 2, 3}
  Faulty = {1}
  Epochs = {256}
  Given <- SomeGiven
  Answers <- SomeAnswers
  ChunkSize = 2
  Capacity = 4
  MaxConfigs = 1
  Ocr2 = "ocr2"
  Others = {"other"}
  Foreign = 9
  MaxDepth = 2
  MaxLogs = 5
  MaxTxs = 2
  Cache = {"state", "transmissions"}
  LiveLength = 2
  PollPeriod = 1
  Jitter = 0
  TTL = 1
  Timeout = 1
  VerifyDelay = 1
  MaxWrites = 3
  Node = {"n1", "n2"}
  Reliable = {"n1"}
  User = {"user"}
  ChainID = {"devnet", "testnet"}
  Expected = "devnet"
  Modes = {"clients", "multinode"}
  Keys = 1
  Operations = {"TransactChecked", "LatestHead"}
  NilPointer = NilPointer
  None = None
  PublicKeys = {"payer", "ocr2", "memo", "Vote", "ComputeBudget"}
  Jobs <- SomeJobs
  Blocks <- SomeBlocks
  Byte = 4
  PriceLen = 2
  LimitLen = 1
  MinPrice = 0
  MaxPrice = 14
  DefaultPrice = 1
  MaxBumps = 5
INVARIANTS
  InstructionsAgree
  LayoutsAgree
  ReportSurvives
  MedianIsHonest
  ConfiguredAsGiven
  EnvelopeIsOfTheFeed
  FreshReads
  OneClientPerURL
  VerifiedBeforeUse
  BumpedAsConfigured
