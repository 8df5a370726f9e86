SPECIFICATION MCSpec
CONSTANTS
  t1 = t1  t2 = t2  t3 = t3  t4 = t4  t5 = t5  t6 = t6  t7 = t7
  p1 = p1  p2 = p2  q1 = q1  link = link  other = other
  a1 = a1  a2 = a2
  ProposalId = {prop}
  Authority = {a1, a2}
  Signer = {1, 2, 3, 4, 5, 6, 7}
  Transmitter = {t1, t2, t3, t4, t5, t6, t7}
  Payee = {p1, p2, q1}
  Mint = {link, other}
  MintOf <- MCMintOf
  Default = Default
  None = None
  OracleLists <- AllLists
  PayeeLists <- SomePayees
  MaxF = 2
  MAX_ORACLES = 7
  MaxConfigLen = 1
  token_mint = link
  min_answer = 1
  max_answer = 2
  Answer = {0, 1, 2}
  HonestAnswer = {0, 1}
  Faulty = {2, 5}
  Epochs = {0}
  Rounds = {1, 2}
  Observers = {3}
  Price = {1}
  JuelsPerLamport = {4}
  ComputeUnitPrice = {None}
  LAMPORTS_PER_SIGNATURE = 1
  EXEC_PER_SIGNATURE = 1
  EXEC_BASE = 1
  MICRO = 2
  GIGA = 1
  U32Max = 7
  MaxConfigCount = 2
  U64Max = 9
  Amount = {9}
  MaxFund = 18
INVARIANTS
  AccountsBalance
  ActiveConfigValid
PROPERTIES
  AnswerEndorsed
  StaysSolvent
CHECK_DEADLOCK FALSE
