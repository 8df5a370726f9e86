SPECIFICATION StoreSpec
CONSTANTS
  Transmission = {t1, t2}
  Zero = Zero
  None = None
  Abort = Abort
  MaxSpace = 5
  MaxGranularity = 3
  U32Max = 10
  Key = {1, 2}
  Default = Default
  S = S
  Ctrl = {c1, c2}
  MAX_ADDRS = 2
  Answer <- SomeAnswers
  Threshold = {1, 2}
  THRESHOLD_MULTIPLIER = 2
  U128Max = 7
  StoreAuthority = pda
  MaxPending = 1
SYMMETRY CtrlSymmetry
INVARIANTS
  LatestIsLastSubmitted
  LiveWindowExact
  HistoricalRoundsDown
  EvictedNotFound
  AccessListIsTheSet
  NoBreach
  OwnershipKept
  FlagTracksDeviation
CHECK_DEADLOCK FALSE
