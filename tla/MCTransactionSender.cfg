SPECIFICATION FairSpec
CONSTANTS
  SendOnly = {s1}
  Unchecked = {}
  Primary = {p1, p2}
  Results <- SomeResults
INVARIANT
  AnswerIsBestCollected
PROPERTIES
  SenderDrains
  SendOnlyRecovers
CHECK_DEADLOCK FALSE
