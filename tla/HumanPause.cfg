SPECIFICATION FairSpec
CONSTANTS
  m1 = m1
  m2 = m2
  Msg <- MCMsg
  MaxReq = 2
  Settings <- OrdinarySettings
INVARIANTS
  TypeOK
  AnswerIsKept
  PendingIsShown
  CardStopsWork
  GrantIsApplied
PROPERTY DecisionIsTold
