SPECIFICATION FairSpec
CONSTANTS
  m1 = m1
  s1 = s1
  y1 = y1
  y2 = y2
  i1 = i1
  i2 = i2
  Messages = {m1}
  Served = {m1}
  Slots = {s1, y1, y2}
  Syncs = {y1, y2}
  Ids = {i1, i2}
  IdOf <- EndpointShared
  MaxAttempts = 2
  DefaultMax = 3
  NoId = NoId
  NoSlot = NoSlot
  NoMessage = NoMessage
  MaxRequeues = 1
INVARIANTS
  TypeOK
  OutcomeOfLatestClaim
  AttemptBudget
PROPERTIES
  ImplementsDelivery
  DeliveredIsFinal
  EveryMessageSettles
CHECK_DEADLOCK FALSE
