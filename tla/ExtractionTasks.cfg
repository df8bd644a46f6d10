SPECIFICATION FairSpec
CONSTANTS
  w1 = w1
  w2 = w2
  r1 = r1
  r2 = r2
  r3 = r3
  q1 = q1
  Workers = {w1, w2}
  Runs = {r1, r2, r3, q1}
  WorkerOf <- TwoWorkersAndARequest
  MaxAttempts = 3
  NoOne = NoOne
CHECK_DEADLOCK FALSE
INVARIANTS
  TypeOK
  OneRunPerAttempt
PROPERTIES
  TaskEnds
  OnlyOwnerlessRunsAreLost
