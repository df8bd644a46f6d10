SPECIFICATION FairSpec
CONSTANTS
  w1 = w1
  w2 = w2
  r1 = r1
  r2 = r2
  r3 = r3
  p1 = p1
  p2 = p2
  Workers = {w1, w2}
  Runs = {r1, r2, r3}
  WorkerOf <- TwoThreadsAndOne
  Policies = {p1, p2}
  PolicyOf <- OnePolicyEach
  MaxAttempts = 2
  NoOne = NoOne
INVARIANTS
  TypeOK
  ReviewMatchesReport
PROPERTIES
  ReviewIsFinal
  TaskEnds
CHECK_DEADLOCK FALSE
