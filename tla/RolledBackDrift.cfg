SPECIFICATION Spec
CONSTANTS
  v1 = v1
  v2 = v2
  w1 = w1
  w2 = w2
  a1 = a1
  a2 = a2
  Tasks = {v1, v2}
  Workers = {w1, w2}
  Algorithms = {a1, a2}
  AlgorithmOf <- OneAlgorithmEach
  MaxAttempts = 2
  NoOne = NoOne
  NoTask = NoTask
INVARIANT LatestIsHealed
