SPECIFICATION FairSpec
CONSTANTS
  v1 = v1
  w1 = w1
  w2 = w2
  a1 = a1
  e1 = e1
  e2 = e2
  api1 = api1
  api2 = api2
  id1 = id1
  Tasks = {v1}
  Workers = {w1}
  Algorithms = {a1}
  AlgorithmOf <- OneAlgorithm
  MaxAttempts = 2
  NoOne = NoOne
  NoTask = NoTask
  Entries = {e1, e2}
  MaxCount = 1
  NoEntry = NoEntry
  FaultsCease = TRUE
  CountingFails = TRUE
  Dispatchers = {api1}
  Ids = {id1}
  IdOf <- OneId
  NoId = NoId
INVARIANT NoSilentLoss
PROPERTIES
  EveryTaskEnds
  QueueDrains
