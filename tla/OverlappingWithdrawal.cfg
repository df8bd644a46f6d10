SPECIFICATION Spec
CONSTANTS
  w1 = w1
  c1 = c1
  Workers = {w1}
  Correlations = {c1}
  MaxVersion = 2
  MaxAttempts = 1
  NoWorker = NoWorker
  NoEvent = NoEvent
  Occurring <- UpdatesAndRevocation
  Reverts = FALSE
  Reconciles = FALSE
INVARIANT RevokedIsHidden
CHECK_DEADLOCK FALSE
