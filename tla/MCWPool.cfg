SPECIFICATION FairSpec
CONSTANTS
  Workers = {w1, w2, w3}
  Tasks = {t1, t2}
  Kinds = {"submit", "try", "timeout"}
  Size = 1
  Limit = 2
  QCap = 1
  MaxResizes = 3
  None = None
INVARIANTS
  PoolKeepsWorker
  StopDrains
PROPERTIES
  AcceptedRuns
  StopReturns
CHECK_DEADLOCK FALSE
