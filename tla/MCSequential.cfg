SPECIFICATION SequentialSpec
CONSTANTS
  Bytes = {1, 2}
  Capacities = {2, 4}
  WordMod = 8
  GrowBy = 2
  MaxIO = 3
  None = None
  Cap4 = 2
  Cap16 = 3
  Cap48 = 5
  Workloads <- MCWorkloads
  Starts <- MCStarts
  Absent = 0
  NoCall = nocall
INVARIANTS
  ContentsKept
  ViewsAgree
  TreeSound
  WalksComplete
PROPERTY ImplementsMap
CHECK_DEADLOCK FALSE
