\* All operations: who may send to a worker, what is counted, and what ends.
SPECIFICATION FairSpec
CONSTANTS
    Procs = {p1, p2}
    Workers = {w1, w2}
    Kinds <- MCKinds
    AllowStop = TRUE
    AllowReclaim = TRUE
    MaxFinishing = 1
    None = none
    Nil = nil
INVARIANTS
    OneSenderPerWorker
    AcceptedTaskKept
    WorkersCounted
PROPERTIES
    AcceptedTaskRuns
    StopEnds
    WokenWhileFull
CHECK_DEADLOCK FALSE
