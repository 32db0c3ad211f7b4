\* All operations: the count is exact and no waiter is left without a waker.
SPECIFICATION FairSpec
CONSTANTS
    Procs = {g1, g2, g3}
    Cap = 2
INVARIANTS
    PermitsConserved
    WaiterIsCovered
PROPERTIES
    BlockedWakesUp
