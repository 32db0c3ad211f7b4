\* The cleaner takes the worker a Submit would wait for.
SPECIFICATION FairSpec
CONSTANTS
    Procs = {p1, p2}
    Workers = {w1}
    Kinds <- MCSubmitOnly
    AllowStop = FALSE
    AllowReclaim = TRUE
    MaxFinishing = 1
    None = none
    Nil = nil
PROPERTIES
    SubmitUnblocks
CHECK_DEADLOCK FALSE
