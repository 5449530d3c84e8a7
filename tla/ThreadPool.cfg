CONSTANTS
    Workers = {w1, w2}
    Clients = {c1, c2}
    Jobs = {j1, j2}
    NoThread = NoThread
    NoJob = NoJob
    MayPause = TRUE
SPECIFICATION FairSpec
INVARIANTS WorkersSound DestroyedSettles
PROPERTIES FifoSpec JobProgress DestructorReturns
CHECK_DEADLOCK FALSE
