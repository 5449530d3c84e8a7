CONSTANTS
    Workers = {w1, w2}
    WorkerCounts = {1, 2}
    VoidPushers = {v1}
    FuturePushers = {p1}
    Tasks = {t1, t2}
    NoThread = NoThread
    NoTask = NoTask
    MaxSpurious = 1
SPECIFICATION FairSpec
INVARIANTS TypeOK Guarded WaitDrains StoppedIsQuiet
PROPERTIES FifoSpec TaskProgress
CHECK_DEADLOCK FALSE
