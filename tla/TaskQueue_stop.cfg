CONSTANTS
    Workers = {w1}
    WorkerCounts = {1}
    VoidPushers = {}
    FuturePushers = {p1}
    Tasks = {t1}
    NoThread = NoThread
    NoTask = NoTask
    MaxSpurious = 0
SPECIFICATION FairSpec
PROPERTY StopReturns
CHECK_DEADLOCK FALSE
