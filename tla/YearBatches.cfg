SPECIFICATION FairSpec
CONSTANTS
    t1 = t1
    t2 = t2
    t3 = t3
    y1 = y1
    y2 = y2
    y3 = y3
    y4 = y4
    NoJob = NoJob
    NoThread = NoThread
    Threads = {t1, t2, t3}
    MaxThreads = 3
    Jobs = {y1, y2, y3, y4}
    Priority <- MCPriority
    Sets <- MCSets
INVARIANTS
    IdleMeansDone
    OnlyItsOwnSet
    StoppedMeansStopped
PROPERTIES
    ImplementsBarrier
CHECK_DEADLOCK FALSE
