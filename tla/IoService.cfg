SPECIFICATION IoSpec
CONSTANTS
    a1 = a1
    a2 = a2
    j1 = j1
    j2 = j2
    j3 = j3
    t1 = t1
    t2 = t2
    NoJob = NoJob
    NoThread = NoThread
    Adders = {a1, a2}
    Threads = {t1}
    MaxThreads = 1
    Jobs = {j1, j2, j3}
    Priority <- LowPriority
    Work <- TwoAdders
INVARIANTS
    InOrder
PROPERTIES
    IdleIsIdle
    ImplementsOutput
CHECK_DEADLOCK FALSE
