SPECIFICATION IoFairSpec
CONSTANTS
    a1 = a1
    a2 = a2
    j1 = j1
    j2 = j2
    j3 = j3
    t1 = t1
    t2 = t2
    NoJob = NoJob
    NoThread = NoThread
    Adders = {a1}
    Threads = {t1}
    MaxThreads = 1
    Jobs = {j1}
    Priority <- LowPriority
    Work <- OneJob
PROPERTIES
    EveryJobRuns
CHECK_DEADLOCK FALSE
