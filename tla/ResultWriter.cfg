SPECIFICATION FairSpec
CONSTANTS
    c1 = c1
    c2 = c2
    e1 = e1
    e2 = e2
    e3 = e3
    e4 = e4
    Clients = {c1, c2}
    Entries = {e1, e2, e3, e4}
    Work <- MCWork
    MayFail = TRUE
    MaySignal = TRUE
INVARIANTS
    FlushWaits
    NoWriteAfterCloseUntroubled
    ArchiveInOrder

    
CHECK_DEADLOCK FALSE
