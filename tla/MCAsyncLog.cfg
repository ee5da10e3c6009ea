CONSTANTS
    t1 = t1
    t2 = t2
    Threads <- MCThreads
    LogThread = LogThread
    None = None
    Levels = {2, 16, 32}
    LogLevel = 16
    MaxLogs = 2
    MaxRotations = 1
SPECIFICATION FairSpec
INVARIANTS
    LogOrder
    FreedAfterWrite
    CloseKeepsMarked
PROPERTIES
    LogWritten
CHECK_DEADLOCK FALSE
