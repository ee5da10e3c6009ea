SPECIFICATION FairSpec
CONSTANTS
    WorkerNum = 2
    Fds = {5, 6}
    NoFd = NoFd
    PipeCap = 1
    MaxAccepts = 3
PROPERTIES
    StopReturns
CHECK_DEADLOCK FALSE
