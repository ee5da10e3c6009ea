SPECIFICATION FairSpec
CONSTANTS
    WorkerNum = 2
    Fds = {5, 6, 7}
    NoFd = NoFd
    PipeCap = 2
    MaxAccepts = 7
INVARIANTS
    FdOwnedOnce
    MqAnnounced
    NothingLeftBehind
PROPERTIES
    StopReturnsUnlessFull
    QueueDrains
CHECK_DEADLOCK FALSE
