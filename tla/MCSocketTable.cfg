CONSTANTS
    Workers = {w1, w2}
    Fds = {4, 9}
    ListenFd = 2
    MaxAccepts = 4
SPECIFICATION FairSpec
INVARIANTS
    EntryIsOwn
    WritesOwnConn
PROPERTY
    ReplyServed
CHECK_DEADLOCK FALSE
