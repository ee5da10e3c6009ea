SPECIFICATION ConnFairSpec
CONSTANTS
    HeadLen = 2
    BodyLens = {0, 1, 3}
    Largest = 3
    MaxMsgs = 3
    SendBuffer = 3
    SslOpen = TRUE
INVARIANTS
    FrameSync
    BufferBound
    StreamIntact
PROPERTIES
    CatchesUp
    ReplyDelivered
    HalvesImplemented
CHECK_DEADLOCK FALSE
