SPECIFICATION FairSpec
CONSTANTS
    HeadLen = 2
    BodyLens = {1, 3}
    Largest = 3
    MaxMsgs = 2
PROPERTIES
    CompleteIsHandled
CHECK_DEADLOCK FALSE
