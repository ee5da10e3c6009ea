CONSTANTS
    Conns = {c1}
    Brs = {b1, b2}
    Pipe = Pipe
    NULL = NULL
    MaxClients = 3
    MaxRequests = 2
SPECIFICATION FairSpec
INVARIANTS
    WatchersMatch
    RequestsMatch
    AnswersOwnClient
PROPERTIES
    RequestEnds
CHECK_DEADLOCK FALSE
