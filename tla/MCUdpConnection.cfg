CONSTANTS
    Sizes = {1, 3}
    ReadSize = 2
    SendBuffer = 2
    MayLeave = TRUE
    MaxDatagrams = 3
    MaxQueue = 3
    Clients = {c1, c2}
    Anyone = Anyone
    Closed = Closed
    MaxSends = 2
SPECIFICATION MCSpec
INVARIANTS
    OwnClient
PROPERTIES
    IdleClosed
    DatagramAccepted
CHECK_DEADLOCK FALSE
