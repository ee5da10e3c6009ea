CONSTANTS
    Workers = {w1, w2}
    Types = {t1}
    Main = main
    SockCap = 2
    MaxCmds = 5
SPECIFICATION FairSpec
INVARIANTS
    InOrder
PROPERTIES
    CmdProcessed
CHECK_DEADLOCK FALSE
