SPECIFICATION Spec
CONSTANTS
    Addr = {a1, a2, a3, a4}
    Values = {v1, v2}
    Default = d0
    NULL = NULL
    EMPTY = EMPTY
    MaxItems = 4
INVARIANTS
    NoUseAfterFree
PROPERTIES
    ImplementsFifo
CHECK_DEADLOCK FALSE
