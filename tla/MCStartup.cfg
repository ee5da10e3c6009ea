CONSTANTS
    MaxWorkers = 3
    Cpus = 2
    Nodes <- MCNodes
    MaxNodes = 2
    Given <- MCGiven
    DefaultWorkerNum = 2
    Null = Null
    MaxLL = 127
    MaxLong = 31
    UnitBuf = 6
SPECIFICATION FairSpec
INVARIANTS
    DeletedNotRunning
    ConfLoaded
    InitializedWhole
PROPERTY
    RunEnds
CHECK_DEADLOCK FALSE
