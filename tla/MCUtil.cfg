SPECIFICATION MCSpec
CONSTANTS
    t1 = t1  t2 = t2  t3 = t3  t4 = t4
    p1 = p1  p2 = p2  p3 = p3
    Threads <- FourThreads
    INT64_MIN <- LeastInt
    Values <- MCValues
    Keys = {"hits", "peak", "gauge"}
    MaxUpdates = 2
    MaxQueries = 1
    None = None
    Libs <- MCLibs
    Procs = {p1, p2, p3}
    Paths <- MCPaths
    Files <- MCFiles
    LockKeys = {"x", "y", "z"}
    Hash <- MCHash
    Allocators = {p1, p2}
    Blocks = {1, 2}
    Sizes = {0, 5, 16}
    Bytes = {a, b}
    Nul = nul
    Junk = junk
    MaxPrealloc = 3
    MaxArg = 3
    MaxLen = 5
    BucketPower = 2
    WordBits = 7
    MaxLL = 127
    MaxLong = 31
    UnitBuf = 6
    LineMax = 40
    ItemMax = 6
SYMMETRY FourSymmetry
INVARIANTS
    QueryWindow
    StringSafe
    PathsCreated
    KeysLocked
    MemoryCounted
    TextExact
    BuffersKept
CHECK_DEADLOCK FALSE
