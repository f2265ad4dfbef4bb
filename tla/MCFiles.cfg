SPECIFICATION Spec
CONSTANTS
    Proc = {init, p1, p2}
    InitProc = init
    root = root
    debug = debug
    sda = sda
    sdb = sdb
    Boot <- Mounts
    Character <- Characters
    MaxPath = 5
    Path <- Opened
    DebugPath <- Debug
    DebugFile = debug
    Pipe = {d1}
    NumFp = 3
    MaxRefs = 3
    None = None
SYMMETRY Interchangeable
INVARIANTS
    TypeOK
    RefsCount
    NoDangling
    PipeCounts
    LookupExact
CHECK_DEADLOCK FALSE
