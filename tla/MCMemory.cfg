SPECIFICATION Spec
CONSTANTS
    Proc = {init, p1, p2}
    InitProc = init
    NumFrames = 44
    PAGE = 2
    Region = 16
    Pointer = 1
    EntrySize = 2
    Loaders <- SmallLoaders
    RunOn <- RunSmall
    Trampoline = 1
    Levels = 3
    Span = 2
    Image <- SmallImage
    ArgSize = 1
    Ends = {5, 11, 13, 15}
    Touched = {7}
    MaxHeap = 1
    MaxForks = 2
    Null = Null
SYMMETRY Interchangeable
INVARIANTS
    TypeOK
    OneUse
    NoLeak
    AreasMapped
    Private
CHECK_DEADLOCK FALSE
