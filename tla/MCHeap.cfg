SPECIFICATION Spec
CONSTANTS
    Cpu = {c1}
    HDR = 2
    PAGE = 4
    MaxSize = 3
    MaxHeap = 16
INVARIANTS
    TypeOK
    Tiled
    BlocksAreChunks
    Backed
