SPECIFICATION FairSpec
CONSTANTS
    Reader = {r1}
    Writer = {w1, w2}
    Size = 2
    MaxRequest = 3
    MaxBytes = 3
    Free = Free
INVARIANTS
    TypeOK
    Conserved
    WriterOrder
PROPERTIES
    ImplementsByteStream
    ReadProgress
    WriteProgress
