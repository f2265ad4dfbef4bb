SPECIFICATION FairSpec
CONSTANTS
    BlockSize = 2
    NumBlocks = 3
    MaxRequest = 4
    Values = 2
    Retries = 2
    LBA = 4
    Junk = Junk
INVARIANTS
    TypeOK
    WriteExact
    ReadExact
PROPERTIES
    CallReturns
