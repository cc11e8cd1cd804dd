SPECIFICATION FairSpec
CONSTANTS
    A = A
    B = B
    C = C
    RecordBytes = 2
    Low = 4
    MaxChunk = 54
    Files <- SomeFiles
INVARIANTS
    Decoded
    HexInv
PROPERTIES
    WriteReturns
