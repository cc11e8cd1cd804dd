SPECIFICATION Spec
CONSTANTS
    A1 = A1
    A2 = A2
    D = D
    E = D
    FF = FF
    NoAlgo = NoAlgo
    Unset = Unset
    Garbled = Garbled
    Byte = {FF, D}
    Algos = {A1, A2}
    MaxAddr = 3
    VerifyChunk = 2
    EraseReset = FALSE
    MaxWritten = 3
    MaxMixed = 1
    Sectors <- EqualSectors
    Regions <- OneRegion
    PageSize <- Pages
    HasVerify <- Verifiers
    Covers <- OneCovers
    Images <- ErasedOnly
    Starts <- SomeStarts
    Pieces <- SomePieces
INVARIANTS
    StreamInv
    FailedWriteCloses
    CleanCloses
