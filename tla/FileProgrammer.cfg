SPECIFICATION FairSpec
CONSTANTS
    A1 = A1
    A2 = A2
    D = D
    E = D
    FF = FF
    NoAlgo = NoAlgo
    Unset = Unset
    Garbled = Garbled
    Byte = {FF, D}
    Algos = {A1, A2}
    MaxAddr = 5
    VerifyChunk = 2
    EraseReset = FALSE
    Chunk = 2
    Sectors <- EqualSectors
    Regions <- OneRegion
    PageSize <- Pages
    HasVerify <- Verifiers
    Covers <- OneCovers
    Images <- SomeImages
    Files <- SomeFiles
    Starts <- SomeStarts
    Packets <- SomePackets
INVARIANTS
    FileInv
    HoldsFile
PROPERTIES
    SessionKept
    ProgramReturns
