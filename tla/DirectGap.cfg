SPECIFICATION DirectSpec
CONSTANTS
    A1 = A1
    A2 = A2
    D = D
    E = E
    FF = FF
    NoAlgo = NoAlgo
    Byte = {FF, D, E}
    Algos = {A1, A2}
    MaxAddr = 6
    VerifyChunk = 2
    EraseReset = TRUE
    Sectors <- GapSectors
    Regions <- GapRegions
    PageSize <- Pages
    HasVerify <- Verifiers
    Covers <- GapCovers
    Contents <- SomeImages
    Pieces <- SomePieces
INVARIANTS
    DirectTypeOK
    ProgramIsVerified
    EraseIsComplete
    InStep
PROPERTIES
    PrimitivesReturn
