SPECIFICATION Spec
CONSTANTS
    A1 = A1
    A2 = A2
    D = D
    E = E
    FF = FF
    NoAlgo = NoAlgo
    Unset = Unset
    Byte = {FF, D, E}
    Algos = {A1, A2}
    MaxAddr = 9
    VerifyChunk = 2
    EraseReset = FALSE
    Sectors <- MixedSectors
    Regions <- MixedRegions
    PageSize <- Pages
    HasVerify <- Verifiers
    Covers <- MixedCovers
    Images <- UsedImages
    Packets <- MixedPackets
INVARIANTS
    TypeOK
    ErasedBeforeProgram
    SyscallReady
    CopyInsideBlock
PROPERTIES
    ImplementsSession
    CallsReturn
