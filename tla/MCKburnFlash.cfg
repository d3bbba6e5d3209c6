SPECIFICATION Spec
CONSTANTS
    PageSz = 2
    EraseSz = 4
    Blocks = 4
    EpBuf = 8
    MaxPacket = 2
    U32 = 32
    U64 = 64
    Offsets <- MCOffsets
    Sizes <- MCSizes
    Blanks <- MCBlanks
INVARIANTS
    TypeOK
    DoneMeansStored
    Confined
    BadNeverProgrammed
    WriteErrorHasACause
PROPERTIES
    DownloadEnds
