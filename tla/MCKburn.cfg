SPECIFICATION FairSpec
CONSTANTS
    U32 = 8
    U64 = 16
    BlkSz = 2
    Lba = 5
    EraseGrp = 2
    Devices = 2
    ParentSeq <- MCParentSeq
    EpBuf = 4
    MaxPacket = 2
    MaxStream = 8
    Offsets <- MCOffsets
    Sizes <- MCSizes
INVARIANTS
    TypeOK
    DoneMeansStored
    Confined
    StreamInStep
    DeafOnlyAfterWriteError
    InformedWindow
PROPERTIES
    DownloadEnds
