SPECIFICATION Spec
CONSTANTS
    Hart = {0, 1, 2}
    NumEntries = 2
    PageSize = 2
    ULong = 8
    Asid = {0, 1}
    Requests <- Overlapping
    Masks <- HartZero
    Events = {"halt"}
    MaxCalls = 1
    MaxStops = 1
INVARIANTS
    FenceDone
    AckIsMine
    RegularMergesCover
    WaitsInVainOnlyForStopped
