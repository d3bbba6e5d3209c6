SPECIFICATION Spec
CONSTANTS
    Hart = {0, 1, 2}
    NumEntries = 1
    PageSize = 2
    ULong = 8
    Asid = {0, 1}
    Requests <- Distinct
    Masks <- ZeroOne
    Events = {"smode"}
    MaxCalls = 1
    MaxStops = 0
INVARIANTS
    TypeOK
    FenceDone
    NoLostFence
PROPERTIES
    FenceReturns
    SmodeArrives
