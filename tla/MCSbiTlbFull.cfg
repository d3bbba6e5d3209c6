SPECIFICATION FullSpec
CONSTANTS
    Hart = {0, 1, 2, 3}
    NumEntries = 1
    PageSize = 2
    ULong = 8
    Asid = {0}
    Requests <- Distinct
    Masks <- ZeroAndOne
    Events = {}
    MaxCalls = 1
    MaxStops = 0
PROPERTIES
    FenceReturns
