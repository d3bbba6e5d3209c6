SPECIFICATION Spec
CONSTANTS
    Hart = {0, 1, 2}
    NumEntries = 2
    PageSize = 2
    ULong = 8
    Asid = {0, 1}
    Requests <- Bottom
    Masks <- HartZero
    Events = {}
    MaxCalls = 1
    MaxStops = 0
INVARIANTS
    EntryCoversRequest
