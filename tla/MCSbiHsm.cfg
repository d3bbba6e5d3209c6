SPECIFICATION Spec
CONSTANTS
    Hart = {0, 1}
    Addr = {"a", "b"}
    FwNext = "fw"
    MaxOps = 2
INVARIANTS
    TypeOK
    NeverHangs
    ColdBootFirst
    WrongAddressOnlyByLateStart
    SsipKept
PROPERTIES
    LegalTransitions
    ColdWaitEnds
    StartCompletes
    IpiReachesSuspended
