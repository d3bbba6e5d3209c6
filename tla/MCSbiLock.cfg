SPECIFICATION LockSpec
CONSTANTS
    Hart = {h1, h2, h3}
    TicketMod = 4
INVARIANTS
    LockTypeOK
    MutualExclusion
PROPERTIES
    ServesInOrder
    SpinEnds
