SPECIFICATION Spec
CONSTANTS
    Hart = {h1, h2}
    TicketMod = 3
    pageA = pageA
    pageB = pageB
    both = both
    Entry <- MCEntry
    Zero = Zero
    NumEntries = 2
    Fptr <- MCFptr
INVARIANTS
    FifoTypeOK
PROPERTIES
    IsBoundedQueue
