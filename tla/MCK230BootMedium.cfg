SPECIFICATION Spec
CONSTANTS
    Image <- MCImage
    Blank <- MCBlank
    Card <- MCCard
    Low <- MCLow
    NoCard = NoCard
    Strap = "sdio1"
    Forced = "none"
INVARIANTS
    UsesRequestedMedium
