SPECIFICATION Spec
CONSTANTS
    AsciiStart = 2
    CompactStart = 4
    InitSize = 8
    Sizes <- Doubled
    MaxText = 7
    MaxToken = 3
    MaxSlack = 2
INVARIANTS
    TypeOK
    TextHeld
    ResultIsTheText
    WritesInside
    BufferFreed
PROPERTIES
    FitShrinks
