SPECIFICATION RuntimeSpec
CONSTANTS
    Handles = {h1, h2, h3, h4, h5, h6, h7}
    Values = {"v", "w"}
    Keys <- FiveKeys
    Hash <- Homes
    InitialSlots = 4
    MaxCap = 8
    SizeMax = 31
    InitialCap = 2
    OverAligned = FALSE
    CodePoints <- BoundaryCodePoints
    Bytes <- BoundaryBytes
    MaxBytes = 4
INVARIANTS NoUseAfterFree NoLeak TableSound VecSafe DecodesExactly
PROPERTY ImplementsMap
CHECK_DEADLOCK FALSE
