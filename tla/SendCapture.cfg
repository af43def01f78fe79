SPECIFICATION Spec
CONSTANTS
    Structs <- Library
    Programs <- Captured
    MaxDepth = 64
INVARIANT OnlySendCrosses
CHECK_DEADLOCK FALSE
