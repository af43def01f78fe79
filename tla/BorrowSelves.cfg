SPECIFICATION Spec
CONSTANTS
    Types <- MCTypes
    Sigs <- MCSigs
    MaxIterations = 6
    Skeletons <- Selves
    Fuel = 2
INVARIANT NoStaleReference
CHECK_DEADLOCK FALSE
