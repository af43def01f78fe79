SPECIFICATION Spec
CONSTANTS
    Types <- MCTypes
    Sigs <- MCSigs
    MaxIterations = 3
    Skeletons <- AllFunctions
    Fuel = 2
INVARIANTS NoUseAfterMove NoStaleReference Converges
CHECK_DEADLOCK FALSE
