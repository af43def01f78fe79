SPECIFICATION Spec
CONSTANTS
    ByteBits = 2
    IntBits = 4
    WideBits = 6
    MaxEvents = 8
    Programs = {"RangeBound"}
    Literals = {0, 1, 2, 3}
    Inputs <- InputRange
    Levels = {0, 1, 2}
    Modes = {"Auto", "Strict"}
INVARIANT SameBehaviour
CHECK_DEADLOCK FALSE
