SPECIFICATION Spec
CONSTANTS
    Readers = {r1}
    Words = {x, y}
    MaxWrites = 2
INVARIANT NoTornRead
