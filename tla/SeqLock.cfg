SPECIFICATION Spec
CONSTANTS
    Readers = {r1, r2}
    Words = {x, y}
    MaxWrites = 2
INVARIANTS NoTornReadOrdered NeverStale
PROPERTY ReadersGetThrough
