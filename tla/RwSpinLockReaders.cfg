SPECIFICATION RwSpec
CONSTANTS
    Readers = {r1, r2}
    Writers = {w1}
    WriterFlag = 4
INVARIANTS ExclusiveWriter
