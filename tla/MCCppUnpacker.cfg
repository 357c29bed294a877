\* An unpacker that is moved between two places, with blocks of at least 2 bytes.
SPECIFICATION Spec
SYMMETRY Symmetry
CONSTANTS
    Object = {pac, pac_in}
    Buf = {b1, b2, b3}
    Zone = {z1, z2}
    NULL = NULL
    Garbage = Garbage
    COUNTER = 1
    INITIAL = 2
    Word = 32
    Request = {3}
    MaxBytes = 2
    MaxFinalizers = 2
    MoveFreely = FALSE
INVARIANTS
    ObjectsIntact
    BlocksCounted
    BufferExact
PROPERTY RefinesObjectStream
CHECK_DEADLOCK FALSE
