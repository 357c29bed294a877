SPECIFICATION Spec
SYMMETRY Symmetry
CONSTANTS
    Buf = {b1, b2, b3}
    Zone = {z1, z2}
    NULL = NULL
    Garbage = Garbage
    COUNTER = 1
    INITIAL = 2
    Word = 32
    Request = {2}
    MaxBytes = 3
    MaxRefs = 1
INVARIANTS
    ObjectsIntact
    BlocksCounted
    BufferExact
    GrantKept
    ZonesOwned
PROPERTY RefinesObjectStream
CHECK_DEADLOCK FALSE
