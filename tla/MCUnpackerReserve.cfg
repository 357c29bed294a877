SPECIFICATION UnboundedSpec
CONSTANTS
    Buf = {b1, b2}
    Zone = {z1}
    NULL = NULL
    Garbage = Garbage
    COUNTER = 1
    INITIAL = 4
    Word = 32
    Request = {1, 31}
    MaxBytes = 2
    MaxRefs = 1
INVARIANT GrantKept
CHECK_DEADLOCK FALSE
