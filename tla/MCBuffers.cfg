\* An sbuffer with a size_t of three bits; an unpacker with two blocks and two zones, asked
\* for more room than its first block has, or than two doublings of it.
SPECIFICATION Buffers_Spec
CONSTANTS
    Char = {"a", "b"}
    Chunk <- MCChunk
    Word = 8
    INIT_SIZE = 2
    InitialAlloc = 0
    Garbage = Garbage
    Buf = {b1, b2}
    Zone = {z1, z2}
    NULL = NULL
    COUNTER = 1
    INITIAL = 2
    Word2 = 16
    Request = {9}
    MaxBytes = 2
    MaxRefs = 1
INVARIANTS
    CopyExact
PROPERTIES
    WriteReturns
    RefinesByteSink
    CallsReturn
CHECK_DEADLOCK FALSE
