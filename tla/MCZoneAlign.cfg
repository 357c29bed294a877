\* A pointer of 1 unit and an alignment of 2, as on a 32-bit sparc (4 and 8 bytes).
CONSTANTS
    Word = 64
    HEADER = 1
    ALIGN = 2
    ChunkSize = {4}
    Request = {0, 1, 3, 5}
    FIRST = 1
    MaxFins = 2
    MaxRegions = 3
SPECIFICATION Spec
INVARIANTS InData
CHECK_DEADLOCK FALSE
