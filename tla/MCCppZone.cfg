\* Chunks of 0 and 4 bytes at even addresses, alignments up to twice that of a block.
SPECIFICATION Spec
SYMMETRY Symmetry
CONSTANTS
    Pool = {z, o}
    NULL = NULL
    HEADER = 2
    ChunkSize = {0, 4}
    Request = {1, 4}
    Align = {1, 4}
    Base = {0, 2}
    MaxChunks = 3
    MaxRegions = 2
    MaxFins = 2
INVARIANTS MemoryOwned DestroyedOnce
CHECK_DEADLOCK FALSE
