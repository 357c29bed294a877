\* Chunks of 0 and 4 bytes, requests below, at and far above that, and more
\* finalizers than the first array has room for.
CONSTANTS
    Word = 64
    HEADER = 2
    ALIGN = 2
    ChunkSize = {0, 4}
    Request = {0, 1, 3, 5}
    FIRST = 1
    MaxFins = 3
    MaxRegions = 3
SPECIFICATION Spec
INVARIANTS HandedOutOnce FinalizersExact
PROPERTIES CallsReturn RefinesArena
CHECK_DEADLOCK FALSE
