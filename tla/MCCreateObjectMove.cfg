\* The unpacker may also be moved while containers are open.
CONSTANTS
    Streams <- MCStreams
    OwnStreams <- MCOwnStreams
    SIZE_MAX = 16777215  UINT32_MAX = 16777215
    STR = 2  BIN = 2  EXT = 9  ARRAY = 3  MAP = 2  DEPTH = 3
    MoveOpen = TRUE
SPECIFICATION Create_Spec
INVARIANTS ObjectWhole
CHECK_DEADLOCK FALSE
