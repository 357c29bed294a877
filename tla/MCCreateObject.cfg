\* Streams of every kind of object in chunks of every size, and limits that some
\* of them exceed, or a visitor that refuses anything.  The unpacker is moved when no
\* container is open.
CONSTANTS
    Streams <- MCStreams
    OwnStreams <- MCOwnStreams
    SIZE_MAX = 16777215  UINT32_MAX = 16777215
    STR = 2  BIN = 2  EXT = 9  ARRAY = 3  MAP = 2  DEPTH = 3
    MoveOpen = FALSE
SPECIFICATION Create_Spec
INVARIANT StacksAgree
PROPERTIES RefinesVisitorProtocol RefinesMessageReader LimitsExact CallsReturn
CHECK_DEADLOCK FALSE
