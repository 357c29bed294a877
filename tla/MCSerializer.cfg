\* The packer in memory, into a file and on boundary numbers; two vrefbuffers on three
\* chunks with three vectors; a zbuffer with blocks of up to twice what uInt can count;
\* objects nested three deep; a variable of each of 29 C++ types, with integers of four
\* and five bits and a second of four clock periods.
SPECIFICATION Serializer_Spec
CONSTANTS
    Session <- MCSession
    Call <- MCCall
    MaxCalls <- MCMaxCalls
    MayRefuse <- MCMayRefuse
    FileBuffer <- MCFileBuffer
    Depth = 4
    b1 = b1
    b2 = b2
    Buffer <- MCBuffer
    Chunk = {c1, c2, c3}
    Temporary <- MCTemporary
    String <- MCString
    Char = {"a", "b"}
    Garbage = "garbage"
    ChunkSize <- MCChunkSize
    RefArgument <- MCRefArgument
    PACKER_MAX = 1
    NFIRST = 1
    MaxVec = 3
    Text <- MCText
    Octet = {"a", "b"}
    INIT_SIZE = 1
    RESERVE = 2
    UInt = 8
    Mark = {"head", "tail"}
    HeadOf <- MCHead
    TailOf <- MCTail
    MaxBlock = 16
    MaxBytes = 5
    Leaf <- MCLeaf
    NaN <- MCNaN
    Visited <- MCVisited
    Compared <- MCCompared
    SizeOf = 3
    CppType <- MCType
    Message <- MCMessage
    CppInteger <- MCNumber
    Clock <- MCCount
    MaxItems = 2
    PERIOD = 4
    Unset = Unset
SYMMETRY Symmetry
INVARIANTS
    StreamWhole
    NumbersExact
    MemoryOwned
    StreamExact
    RoomHonest
    VisitsExact
    ConversionsExact
    HeldKept
PROPERTIES
    RefinesByteVectors
    RefinesVisitorProtocol
CHECK_DEADLOCK FALSE
