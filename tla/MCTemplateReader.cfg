\* Streams of every kind of object, in chunks of every size, with containers
\* nested deeper than the stack allows, and unsigned int of 24 bits.
CONSTANTS
    Streams <- MCStreams
    OnceStreams <- MCOnceStreams
    STACK_SIZE = 3
    UINT = 16777216
SPECIFICATION Once_Spec
INVARIANTS PlaceExact
PROPERTIES RefinesMessageReader Once_OutcomeHonest OffsetExact Once_CallsReturn
CHECK_DEADLOCK FALSE
