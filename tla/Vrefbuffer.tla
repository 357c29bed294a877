----------------------------- MODULE Vrefbuffer -----------------------------
(***************************************************************************)
(* msgpack_vrefbuffer (src/vrefbuffer.c), the buffer that does not copy long  *)
(* strings: an array of vectors, each pointing either at a string of the      *)
(* application or at bytes copied into a chunk of the buffer's own.           *)
(* v1::vrefbuffer (include/msgpack/v1/vrefbuffer.hpp) is the same algorithm,  *)
(* which throws where this one returns -1.                                    *)
(*                                                                           *)
(* A block is a chunk or a string somebody else owns; a vector is a place in  *)
(* a block and a length; mem has the bytes of the chunks that are allocated.  *)
(* The calls that cannot be seen half-way are one action each; migrate, which *)
(* allocates twice and loops, is several.                                     *)
(***************************************************************************)
EXTENDS Integers, Sequences, FiniteSets

CONSTANTS Buffer,
          Chunk,       \* addresses that malloc may return for a chunk
          Temporary,   \* what a packer writes from its stack, [bytes |-> sequence]
          String,      \* what an application has in memory of its own
          Char,
          Garbage,     \* what malloc leaves in a byte never written
          ChunkSize,   \* ChunkSize[v]: the argument chunk_size of init
          RefArgument, \* RefArgument[v]: its argument ref_size; both after the
                       \* C library has put its default for a 0
          PACKER_MAX,  \* MSGPACK_PACKER_MAX_BUFFER_SIZE
          NFIRST,      \* nfirst, the vectors there is room for at first
          MaxVec       \* bound: vectors in all the buffers

VrefbufferConstants ==
    /\ PACKER_MAX \in Nat
    /\ NFIRST \in Nat \ {0}
    /\ MaxVec \in Nat
    /\ ChunkSize \in [Buffer -> Nat]
    /\ RefArgument \in [Buffer -> Nat]
    /\ \A d \in Temporary \cup String : d.bytes \in Seq(Char)
    /\ \A d \in Temporary : Len(d.bytes) <= PACKER_MAX
    /\ Chunk \cap (Temporary \cup String) = {} /\ Temporary \cap String = {}
    /\ Garbage \notin Char

VARIABLES array,   \* array[v]: the vectors, vbuf->array .. vbuf->tail
          end,     \* end[v]: how many there is room for, 0 when v does not exist
          chunks,  \* chunks[v]: the list at inner_buffer.head
          free,    \* inner_buffer.free
          ptr,     \* inner_buffer.ptr: a chunk and the bytes in front of ptr in it
          mem,     \* the bytes of each chunk that is allocated
          call     \* the migrate in progress

vars == <<array, end, chunks, free, ptr, mem, call>>

Data   == Temporary \cup String
NoPtr  == [chunk |-> "none", at |-> 0]
NoCall == [is |-> "none"]
Exists(v) == end[v] # 0

\* iov_base as a block and a place in it, iov_len.
Vector == [block : Chunk \cup Data, at : Nat, len : Nat]

TypeOK ==
    /\ array \in [Buffer -> Seq(Vector)]
    /\ end \in [Buffer -> Nat]
    /\ chunks \in [Buffer -> Seq(Chunk)]
    /\ free \in [Buffer -> Nat]
    /\ DOMAIN ptr = Buffer
    /\ \A v \in Buffer : \/ ptr[v] = NoPtr /\ ~Exists(v)
                         \/ ptr[v] \in [chunk : Chunk, at : Nat] /\ Exists(v)
    /\ DOMAIN mem \subseteq Chunk
    /\ \A c \in DOMAIN mem : mem[c] \in Seq(Char \cup {Garbage})
    /\ \/ call = NoCall
       \/ call \in [is : {"grow", "realloc", "link"}, from : Buffer, to : Buffer,
                    empty : Chunk, nnext : Nat]

Init ==
    /\ array = [v \in Buffer |-> << >>]
    /\ end = [v \in Buffer |-> 0]
    /\ chunks = [v \in Buffer |-> << >>]
    /\ free = [v \in Buffer |-> 0]
    /\ ptr = [v \in Buffer |-> NoPtr]
    /\ mem = << >>
    /\ call = NoCall
-----------------------------------------------------------------------------
\* Memory.

Unallocated == Chunk \ DOMAIN mem
Malloc(c, size) ==
    [b \in DOMAIN mem \cup {c} |-> IF b = c THEN [i \in 1 .. size |-> Garbage] ELSE mem[b]]
Without(cs) == [c \in DOMAIN mem \ cs |-> mem[c]]
Memcpy(m, p, bytes) ==
    [m EXCEPT ![p.chunk] = [i \in DOMAIN @ |->
        IF i \in p.at + 1 .. p.at + Len(bytes) THEN bytes[i - p.at] ELSE @[i]]]
Elements(s) == {s[i] : i \in DOMAIN s}
AtStart(c) == [chunk |-> c, at |-> 0]

\* (mutant) init without the lower bound on ref_size
RefSizeAsGiven(v) == RefArgument[v]

\* vbuf->ref_size: a packer writes headers from its stack, so what is as short as
\* the longest of them is never referred to.
ref_size(v) == IF RefArgument[v] > PACKER_MAX + 1 THEN RefArgument[v] ELSE PACKER_MAX + 1

\* msgpack_vrefbuffer_init.  When either malloc fails nothing is left behind.
New(v) ==
    /\ call = NoCall /\ ~Exists(v)
    /\ \E c \in Unallocated :
          /\ mem' = Malloc(c, ChunkSize[v])
          /\ chunks' = [chunks EXCEPT ![v] = <<c>>]
          /\ ptr' = [ptr EXCEPT ![v] = AtStart(c)]
    /\ free' = [free EXCEPT ![v] = ChunkSize[v]]
    /\ end' = [end EXCEPT ![v] = NFIRST]
    /\ UNCHANGED <<array, call>>

Destroy(v) ==
    /\ call = NoCall /\ Exists(v)
    /\ mem' = Without(Elements(chunks[v]))
    /\ chunks' = [chunks EXCEPT ![v] = << >>]
    /\ array' = [array EXCEPT ![v] = << >>]
    /\ end' = [end EXCEPT ![v] = 0]
    /\ ptr' = [ptr EXCEPT ![v] = NoPtr]
    /\ free' = [free EXCEPT ![v] = 0]
    /\ UNCHANGED call

\* Keeps the newest chunk and takes it to have chunk_size bytes.
Clear(v) ==
    LET head == chunks[v][1]
    IN  /\ call = NoCall /\ Exists(v)
        /\ mem' = Without(Elements(chunks[v]) \ {head})
        /\ chunks' = [chunks EXCEPT ![v] = <<head>>]
        /\ ptr' = [ptr EXCEPT ![v] = AtStart(head)]
        /\ free' = [free EXCEPT ![v] = ChunkSize[v]]
        /\ array' = [array EXCEPT ![v] = << >>]
        /\ UNCHANGED <<end, call>>
-----------------------------------------------------------------------------
\* The end of msgpack_vrefbuffer_append_ref, and its two outcomes when the array
\* is full: realloc doubles it, or -1.
HasSlot(v) == Len(array[v]) < end[v]

PutVector(v, iov) ==
    /\ Cardinality(UNION {{w} \X DOMAIN array[w] : w \in Buffer}) < MaxVec
    /\ array' = [array EXCEPT ![v] = Append(@, iov)]
    /\ IF HasSlot(v) THEN UNCHANGED end
                     ELSE end' = [end EXCEPT ![v] = Len(array[v]) * 2]

Append_Ref(v, d) ==
    /\ call = NoCall /\ Exists(v)
    /\ PutVector(v, [block |-> d, at |-> 0, len |-> Len(d.bytes)])
    /\ UNCHANGED <<chunks, free, ptr, mem, call>>

\* (mutant) the new chunk has chunk_size bytes, whatever the string needs
NewSizeFixed(v, len) == ChunkSize[v]

\* Where append_copy puts len bytes: at ptr, or at the start of a new chunk.
NewSize(v, len) == IF ChunkSize[v] < len THEN len ELSE ChunkSize[v]
Fits(v, len) == len <= free[v]

\* (mutant) the chunk list begins anew with each chunk
PlaceForgetsChunks(v, len) ==
    IF Fits(v, len)
    THEN {[p |-> ptr[v], room |-> free[v], m |-> mem, list |-> chunks[v]]}
    ELSE {[p |-> AtStart(c), room |-> NewSize(v, len), m |-> Malloc(c, NewSize(v, len)),
           list |-> <<c>>] : c \in Unallocated}

Place(v, len) ==
    IF Fits(v, len)
    THEN {[p |-> ptr[v], room |-> free[v], m |-> mem, list |-> chunks[v]]}
    ELSE {[p |-> AtStart(c), room |-> NewSize(v, len), m |-> Malloc(c, NewSize(v, len)),
           list |-> <<c>> \o chunks[v]] : c \in Unallocated}

TakeRoom(v, place, bytes) ==
    /\ mem' = Memcpy(place.m, place.p, bytes)
    /\ ptr' = [ptr EXCEPT ![v] = [chunk |-> place.p.chunk, at |-> place.p.at + Len(bytes)]]
    /\ free' = [free EXCEPT ![v] = place.room - Len(bytes)]
    /\ chunks' = [chunks EXCEPT ![v] = place.list]

\* Is p where the last vector ends?
Adjoins(v, p) ==
    /\ array[v] # << >>
    /\ LET last == array[v][Len(array[v])]
       IN  p.chunk = last.block /\ p.at = last.at + last.len

Append_Copy(v, d) ==
    /\ call = NoCall /\ Exists(v)
    /\ \E place \in Place(v, Len(d.bytes)) :
          /\ TakeRoom(v, place, d.bytes)
          /\ \/ /\ Adjoins(v, place.p)
                /\ array' = [array EXCEPT ![v][Len(array[v])].len = @ + Len(d.bytes)]
                /\ UNCHANGED end
             \/ /\ ~Adjoins(v, place.p)
                /\ PutVector(v, [block |-> place.p.chunk, at |-> place.p.at,
                                 len |-> Len(d.bytes)])
    /\ UNCHANGED call

\* The array cannot be enlarged: -1, but the bytes are in the chunk already.
Append_CopyFails(v, d) ==
    /\ call = NoCall /\ Exists(v)
    /\ ~HasSlot(v)
    /\ \E place \in Place(v, Len(d.bytes)) :
          /\ TakeRoom(v, place, d.bytes)
          /\ ~Adjoins(v, place.p)
    /\ UNCHANGED <<array, end, call>>

\* msgpack_vrefbuffer_write, the callback of a packer; Append_CopyFails is also one
\* of its outcomes.
Write(v, d) == IF Len(d.bytes) < ref_size(v) THEN Append_Copy(v, d) ELSE Append_Ref(v, d)
-----------------------------------------------------------------------------
\* msgpack_vrefbuffer_migrate.

\* What a caller has to see to, for the code does not.  Whether the array of the target
\* is enlarged depends on less, the outcome of comparing a place in it with the end of
\* the other array: it may only be false where the vectors fit.  And clear will take
\* the newest chunk, which comes from v, to have the target's chunk_size.
CanMigrate(v, to, less) ==
    /\ less \/ Len(array[to]) + Len(array[v]) <= end[to]
    /\ ChunkSize[to] <= ChunkSize[v]

Migrate(v, to) ==
    /\ call = NoCall /\ Exists(v) /\ Exists(to) /\ v # to
    /\ \E c \in Unallocated, less \in BOOLEAN :
          /\ CanMigrate(v, to, less)
          /\ less => end[to] * 2 <= MaxVec + 1
          /\ mem' = Malloc(c, ChunkSize[v])
          /\ call' = [is |-> IF less THEN "grow" ELSE "link",
                      from |-> v, to |-> to, empty |-> c, nnext |-> end[to] * 2]
    /\ UNCHANGED <<array, end, chunks, free, ptr>>

\* (mutant) the loop asks for the room of the vectors that come, not of all
GrowForNew ==
    /\ call.is = "grow"
    /\ call' = IF call.nnext < Len(array[call.from])
               THEN [call EXCEPT !.nnext = @ * 2]
               ELSE [call EXCEPT !.is = "realloc"]
    /\ UNCHANGED <<array, end, chunks, free, ptr, mem>>

\* The while loop, without its test for wrap-around: both arrays are in memory.
Grow ==
    /\ call.is = "grow"
    /\ call' = IF call.nnext < Len(array[call.from]) + Len(array[call.to])
               THEN [call EXCEPT !.nnext = @ * 2]
               ELSE [call EXCEPT !.is = "realloc"]
    /\ UNCHANGED <<array, end, chunks, free, ptr, mem>>

Realloc ==
    /\ call.is = "realloc"
    /\ end' = [end EXCEPT ![call.to] = call.nnext]
    /\ call' = [call EXCEPT !.is = "link"]
    /\ UNCHANGED <<array, chunks, free, ptr, mem>>

\* (mutant) the chunk allocated first is not freed
ReallocLeaks ==
    /\ call.is = "realloc"
    /\ call' = NoCall
    /\ UNCHANGED <<array, end, chunks, free, ptr, mem>>

ReallocFails ==
    /\ call.is = "realloc"
    /\ mem' = Without({call.empty})
    /\ call' = NoCall
    /\ UNCHANGED <<array, end, chunks, free, ptr>>

\* (mutant) the target takes the room but keeps its place
LinkRoomOnly ==
    LET v == call.from  to == call.to
        larger == free[to] < free[v]
    IN  /\ call.is = "link"
        /\ array' = [array EXCEPT ![to] = @ \o array[v], ![v] = << >>]
        /\ chunks' = [chunks EXCEPT ![to] = chunks[v] \o chunks[to], ![v] = <<call.empty>>]
        /\ free' = [free EXCEPT ![to] = IF larger THEN free[v] ELSE @, ![v] = ChunkSize[v]]
        /\ ptr' = [ptr EXCEPT ![v] = AtStart(call.empty)]
        /\ call' = NoCall
        /\ UNCHANGED <<end, mem>>

\* (mutant) v goes on filling the chunk it gave away
LinkKeepsPlace ==
    LET v == call.from  to == call.to
        larger == free[to] < free[v]
    IN  /\ call.is = "link"
        /\ array' = [array EXCEPT ![to] = @ \o array[v], ![v] = << >>]
        /\ chunks' = [chunks EXCEPT ![to] = chunks[v] \o chunks[to], ![v] = <<call.empty>>]
        /\ free' = [free EXCEPT ![to] = IF larger THEN free[v] ELSE @]
        /\ ptr' = [ptr EXCEPT ![to] = IF larger THEN ptr[v] ELSE @]
        /\ call' = NoCall
        /\ UNCHANGED <<end, mem>>

\* (mutant) the vectors are copied but stay in v
LinkKeepsVectors ==
    LET v == call.from  to == call.to
        larger == free[to] < free[v]
    IN  /\ call.is = "link"
        /\ array' = [array EXCEPT ![to] = @ \o array[v]]
        /\ chunks' = [chunks EXCEPT ![to] = chunks[v] \o chunks[to], ![v] = <<call.empty>>]
        /\ free' = [free EXCEPT ![to] = IF larger THEN free[v] ELSE @, ![v] = ChunkSize[v]]
        /\ ptr' = [ptr EXCEPT ![to] = IF larger THEN ptr[v] ELSE @,
                              ![v] = AtStart(call.empty)]
        /\ call' = NoCall
        /\ UNCHANGED <<end, mem>>

\* The vectors and the chunks change hands, v's in front, and the larger room is kept.
Link ==
    LET v == call.from  to == call.to
        larger == free[to] < free[v]
    IN  /\ call.is = "link"
        /\ array' = [array EXCEPT ![to] = @ \o array[v], ![v] = << >>]
        /\ chunks' = [chunks EXCEPT ![to] = chunks[v] \o chunks[to], ![v] = <<call.empty>>]
        /\ free' = [free EXCEPT ![to] = IF larger THEN free[v] ELSE @, ![v] = ChunkSize[v]]
        /\ ptr' = [ptr EXCEPT ![to] = IF larger THEN ptr[v] ELSE @,
                              ![v] = AtStart(call.empty)]
        /\ call' = NoCall
        /\ UNCHANGED <<end, mem>>
-----------------------------------------------------------------------------
\* A packer writes anything through write; an application also calls append_copy and
\* append_ref, the latter with strings of its own.
Next ==
    \/ \E v \in Buffer : \/ New(v) \/ Destroy(v) \/ Clear(v)
                         \/ \E d \in Data : Write(v, d) \/ Append_Copy(v, d) \/ Append_CopyFails(v, d)
                         \/ \E d \in String : Append_Ref(v, d)
                         \/ \E to \in Buffer : Migrate(v, to)
    \/ Grow \/ Realloc \/ ReallocFails \/ Link

Spec == Init /\ [][Next]_vars
-----------------------------------------------------------------------------
\* The room of a buffer is room in the chunk ptr points into, and the buffer has that
\* chunk: append_copy writes inside allocated memory.
RoomInChunk ==
    \A v \in Buffer : Exists(v) =>
        /\ ptr[v].chunk \in Elements(chunks[v])
        /\ ptr[v].at + free[v] <= Len(mem[ptr[v].chunk])

\* No vector of any buffer sees the bytes that the next append_copy to any buffer will
\* write: what was written is never overwritten, also when rooms have changed hands.
RoomUnseen ==
    \A v, w \in Buffer : Exists(v) =>
        \A i \in DOMAIN array[w] :
            LET iov == array[w][i]
            IN  iov.block = ptr[v].chunk =>
                    iov.at + iov.len <= ptr[v].at \/ ptr[v].at + free[v] <= iov.at

\* A vector points into a chunk that the buffer listing it has, so that clearing or
\* destroying the buffer it was written to does not pull the bytes from under it.
VectorsHeld ==
    \A v \in Buffer : \A i \in DOMAIN array[v] :
        array[v][i].block \in Elements(chunks[v]) \cup Data

\* A chunk is in one list once, or is the one migrate has just allocated; every other
\* chunk is free: nothing is freed twice and nothing leaks, whichever call fails where.
HeldOnce ==
    LET inHand == IF call = NoCall THEN {} ELSE {call.empty}
    IN  /\ DOMAIN mem = (UNION {Elements(chunks[v]) : v \in Buffer}) \cup inHand
        /\ \A v \in Buffer : \A i, j \in DOMAIN chunks[v] :
              chunks[v][i] = chunks[v][j] => i = j
        /\ \A v, w \in Buffer : v # w => Elements(chunks[v]) \cap Elements(chunks[w]) = {}
        /\ \A v \in Buffer : Elements(chunks[v]) \cap inHand = {}

\* The bytes in the block that a vector points into, and those of them that it shows.
Block(m, iov) == IF iov.block \in Data THEN iov.block.bytes ELSE m[iov.block]
Bytes(m, iov) == SubSeq(Block(m, iov), iov.at + 1, iov.at + iov.len)

\* A vector ends where its block does at the latest, also when appends have lengthened it.
VectorsInside ==
    \A v \in Buffer : \A i \in DOMAIN array[v] :
        array[v][i].at + array[v][i].len <= Len(Block(mem, array[v][i]))

\* The array has room for the vectors in it (vbuf->tail <= vbuf->end).
VectorsFit == \A v \in Buffer : Len(array[v]) <= end[v]

\* What a packer wrote from its stack is copied, never referred to.
NoTemporary ==
    \A v \in Buffer : \A i \in DOMAIN array[v] : array[v][i].block \notin Temporary

\* Every byte a buffer may write to or spells is its own, allocated and seen by nobody
\* else who writes.
MemoryOwned ==
    /\ TypeOK /\ RoomInChunk /\ RoomUnseen /\ VectorsHeld /\ VectorsInside
    /\ HeldOnce /\ VectorsFit /\ NoTemporary

\* What a list of vectors spells, and what each buffer holds thereby.
Spell(m, s) ==
    LET upTo[i \in 0 .. Len(s)] == IF i = 0 THEN << >> ELSE upTo[i - 1] \o Bytes(m, s[i])
    IN  upTo[Len(s)]
Content == [v \in Buffer |-> Spell(mem, array[v])]

Vectors == INSTANCE ByteVectors WITH content <- Content, Text <- {d.bytes : d \in Data}

\* The vectors of each buffer spell the bytes written to it, in order and whole, through
\* failing calls, merged copies, migrations and the destruction of other buffers.
RefinesByteVectors == Vectors!Spec
=============================================================================
