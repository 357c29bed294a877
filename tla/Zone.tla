-------------------------------- MODULE Zone --------------------------------
(***************************************************************************)
(* The memory pool msgpack_zone (src/zone.c, zone.h): a list of chunks from   *)
(* whose newest memory is cut off at ptr, and an array of finalizers.         *)
(*                                                                           *)
(* A chunk is a block of malloc with a next pointer of HEADER bytes in front; *)
(* places in a chunk are counted from the start of its block, which malloc    *)
(* aligns for any use.  The chunks are numbered in the order in which they    *)
(* were made: the head of the list is the last.  A finalizer is known by its  *)
(* number in the order of the pushes.                                         *)
(***************************************************************************)
EXTENDS Integers, Sequences, FiniteSets

CONSTANTS
    Word,        \* the number of values of a size_t
    HEADER,      \* sizeof(msgpack_zone_chunk)
    ALIGN,       \* MSGPACK_ZONE_ALIGN
    ChunkSize,   \* the sizes passed to msgpack_zone_init
    Request,     \* the sizes passed to msgpack_zone_malloc
    FIRST,       \* the room of the first finalizer array
    MaxFins,     \* bound: finalizers that are pushed
    MaxRegions   \* bound: regions handed out between two clears

Size == 0 .. Word - 1

\* The sizes of blocks can be counted in a size_t, and no request is for half of
\* the address space or more.
ASSUME ZoneConstants ==
    /\ Word \in Nat \ {0} /\ HEADER \in Nat \ {0} /\ ALIGN \in Nat \ {0}
    /\ ChunkSize \subseteq Nat
    /\ \A c \in ChunkSize : HEADER + c < Word
    /\ Request \subseteq Nat
    /\ \A n \in Request : HEADER + 2 * (n + ALIGN - 1) < Word
    /\ FIRST \in Nat \ {0}
    /\ MaxFins \in Nat /\ MaxRegions \in Nat

VARIABLES
    chunk_size,      \* zone->chunk_size
    chunks,          \* of each chunk in the list, the size of its block
    free, ptr,       \* of chunk_list: the room in the newest chunk, where it begins
    array, tail,     \* of finalizer_array: its slots, how many are in use
    fin,             \* call_finalizer_array: how many are still to be called
    pc,              \* where the call in progress is
    want, size, sz,  \* what is to be allocated, malloc_expand: its argument, sz
    given,           \* (history) the regions handed out since the last clear
    pushed, called   \* (history) how many finalizers were pushed; those called

list  == <<chunks, free, ptr, given>>
fa    == <<array, tail, pushed>>
loop  == <<fin, called>>
local == <<want, size, sz>>
vars  == <<chunk_size, chunks, free, ptr, array, tail, fin, pc, want, size, sz,
           given, pushed, called>>

head == Len(chunks)
Wrap(n) == n % Word
Region == [chunk : Nat, at : Nat, size : Nat]

\* What msgpack_zone_malloc_no_align and msgpack_zone_malloc ask for.
Want == [size : Request, aligned : BOOLEAN]
Nothing == [size |-> 0, aligned |-> FALSE]

TypeOK ==
    /\ chunk_size \in ChunkSize
    /\ chunks \in Seq(Size)
    /\ free \in Size /\ ptr \in Size
    /\ array \in Seq(0 .. MaxFins)
    /\ tail \in 0 .. Len(array)
    /\ fin \in 0 .. tail
    /\ pc \in {"idle", "grow", "expand", "clear", "destroy", "gone"}
    /\ want \in Want \cup {Nothing}
    /\ size \in Size /\ sz \in Size
    /\ \A r \in given : r \in Region
    /\ pushed \in 0 .. MaxFins
    /\ called \in Seq(0 .. MaxFins)

\* msgpack_zone_init
Init ==
    /\ chunk_size \in ChunkSize
    /\ chunks = <<HEADER + chunk_size>>
    /\ free = chunk_size
    /\ ptr = HEADER
    /\ array = << >> /\ tail = 0
    /\ fin = 0
    /\ pc = "idle"
    /\ want = Nothing /\ size = 0 /\ sz = 0
    /\ given = {}
    /\ pushed = 0 /\ called = << >>
-----------------------------------------------------------------------------
(* Allocation *)

CanGive == Cardinality(given) < MaxRegions

\* The region of n bytes at p in chunk c is the caller's.
Give(c, p, n) == given' = given \cup {[chunk |-> c, at |-> p, size |-> n]}

\* malloc_expand is to make a chunk for n bytes.
Enlarge(w, n) ==
    /\ want' = w
    /\ size' = n
    /\ sz' = chunk_size
    /\ pc' = "grow"
    /\ UNCHANGED list

\* n bytes are cut off the newest chunk, of which the last ones, from p on, are
\* handed out.
CutOff(n, p, w) ==
    /\ free' = free - n
    /\ ptr' = Wrap(ptr + n)
    /\ Give(head, p, w.size)
    /\ UNCHANGED <<chunks, pc, local>>

\* (mutant) rounds down, as msgpack_zone_malloc does with a fresh chunk
AlignUpDown(p) == (p \div ALIGN) * ALIGN

AlignUp(p) == ((p + ALIGN - 1) \div ALIGN) * ALIGN
AlignDown(p) == (p \div ALIGN) * ALIGN

\* msgpack_zone_malloc_no_align(zone, n)
Malloc_NoAlign(n) ==
    LET w == [size |-> n, aligned |-> FALSE] IN
    /\ pc = "idle" /\ CanGive
    /\ IF free < n THEN Enlarge(w, n) ELSE CutOff(n, ptr, w)
    /\ UNCHANGED <<chunk_size, fa, loop>>

\* (mutant) the padding is taken from the chunk but not tested for
MallocForgetsPadding(n) ==
    LET w == [size |-> n, aligned |-> TRUE] IN
    /\ pc = "idle" /\ CanGive
    /\ IF free >= n THEN CutOff(n + (AlignUp(ptr) - ptr), AlignUp(ptr), w)
                    ELSE Enlarge(w, Wrap(n + (ALIGN - 1)))
    /\ UNCHANGED <<chunk_size, fa, loop>>

\* msgpack_zone_malloc(zone, n)
Malloc(n) ==
    LET w == [size |-> n, aligned |-> TRUE]
        adjusted_size == Wrap(n + (AlignUp(ptr) - ptr))
    IN
    /\ pc = "idle" /\ CanGive
    /\ IF free >= adjusted_size THEN CutOff(adjusted_size, AlignUp(ptr), w)
                                ELSE Enlarge(w, Wrap(n + (ALIGN - 1)))
    /\ UNCHANGED <<chunk_size, fa, loop>>

\* (mutant) doubles for ever
GrowForever ==
    /\ pc = "grow"
    /\ \/ sz >= size /\ pc' = "expand" /\ UNCHANGED sz
       \/ sz < size /\ sz' = Wrap(sz * 2) /\ UNCHANGED pc
    /\ UNCHANGED <<chunk_size, list, fa, loop, want, size>>

\* (mutant) leaves the loop with the size reached so far
GrowGivesUp ==
    /\ pc = "grow"
    /\ \/ sz >= size /\ pc' = "expand" /\ UNCHANGED sz
       \/ sz < size /\ Wrap(sz * 2) > sz /\ sz' = Wrap(sz * 2) /\ UNCHANGED pc
       \/ sz < size /\ Wrap(sz * 2) <= sz /\ UNCHANGED sz /\ pc' = "expand"
    /\ UNCHANGED <<chunk_size, list, fa, loop, want, size>>

\* while(sz < size), one iteration.
Grow ==
    /\ pc = "grow"
    /\ \/ sz >= size /\ pc' = "expand" /\ UNCHANGED sz
       \/ sz < size /\ Wrap(sz * 2) > sz /\ sz' = Wrap(sz * 2) /\ UNCHANGED pc
       \/ sz < size /\ Wrap(sz * 2) <= sz /\ sz' = size /\ pc' = "expand"
    /\ UNCHANGED <<chunk_size, list, fa, loop, want, size>>

Return == pc' = "idle" /\ want' = Nothing /\ size' = 0 /\ sz' = 0

\* The new chunk becomes the head of the list.  Its memory begins behind the
\* header; msgpack_zone_malloc aligns what it gets.
Expand ==
    /\ pc = "expand"
    /\ chunks' = Append(chunks, Wrap(HEADER + sz))
    /\ free' = Wrap(sz - size)
    /\ ptr' = Wrap(HEADER + size)
    /\ Give(head + 1, IF want.aligned THEN AlignDown(HEADER) ELSE HEADER, want.size)
    /\ Return
    /\ UNCHANGED <<chunk_size, fa, loop>>

\* malloc returns NULL, and so does the call.
ExpandFails ==
    /\ pc = "expand"
    /\ Return
    /\ UNCHANGED <<chunk_size, list, fa, loop>>
-----------------------------------------------------------------------------
(* Finalizers *)

\* msgpack_zone_push_finalizer, when the array has a slot ...
PushFinalizer ==
    /\ pc = "idle" /\ pushed < MaxFins
    /\ tail < Len(array)
    /\ array' = [array EXCEPT ![tail + 1] = pushed + 1]
    /\ tail' = tail + 1
    /\ pushed' = pushed + 1
    /\ UNCHANGED <<chunk_size, list, loop, pc, local>>

\* ... and when it is full: realloc makes it twice as large, or its first.
PushFinalizer_Expand ==
    /\ pc = "idle" /\ pushed < MaxFins
    /\ tail = Len(array)
    /\ LET nused == Len(array)
           nnext == IF nused = 0 THEN FIRST ELSE nused * 2
       IN  array' = [i \in 1 .. nnext |-> IF i <= nused THEN array[i]
                                          ELSE IF i = nused + 1 THEN pushed + 1 ELSE 0]
    /\ tail' = Len(array) + 1
    /\ pushed' = pushed + 1
    /\ UNCHANGED <<chunk_size, list, loop, pc, local>>

\* msgpack_zone_clear and msgpack_zone_destroy first call the finalizers, from
\* the tail of the array to its start.
Begin(call) ==
    /\ pc = "idle"
    /\ fin' = tail
    /\ pc' = call
    /\ UNCHANGED <<chunk_size, list, fa, called, local>>

\* (mutant) from the start of the array to its tail
CallOldestFirst ==
    /\ pc \in {"clear", "destroy"} /\ fin > 0
    /\ called' = Append(called, array[tail - fin + 1])
    /\ fin' = fin - 1
    /\ UNCHANGED <<chunk_size, list, fa, pc, local>>

CallFinalizer ==
    /\ pc \in {"clear", "destroy"} /\ fin > 0
    /\ called' = Append(called, array[fin])
    /\ fin' = fin - 1
    /\ UNCHANGED <<chunk_size, list, fa, pc, local>>

\* (mutant) the newest chunk's room stays as it was
ClearKeepsRoom ==
    /\ pc = "clear" /\ fin = 0
    /\ tail' = 0
    /\ chunks' = <<chunks[1]>>
    /\ given' = {}
    /\ pc' = "idle"
    /\ UNCHANGED <<chunk_size, free, ptr, array, pushed, loop, local>>

\* (mutant) the finalizers stay in the array
ClearKeepsFinalizers ==
    /\ pc = "clear" /\ fin = 0
    /\ chunks' = <<chunks[1]>>
    /\ free' = chunk_size
    /\ ptr' = HEADER
    /\ given' = {}
    /\ pc' = "idle"
    /\ UNCHANGED <<chunk_size, fa, loop, local>>

\* Then clear empties the array and frees all chunks but the last of the list,
\* the one that init made.
Clear ==
    /\ pc = "clear" /\ fin = 0
    /\ tail' = 0
    /\ chunks' = <<chunks[1]>>
    /\ free' = chunk_size
    /\ ptr' = HEADER
    /\ given' = {}
    /\ pc' = "idle"
    /\ UNCHANGED <<chunk_size, array, pushed, loop, local>>

\* destroy frees the array and all chunks.
Destroy ==
    /\ pc = "destroy" /\ fin = 0
    /\ array' = << >> /\ tail' = 0
    /\ chunks' = << >>
    /\ given' = {}
    /\ pc' = "gone"
    /\ UNCHANGED <<chunk_size, free, ptr, pushed, loop, local>>
-----------------------------------------------------------------------------
Continue == Grow \/ Expand \/ ExpandFails \/ CallFinalizer \/ Clear \/ Destroy

Next ==
    \/ \E n \in Request : Malloc_NoAlign(n) \/ Malloc(n)
    \/ PushFinalizer \/ PushFinalizer_Expand
    \/ Begin("clear") \/ Begin("destroy")
    \/ Continue

\* A call that has begun runs on.
Spec == Init /\ [][Next]_vars /\ WF_vars(Continue)
-----------------------------------------------------------------------------
(* Properties *)

\* free and ptr describe the rest of the newest chunk, after an oversized request
\* and after a clear as well.
RoomExact == pc # "gone" => head > 0 /\ ptr + free = chunks[head]

\* Holds in every build but those that set MSGPACK_ZONE_ALIGN to more than the size
\* of a pointer (CMakeLists.txt:362).
HeaderAligned == HEADER % ALIGN = 0

\* "next; data ..." (zone.c:14): what is handed out is in a chunk of the list, and
\* behind its next pointer.
InData == \A r \in given : /\ r.chunk \in 1 .. head
                           /\ HEADER <= r.at
                           /\ r.at + r.size <= chunks[r.chunk]

Overlap(r, s) == /\ r.chunk = s.chunk
                 /\ r.at < s.at + s.size
                 /\ s.at < r.at + r.size

\* Two regions never share a byte.
Disjoint == \A r, s \in given : r # s => ~Overlap(r, s)

\* The finalizers to be called: those in the array, except the ones that the call
\* in progress is done with.
Pending == SubSeq(array, 1, IF pc \in {"clear", "destroy"} THEN fin ELSE tail)

\* Every finalizer pushed has been called or will be, and not both: none is lost
\* when the array grows, none is called again by the next clear.
FinalizersExact ==
    /\ \A i, j \in DOMAIN called : called[i] = called[j] => i = j
    /\ {Pending[i] : i \in DOMAIN Pending}
         = 1 .. pushed \ {called[i] : i \in DOMAIN called}

\* (mutant) one chunk or several, all the same
is_empty_AnyChunk == free = chunk_size /\ tail = 0

\* msgpack_zone_is_empty
is_empty == free = chunk_size /\ head = 1 /\ tail = 0

\* It tells whether there is anything in the zone.
EmptyHonest ==
    pc = "idle" => (is_empty <=> tail = 0 /\ \A r \in given : r.size = 0)

\* What is handed out is memory of the zone and nobody else's, and is_empty knows whether
\* there is any.
HandedOutOnce == RoomExact /\ InData /\ Disjoint /\ EmptyHonest

\* An allocation returns: the doubling ends, from a chunk_size of 0 as well.
CallsReturn == pc \notin {"idle", "gone"} ~> pc \in {"idle", "gone"}

Memory == INSTANCE Arena WITH pending <- Pending

\* The chunks are invisible: a zone is an arena.
RefinesArena == Memory!Spec
=============================================================================
