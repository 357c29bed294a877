------------------------------ MODULE CppZone ------------------------------
(***************************************************************************)
(* The memory pools of the C++ library, msgpack::zone                        *)
(* (v1/detail/cpp11_zone.hpp): what module Zone says of the C library's pool,  *)
(* and what is different.  Any alignment may be asked for; memory that runs    *)
(* out is an exception; an object may be made in the pool, its destructor      *)
(* pushed as a finalizer before its constructor runs, which may throw; and     *)
(* pools are moved, assigned and swapped.                                     *)
(*                                                                           *)
(* Chunks are numbered in the order in which they were made.  Places in one    *)
(* are counted from the start of its block, and malloc returns blocks at       *)
(* addresses that any of Base is the remainder of.  A region is a chunk, a     *)
(* place and a size.  The growth of the finalizer array is module Zone's.      *)
(***************************************************************************)
EXTENDS Integers, Sequences, FiniteSets

CONSTANTS
    Pool,       \* places where the application can have a zone
    NULL,
    HEADER,     \* sizeof(chunk)
    ChunkSize,  \* the sizes passed to the constructor
    Request,    \* the sizes that are asked for
    Align,      \* the alignments that are asked for
    Base,       \* remainders of the addresses of blocks
    MaxChunks,  \* bound: blocks that are ever allocated
    MaxRegions, \* bound: regions that are in use
    MaxFins     \* bound: finalizers in a zone

\* Sizes are far from the end of a size_t: doubling them does not wrap, except
\* that of 0.
ASSUME CppZoneConstants ==
    /\ HEADER \in Nat \ {0} /\ Align \subseteq Nat \ {0}
    /\ ChunkSize \subseteq Nat /\ Request \subseteq Nat /\ Base \subseteq Nat
    /\ {MaxChunks, MaxRegions, MaxFins} \subseteq Nat

VARIABLES
    state,                \* of each place: is there a zone, was it moved from
    m_chunk_size, m_list, \* its fields: the chunks of the list, oldest first,
    m_free, m_ptr, m_fins,\* the room in the newest, where it begins, and what the
                          \* finalizers are called on, oldest first
    size, base,           \* of each chunk: what malloc was asked for and returned
    freed,                \* the chunks that were freed
    given, built,         \* (history) regions in use; those that hold an object
    pc, this, other, x    \* the call in progress: of which zone, what it moves
                          \* from, the region it has allocated

fields == <<m_chunk_size, m_list, m_free, m_ptr, m_fins>>
room   == <<m_list, m_free, m_ptr>>
heap   == <<size, base, freed>>
call   == <<pc, this, other, x>>
vars == <<state, m_chunk_size, m_list, m_free, m_ptr, m_fins, size, base, freed, given, built,
          pc, this, other, x>>

Region == [chunk : Nat, at : Nat, size : Nat]
Nowhere == [chunk |-> 0, at |-> 0, size |-> 0]
Last(s) == s[Len(s)]
Front(s) == SubSeq(s, 1, Len(s) - 1)
Elements(s) == {s[i] : i \in DOMAIN s}

TypeOK ==
    /\ state \in [Pool -> {"none", "live", "moved"}]
    /\ m_chunk_size \in [Pool -> ChunkSize \cup {0}]
    /\ m_list \in [Pool -> Seq(1 .. Len(size))]
    /\ m_fins \in [Pool -> Seq(Region)]
    /\ m_free \in [Pool -> Nat] /\ m_ptr \in [Pool -> Nat]
    /\ size \in Seq(Nat) /\ base \in Seq(Base) /\ Len(size) = Len(base)
    /\ freed \subseteq 1 .. Len(size)
    /\ given \subseteq Region /\ built \subseteq given
    /\ pc \in {"idle", "push", "construct", "assign"}
    /\ this \in Pool \cup {NULL} /\ other \in Pool \cup {NULL}
    /\ x \in Region

Init ==
    /\ state = [z \in Pool |-> "none"]
    /\ m_chunk_size = [z \in Pool |-> 0]
    /\ m_list = [z \in Pool |-> << >>]
    /\ m_free = [z \in Pool |-> 0] /\ m_ptr = [z \in Pool |-> 0]
    /\ m_fins = [z \in Pool |-> << >>]
    /\ size = << >> /\ base = << >> /\ freed = {}
    /\ given = {} /\ built = {}
    /\ pc = "idle" /\ this = NULL /\ other = NULL /\ x = Nowhere
-----------------------------------------------------------------------------
(* Allocation *)

\* malloc: another block, of n bytes behind the chunk's next pointer
NewChunk(n, b) ==
    /\ Len(size) < MaxChunks
    /\ size' = Append(size, HEADER + n) /\ base' = Append(base, b)

\* zone(c).  It is noexcept: when malloc fails, the program ends.
Construct(z, c) ==
    /\ pc = "idle" /\ state[z] = "none"
    /\ \E b \in Base : NewChunk(c, b)
    /\ state' = [state EXCEPT ![z] = "live"]
    /\ m_chunk_size' = [m_chunk_size EXCEPT ![z] = c]
    /\ m_list' = [m_list EXCEPT ![z] = <<Len(size) + 1>>]
    /\ m_free' = [m_free EXCEPT ![z] = c]
    /\ m_ptr' = [m_ptr EXCEPT ![z] = HEADER]
    /\ UNCHANGED <<m_fins, freed, given, built, call>>

\* get_aligned at place p of a block at an address with remainder b
Aligned(b, p, align) == ((b + p + align - 1) \div align) * align - b

\* The first of from, 2 * from, ... that reaches need; need itself from 0.
Doubled(from, need) ==
    LET reach == {k \in need .. from + 2 * need : \E e \in 0 .. need : k = from * 2 ^ e}
    IN  IF reach = {} THEN need ELSE CHOOSE k \in reach : \A l \in reach : k <= l

\* (mutant) the padding is not tested for
FoundUnpadded(z, n, align, b) ==
    LET p == Aligned(base[Last(m_list[z])], m_ptr[z], align)
    IN  IF m_free[z] >= n
        THEN [chunk |-> Last(m_list[z]), at |-> p, size |-> n]
        ELSE [chunk |-> Len(size) + 1, at |-> Aligned(b, HEADER, align), size |-> n]

\* The region that allocate_align(n, align) returns: in the newest chunk, or in a
\* new one whose block has remainder b.
Found(z, n, align, b) ==
    LET p == Aligned(base[Last(m_list[z])], m_ptr[z], align)
        adjusted_size == n + p - m_ptr[z]
    IN  IF m_free[z] >= adjusted_size
        THEN [chunk |-> Last(m_list[z]), at |-> p, size |-> n]
        ELSE [chunk |-> Len(size) + 1, at |-> Aligned(b, HEADER, align), size |-> n]

\* (mutant) no room for the padding
EnoughTight(n, align) == n

\* enough_size, what allocate_expand is asked for
Enough(n, align) == n + align - 1

\* The zone's room begins behind the region r.  A throw of allocate_expand leaves
\* everything as it was.
Take(z, r, need, b) ==
    /\ m_ptr' = [m_ptr EXCEPT ![z] = r.at + r.size]
    /\ IF r.chunk \in DOMAIN size
       THEN /\ m_free' = [m_free EXCEPT ![z] = @ - (r.at + r.size - m_ptr[z])]
            /\ UNCHANGED <<m_list, size, base>>
       ELSE LET sz == Doubled(m_chunk_size[z], need) IN
            /\ NewChunk(sz, b)
            /\ m_list' = [m_list EXCEPT ![z] = Append(@, r.chunk)]
            /\ m_free' = [m_free EXCEPT ![z] = sz - (r.at + r.size - HEADER)]

\* Bound: regions in use.  A zone that was moved from has no chunk to allocate in.
CanTake(z) == pc = "idle" /\ state[z] = "live" /\ Cardinality(given) < MaxRegions

\* allocate_align(n, align); allocate_no_align(n) is this with an alignment of 1.
Allocate(z, n, align) ==
    /\ CanTake(z)
    /\ \E b \in Base : LET r == Found(z, n, align, b) IN
          /\ Take(z, r, Enough(n, align), b)
          /\ given' = given \cup {r}
    /\ UNCHANGED <<state, m_chunk_size, m_fins, freed, built, call>>

\* allocate<T>(), down to its first try, for a T of n bytes
Allocate_T(z, n, align) ==
    /\ CanTake(z) /\ Len(m_fins[z]) < MaxFins
    /\ n > 0 /\ n % align = 0
    /\ \E b \in Base : LET r == Found(z, n, align, b) IN
          /\ Take(z, r, Enough(n, align), b)
          /\ given' = given \cup {r}
          /\ x' = r
    /\ this' = z
    /\ pc' = "push"
    /\ UNCHANGED <<state, m_chunk_size, m_fins, freed, built, other>>

Return == pc' = "idle" /\ this' = NULL /\ other' = NULL /\ x' = Nowhere

\* (mutant) only the room is given back
UndoRoomOnly ==
    /\ m_free' = [m_free EXCEPT ![this] = @ + x.size]
    /\ given' = given \ {x}
    /\ UNCHANGED <<m_list, m_ptr, size, base>>

\* undo_allocate(sizeof(T)): without the padding in front of it
Undo ==
    /\ m_ptr' = [m_ptr EXCEPT ![this] = @ - x.size]
    /\ m_free' = [m_free EXCEPT ![this] = @ + x.size]
    /\ given' = given \ {x}
    /\ UNCHANGED <<m_list, size, base>>

\* m_finalizer_array.push(&object_destruct<T>, x)
Push_T ==
    /\ pc = "push"
    /\ m_fins' = [m_fins EXCEPT ![this] = Append(@, x)]
    /\ pc' = "construct"
    /\ UNCHANGED <<state, m_chunk_size, room, heap, given, built, this, other, x>>

\* or it throws.
Push_T_Throws ==
    /\ pc = "push"
    /\ Undo
    /\ Return
    /\ UNCHANGED <<state, m_chunk_size, m_fins, freed, built>>

\* new (x) T(args...)
Construct_T ==
    /\ pc = "construct"
    /\ built' = built \cup {x}
    /\ Return
    /\ UNCHANGED <<state, fields, heap, given>>

\* (mutant) the finalizer stays
ThrowsThrough ==
    /\ pc = "construct"
    /\ Undo
    /\ Return
    /\ UNCHANGED <<state, m_chunk_size, m_fins, freed, built>>

\* or it throws: --m_finalizer_array.m_tail.
Construct_T_Throws ==
    /\ pc = "construct"
    /\ m_fins' = [m_fins EXCEPT ![this] = Front(@)]
    /\ Undo
    /\ Return
    /\ UNCHANGED <<state, m_chunk_size, freed, built>>

\* push_finalizer(func, data) for data that is not in a zone
PushFinalizer(z) ==
    /\ pc = "idle" /\ state[z] # "none" /\ Len(m_fins[z]) < MaxFins
    /\ m_fins' = [m_fins EXCEPT ![z] = Append(@, Nowhere)]
    /\ UNCHANGED <<state, m_chunk_size, room, heap, given, built, call>>
-----------------------------------------------------------------------------
(* The end of what is in a zone *)

In(r, chunks) == r.chunk \in Elements(chunks)

\* The finalizers of z are called, its chunks gone are freed, and the regions in
\* them are not used any more.
Drop(z, gone) ==
    /\ m_fins' = [m_fins EXCEPT ![z] = << >>]
    /\ built' = built \ Elements(m_fins[z])
    /\ freed' = freed \cup gone
    /\ given' = {r \in given : ~In(r, m_list[z])}

\* (mutant) the chunk that stays in the list is one that was freed
ClearKeepsNewest(z) ==
    /\ pc = "idle" /\ state[z] = "live"
    /\ m_list' = [m_list EXCEPT ![z] = <<Last(@)>>]
    /\ m_free' = [m_free EXCEPT ![z] = size[Last(m_list[z])] - HEADER]
    /\ m_ptr' = [m_ptr EXCEPT ![z] = HEADER]
    /\ Drop(z, Elements(m_list[z]) \ {m_list[z][1]})
    /\ UNCHANGED <<state, m_chunk_size, size, base, call>>

\* clear(): of the chunks only the oldest stays.
Clear(z) ==
    /\ pc = "idle" /\ state[z] = "live"
    /\ m_list' = [m_list EXCEPT ![z] = <<@[1]>>]
    /\ m_free' = [m_free EXCEPT ![z] = m_chunk_size[z]]
    /\ m_ptr' = [m_ptr EXCEPT ![z] = HEADER]
    /\ Drop(z, Elements(m_list[z]) \ {m_list[z][1]})
    /\ UNCHANGED <<state, m_chunk_size, size, base, call>>

\* ~zone(): the finalizers, then the chunks
Destroy(z) ==
    /\ pc = "idle" /\ state[z] # "none"
    /\ Drop(z, Elements(m_list[z]))
    /\ state' = [state EXCEPT ![z] = "none"]
    /\ m_chunk_size' = [m_chunk_size EXCEPT ![z] = 0]
    /\ m_list' = [m_list EXCEPT ![z] = << >>]
    /\ m_free' = [m_free EXCEPT ![z] = 0]
    /\ m_ptr' = [m_ptr EXCEPT ![z] = 0]
    /\ UNCHANGED <<size, base, call>>

\* zone(zone&&).  The zone moved from keeps its room and its pointer.
MoveConstruct(z, o) ==
    /\ pc = "idle" /\ state[z] = "none" /\ state[o] = "live"
    /\ state' = [state EXCEPT ![z] = "live", ![o] = "moved"]
    /\ m_chunk_size' = [m_chunk_size EXCEPT ![z] = m_chunk_size[o]]
    /\ m_list' = [m_list EXCEPT ![z] = m_list[o], ![o] = << >>]
    /\ m_free' = [m_free EXCEPT ![z] = m_free[o]]
    /\ m_ptr' = [m_ptr EXCEPT ![z] = m_ptr[o]]
    /\ m_fins' = [m_fins EXCEPT ![z] = m_fins[o], ![o] = << >>]
    /\ UNCHANGED <<heap, given, built, call>>

\* operator=(zone&&), member by member: the chunks of z go before its finalizers,
\* which the application must therefore not have left there.
Assign(z, o) ==
    /\ pc = "idle" /\ z # o
    /\ state[z] # "none" /\ state[o] = "live"
    /\ m_fins[z] = << >>
    /\ m_chunk_size' = [m_chunk_size EXCEPT ![z] = m_chunk_size[o]]
    /\ m_list' = [m_list EXCEPT ![z] = m_list[o], ![o] = << >>]
    /\ m_free' = [m_free EXCEPT ![z] = m_free[o]]
    /\ m_ptr' = [m_ptr EXCEPT ![z] = m_ptr[o]]
    /\ freed' = freed \cup Elements(m_list[z])
    /\ given' = {r \in given : ~In(r, m_list[z])}
    /\ built' = {r \in built : ~In(r, m_list[z])}
    /\ pc' = "assign" /\ this' = z /\ other' = o
    /\ UNCHANGED <<state, m_fins, size, base, x>>

\* (mutant) the finalizers stay with the zone moved from
AssignChunksOnly ==
    /\ pc = "assign"
    /\ state' = [state EXCEPT ![this] = "live", ![other] = "moved"]
    /\ Return
    /\ UNCHANGED <<fields, heap, given, built>>

\* Then the finalizers that z had are called, and it gets the other's.
Assign_Finalizers ==
    /\ pc = "assign"
    /\ built' = built \ Elements(m_fins[this])
    /\ m_fins' = [m_fins EXCEPT ![this] = m_fins[other], ![other] = << >>]
    /\ state' = [state EXCEPT ![this] = "live", ![other] = "moved"]
    /\ Return
    /\ UNCHANGED <<m_chunk_size, room, heap, given>>

\* swap(o) is std::swap: a move and two assignments to zones moved from.
Swap(z, o) ==
    /\ pc = "idle" /\ z # o /\ "none" \notin {state[z], state[o]}
    /\ LET swapped(f) == [f EXCEPT ![z] = f[o], ![o] = f[z]] IN
       /\ state' = swapped(state)
       /\ m_chunk_size' = swapped(m_chunk_size)
       /\ m_list' = swapped(m_list)
       /\ m_free' = swapped(m_free)
       /\ m_ptr' = swapped(m_ptr)
       /\ m_fins' = swapped(m_fins)
    /\ UNCHANGED <<heap, given, built, call>>

Next ==
    \/ \E z \in Pool, n \in Request, align \in Align : Allocate(z, n, align) \/ Allocate_T(z, n, align)
    \/ Push_T \/ Push_T_Throws \/ Construct_T \/ Construct_T_Throws
    \/ \E z \in Pool, c \in ChunkSize : Construct(z, c)
    \/ \E z \in Pool : PushFinalizer(z) \/ Clear(z) \/ Destroy(z)
    \/ \E z, o \in Pool : MoveConstruct(z, o) \/ Assign(z, o) \/ Swap(z, o)
    \/ Assign_Finalizers

Spec == Init /\ [][Next]_vars
-----------------------------------------------------------------------------
(* Properties *)

\* The room of a zone is the rest of its newest chunk, after a request that it was
\* doubled for, an undone allocation, a clear and a move.
RoomExact == pc # "assign" => \A z \in Pool : state[z] = "live" =>
    m_list[z] # << >> /\ m_ptr[z] + m_free[z] = size[Last(m_list[z])]

Overlap(r, s) == r.chunk = s.chunk /\ r.at < s.at + s.size /\ s.at < r.at + r.size

\* Memory in use is never handed out again: regions are in chunks that are there,
\* behind the next pointer, and share no byte, also when an object between them
\* could not be made and its memory was taken back.
Disjoint ==
    /\ \A r \in given : /\ r.chunk \notin freed
                         /\ HEADER <= r.at /\ r.at + r.size <= size[r.chunk]
    /\ \A r, s \in given : r # s => ~Overlap(r, s)

\* Every chunk that was not freed is in the list of one zone, once: none is lost or
\* freed twice, whatever is moved, assigned and swapped.
ChunksOwned ==
    /\ UNION {Elements(m_list[z]) : z \in Pool} = DOMAIN size \ freed
    /\ \A z, o \in Pool : \A i \in DOMAIN m_list[z], j \in DOMAIN m_list[o] :
          m_list[z][i] = m_list[o][j] => z = o /\ i = j

\* What a zone hands out is memory it owns, and nobody else's.
MemoryOwned == TypeOK /\ RoomExact /\ Disjoint /\ ChunksOwned

\* Finalizers destroy what was constructed, each object once: one whose constructor
\* threw has none, one that was made has one, in one zone.
EachOnce == pc \notin {"construct", "assign"} =>
    /\ (UNION {Elements(m_fins[z]) : z \in Pool}) \ {Nowhere} = built
    /\ \A z, o \in Pool : \A i \in DOMAIN m_fins[z], j \in DOMAIN m_fins[o] :
          m_fins[z][i] = m_fins[o][j] /\ m_fins[z][i] # Nowhere => z = o /\ i = j

\* A finalizer is called, whenever that will be, on an object whose memory is there.
FinalizersReach == \A z \in Pool : \A i \in DOMAIN m_fins[z] : m_fins[z][i].chunk \notin freed

\* Every object made in a zone is destroyed, once, and while its memory is there.
DestroyedOnce == EachOnce /\ FinalizersReach
=============================================================================
