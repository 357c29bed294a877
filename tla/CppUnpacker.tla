----------------------------- MODULE CppUnpacker -----------------------------
(***************************************************************************)
(* The streaming deserializer of the C++ library, msgpack::unpacker           *)
(* (v2/unpack.hpp) with the buffer of its base class parser (v2/parse.hpp):   *)
(* who owns its buffers and zones, and for how long.                         *)
(*                                                                           *)
(* It shares buffers with the zones of the objects as the C library's does    *)
(* (module Unpacker), and what that module takes apart - the loops that double *)
(* a size, the single finalizers of a zone - is one step here.  What is        *)
(* different is modelled: there is always a zone; the finalizer that saves a   *)
(* replaced buffer is pushed by a hook, a reference the parser holds to a      *)
(* member of the unpacker; memory that runs out throws, out of the middle of   *)
(* next, too; bytes may be skipped; and unpackers are moved.                  *)
(***************************************************************************)
EXTENDS Integers, Sequences, FiniteSets

CONSTANTS
    Object,    \* places where the application can have an unpacker
    Buf, Zone, \* the blocks malloc can return, the zones new can return
    NULL,
    Garbage,   \* a byte that nobody has written
    COUNTER,   \* COUNTER_SIZE
    INITIAL,   \* m_initial_buffer_size
    Word,      \* the number of values of a size_t
    Request,   \* the sizes passed to reserve_buffer
    MaxBytes,  \* bound: bytes the application receives
    MaxFinalizers, \* bound: finalizers of a zone when a limit is thrown
    MoveFreely \* may a moved unpacker replace its buffer?

Size == 0 .. Word - 1
Stream == 0 .. MaxBytes - 1

ASSUME CppUnpackerConstants ==
    /\ NULL \notin Object \cup Buf \cup Zone /\ Garbage \notin Stream
    /\ COUNTER \in Nat \ {0} /\ Word \in Nat /\ INITIAL \in Size /\ COUNTER <= INITIAL
    /\ Request \subseteq Size /\ {MaxBytes, MaxFinalizers} \subseteq Nat

VARIABLES
    self,              \* where the unpacker is; NULL when it was destroyed
    shells,            \* places that hold an unpacker that was moved from
    hook,              \* m_referenced_buffer_hook: whose m_finalizer it is
    finalizer,         \* of each place, the zone its m_finalizer has
    m_buffer, m_used, m_free, m_off, m_parsed,
    m_z,               \* the zone of the message being read
    m_referenced,
    pc,                \* where the call in progress is
    req, nsize, tmp,   \* expand_buffer: its argument, next_size, tmp
    granted,           \* what the last reserve_buffer promised
    dest,              \* who gets the zone that is released
    old,               \* release_zone's old, on its way to the result
    thrown,            \* a call threw and the unpacker was not reset since
    result,            \* the zone of the application's object_handle
    alloc, count, mem, \* of each block: its size, its counter, its bytes
    owner, fins, refs, \* of each zone: whose it is, the blocks its finalizers
                       \* decrement, what its objects point at
    consumed, start    \* (history) bytes parsed or skipped, and where in the
                       \* stream the current message begins

place  == <<self, shells, hook, finalizer>>
buffer == <<m_buffer, m_used, m_free, m_off>>
past   == <<consumed, start>>
expand == <<req, nsize, tmp, granted>>
heap   == <<alloc, count, mem>>
zones  == <<owner, fins, refs>>
next   == <<dest, old, result>>
vars == <<self, shells, hook, finalizer, m_buffer, m_used, m_free, m_off, m_parsed,
          m_z, m_referenced, pc, req, nsize, tmp, granted, dest, old, thrown, result,
          alloc, count, mem, owner, fins, refs, consumed, start>>

Allocated(b) == alloc[b] > 0
Pending == m_used - m_off     \* nonparsed_size()
received == consumed + Pending
Wrap(n) == n % Word

TypeOK ==
    /\ self \in Object \cup {NULL} /\ shells \subseteq Object \ {self}
    /\ hook \in Object /\ finalizer \in [Object -> Zone \cup {NULL}]
    /\ m_buffer \in Buf \cup {NULL}
    /\ {m_used, m_free, m_off, m_parsed, req, nsize, granted} \subseteq Size
    /\ m_z \in Zone \cup {NULL}
    /\ m_referenced \in BOOLEAN /\ thrown \in BOOLEAN
    /\ pc \in {"idle", "expand", "realloc", "malloc", "swap", "flush", "incr",
               "release", "deliver", "empty"}
    /\ tmp \in Buf \cup {NULL} /\ old \in Zone \cup {NULL} /\ result \in Zone \cup {NULL}
    /\ dest \in {"unpacker", "result", "app"}
    /\ alloc \in [Buf -> Size] /\ count \in [Buf -> Nat] /\ DOMAIN mem = Buf
    /\ \A b \in Buf : mem[b] \in [0 .. alloc[b] - 1 -> Stream \cup {Garbage}]
    /\ owner \in [Zone -> {"none", "unpacker", "old", "result", "app"}]
    /\ fins \in [Zone -> Seq(Buf)]
    /\ refs \in [Zone -> SUBSET (Buf \X Size \X Stream)]
    /\ consumed \in Nat /\ start \in Nat

\* unpacker(...) at some place, with a block and a zone of its own
Init ==
    /\ \E o \in Object, b \in Buf, zz \in Zone :
          /\ self = o /\ hook = o
          /\ finalizer = [x \in Object |-> IF x = o THEN zz ELSE NULL]
          /\ m_buffer = b /\ m_z = zz
          /\ alloc = [c \in Buf |-> IF c = b THEN INITIAL ELSE 0]
          /\ count = [c \in Buf |-> IF c = b THEN 1 ELSE 0]
          /\ mem = [c \in Buf |-> [i \in 0 .. (IF c = b THEN INITIAL ELSE 0) - 1 |-> Garbage]]
          /\ owner = [x \in Zone |-> IF x = zz THEN "unpacker" ELSE "none"]
    /\ shells = {}
    /\ m_used = COUNTER /\ m_free = INITIAL - COUNTER /\ m_off = COUNTER /\ m_parsed = 0
    /\ m_referenced = FALSE /\ thrown = FALSE
    /\ pc = "idle"
    /\ req = 0 /\ nsize = 0 /\ tmp = NULL /\ granted = 0
    /\ dest = "unpacker" /\ old = NULL /\ result = NULL
    /\ fins = [x \in Zone |-> << >>] /\ refs = [x \in Zone |-> {}]
    /\ consumed = 0 /\ start = 0
-----------------------------------------------------------------------------
(* Blocks and zones *)

Nothing == [i \in 0 .. -1 |-> Garbage]
Bytes(n, Byte(_)) == [i \in 0 .. n - 1 |-> Byte(i)]

\* detail::decr_count on the block of each element of the bag of blocks bs, given
\* as a function from blocks to numbers
DecrAll(bs) ==
    LET left == [b \in Buf |-> count[b] - bs[b]]
        freed == {b \in Buf : bs[b] > 0 /\ left[b] = 0}
    IN  /\ count' = left
        /\ alloc' = [b \in Buf |-> IF b \in freed THEN 0 ELSE alloc[b]]
        /\ mem' = [b \in Buf |-> IF b \in freed THEN Nothing ELSE mem[b]]

Once(b) == [c \in Buf |-> IF c = b THEN 1 ELSE 0]
Of(zz) == [b \in Buf |-> Cardinality({i \in DOMAIN fins[zz] : fins[zz][i] = b})]
Plus(f, g) == [b \in Buf |-> f[b] + g[b]]

PushFinalizer(zz, b) == fins' = [fins EXCEPT ![zz] = Append(@, b)]

\* ~zone or zone::clear: the finalizers run, the objects are gone.
Empty(zz) ==
    /\ DecrAll(Of(zz))
    /\ fins' = [fins EXCEPT ![zz] = << >>]
    /\ refs' = [refs EXCEPT ![zz] = {}]
-----------------------------------------------------------------------------
(* Filling the buffer *)

Return == pc' = "idle" /\ req' = 0 /\ nsize' = 0 /\ tmp' = NULL

\* What the buffer would have to hold can be counted in a size_t.
Fits(n) == m_used + n \in Size

\* reserve_buffer(n).  An application that moves its unpackers does not have the
\* buffer replaced while the hook is a member of another one.
Reserve(n) ==
    /\ pc = "idle" /\ self # NULL
    /\ hook = self \/ m_free >= n \/ MoveFreely
    /\ IF m_free >= n THEN granted' = n /\ UNCHANGED <<pc, req>>
                      ELSE granted' = 0 /\ req' = n /\ pc' = "expand"
    /\ UNCHANGED <<place, buffer, m_parsed, m_z, m_referenced, nsize, tmp, next, thrown,
                   heap, zones, past>>

\* Mutant: an object of the current message does not keep the block.
RewindsReferenced == m_used = m_off /\ count[m_buffer] = 1

CanRewind == m_used = m_off /\ count[m_buffer] = 1 /\ ~m_referenced

\* Mutant: the size is doubled once.
DoubledOnce(from, need) == IF Wrap(from) < need THEN Wrap(from * 2) ELSE Wrap(from)

\* The first of from, 2 * from, ... that reaches need; need itself when doubling
\* wraps before, also when from is a wrapped 0.
Doubled(from, need) ==
    LET reach == {k \in need .. Word - 1 : \E e \in 0 .. need : k = Wrap(from) * 2 ^ e}
    IN  IF reach = {} THEN need ELSE CHOOSE k \in reach : \A l \in reach : k <= l

\* expand_buffer, down to its allocation
Expand ==
    /\ pc = "expand"
    /\ IF CanRewind
       THEN m_used' = COUNTER /\ m_off' = COUNTER /\ m_free' = m_free + m_used - COUNTER
       ELSE UNCHANGED <<m_used, m_off, m_free>>
    /\ IF CanRewind /\ m_free' >= req
       THEN granted' = req /\ Return
       ELSE /\ IF m_off' = COUNTER
               THEN /\ nsize' = Doubled((m_used' + m_free') * 2, Wrap(req + m_used'))
                    /\ pc' = "realloc"
               ELSE /\ nsize' = Doubled(INITIAL, Wrap(req + Pending + COUNTER))
                    /\ pc' = "malloc"
            /\ UNCHANGED <<granted, req, tmp>>
    /\ UNCHANGED <<place, m_buffer, m_parsed, m_z, m_referenced, next, thrown, heap, zones, past>>

\* realloc: the block grows where it is or moves, and the old one is freed.
Realloc(b) ==
    /\ pc = "realloc"
    /\ b = m_buffer \/ ~Allocated(b)
    /\ alloc' = [alloc EXCEPT ![m_buffer] = 0, ![b] = nsize]
    /\ count' = [count EXCEPT ![m_buffer] = 0, ![b] = count[m_buffer]]
    /\ mem' = [mem EXCEPT ![m_buffer] = Nothing,
                 ![b] = Bytes(nsize, LAMBDA i : IF i < alloc[m_buffer] THEN mem[m_buffer][i]
                                                                       ELSE Garbage)]
    /\ m_buffer' = b
    /\ m_free' = Wrap(nsize - m_used)
    /\ granted' = req
    /\ Return
    /\ UNCHANGED <<place, m_used, m_off, m_parsed, m_z, m_referenced, next, thrown, zones, past>>

\* malloc, init_count, and memcpy of the bytes not parsed
Malloc(b) ==
    /\ pc = "malloc"
    /\ ~Allocated(b)
    /\ alloc' = [alloc EXCEPT ![b] = nsize]
    /\ count' = [count EXCEPT ![b] = 1]
    /\ mem' = [mem EXCEPT ![b] =
                 Bytes(nsize, LAMBDA i : IF i \in COUNTER .. COUNTER + Pending - 1
                                         THEN mem[m_buffer][m_off + i - COUNTER] ELSE Garbage)]
    /\ tmp' = b
    /\ pc' = "swap"
    /\ UNCHANGED <<place, buffer, m_parsed, m_z, m_referenced, req, nsize, granted, next,
                   thrown, zones, past>>

\* throw std::bad_alloc(): the unpacker goes on as it was.
OutOfMemory ==
    /\ pc \in {"realloc", "malloc"}
    /\ Return
    /\ UNCHANGED <<place, buffer, m_parsed, m_z, m_referenced, granted, next, thrown, heap,
                   zones, past>>

\* Mutant: the block's count is dropped whoever refers to it.
SwapDrops ==
    /\ pc = "swap"
    /\ DecrAll(Once(m_buffer)) /\ UNCHANGED fins
    /\ m_referenced' = FALSE
    /\ m_buffer' = tmp
    /\ m_used' = Pending + COUNTER
    /\ m_free' = Wrap(nsize - (Pending + COUNTER))
    /\ m_off' = COUNTER
    /\ granted' = req
    /\ Return
    /\ UNCHANGED <<place, m_parsed, m_z, next, thrown, owner, refs, past>>

\* The new block takes over.  When objects refer to the old one, the hook pushes
\* a finalizer for it, to the zone that the hook's owner knows.
Swap ==
    /\ pc = "swap"
    /\ IF m_referenced THEN PushFinalizer(finalizer[hook], m_buffer) /\ UNCHANGED heap
                       ELSE DecrAll(Once(m_buffer)) /\ UNCHANGED fins
    /\ m_referenced' = FALSE
    /\ m_buffer' = tmp
    /\ m_used' = Pending + COUNTER
    /\ m_free' = Wrap(nsize - (Pending + COUNTER))
    /\ m_off' = COUNTER
    /\ granted' = req
    /\ Return
    /\ UNCHANGED <<place, m_parsed, m_z, next, thrown, owner, refs, past>>

\* Mutant: without catch (...), the new block is not freed.
SwapThrowsThrough ==
    /\ pc = "swap"
    /\ m_referenced
    /\ Return
    /\ UNCHANGED <<place, buffer, m_parsed, m_z, m_referenced, granted, next, thrown, heap,
                   zones, past>>

\* The hook throws: free(tmp), and the old block stays.
SwapThrows ==
    /\ pc = "swap"
    /\ m_referenced
    /\ DecrAll(Once(tmp))
    /\ Return
    /\ UNCHANGED <<place, buffer, m_parsed, m_z, m_referenced, granted, next, thrown, zones, past>>

\* The application writes n bytes at buffer() and calls buffer_consumed(n).
Feed(n) ==
    /\ pc = "idle" /\ self # NULL
    /\ n <= m_free
    /\ received + n <= MaxBytes
    /\ mem' = [mem EXCEPT ![m_buffer] = [i \in DOMAIN @ |->
                 IF i \in m_used .. m_used + n - 1 THEN received + i - m_used ELSE @[i]]]
    /\ m_used' = m_used + n
    /\ m_free' = m_free - n
    /\ granted' = 0
    /\ UNCHANGED <<place, m_buffer, m_off, m_parsed, m_z, m_referenced, pc, req, nsize, tmp,
                   next, thrown, alloc, count, zones, past>>

\* skip_nonparsed_buffer(n), between messages
Skip(n) ==
    /\ pc = "idle" /\ self # NULL
    /\ n <= Pending
    /\ m_parsed = 0
    /\ m_off' = m_off + n
    /\ consumed' = consumed + n
    /\ start' = start + n
    /\ UNCHANGED <<place, m_buffer, m_used, m_free, m_parsed, m_z, m_referenced, pc, expand,
                   next, thrown, heap, zones>>

\* Mutant: the room of the bytes removed is given back, as if they were at the end.
RemoveGivesAll ==
    /\ pc = "idle" /\ self # NULL
    /\ m_parsed = 0
    /\ m_used' = m_off
    /\ m_free' = m_free + m_off - COUNTER
    /\ consumed' = consumed + Pending
    /\ start' = start + Pending
    /\ UNCHANGED <<place, m_buffer, m_off, m_parsed, m_z, m_referenced, pc, expand, next,
                   thrown, heap, zones>>

\* remove_nonparsed_buffer(): the bytes are dropped, their room is not given back.
Remove ==
    /\ pc = "idle" /\ self # NULL
    /\ m_parsed = 0
    /\ m_used' = m_off
    /\ consumed' = consumed + Pending
    /\ start' = start + Pending
    /\ UNCHANGED <<place, m_buffer, m_free, m_off, m_parsed, m_z, m_referenced, pc, expand, next,
                   thrown, heap, zones>>
-----------------------------------------------------------------------------
(* Parsing *)

Read(r) == IF r[2] \in 0 .. alloc[r[1]] - 1 THEN mem[r[1]][r[2]] ELSE Garbage

\* The parser reads n bytes, of which an object of the zone may refer to one.
Objects(n) ==
    \/ UNCHANGED <<m_referenced, refs>>
    \/ /\ m_referenced' = TRUE
       /\ \E i \in m_off .. m_off + n - 1 :
             refs' = [refs EXCEPT ![m_z] = @ \cup {<<m_buffer, i, Read(<<m_buffer, i>>)>>}]

\* next, down to the end of execute_imp.  A complete message goes on to
\* release_zone; else the result is emptied.  Bound: m_parsed can count a message.
Next_Parse(n, complete) ==
    /\ pc = "idle" /\ self # NULL /\ ~thrown
    /\ n <= Pending /\ m_parsed + n \in Size
    /\ complete => n > 0
    /\ Objects(n)
    /\ m_off' = m_off + n
    /\ m_parsed' = m_parsed + n
    /\ consumed' = consumed + n
    /\ pc' = IF complete THEN "flush" ELSE "empty"
    /\ dest' = IF complete THEN "result" ELSE "unpacker"
    /\ granted' = 0
    /\ UNCHANGED <<place, m_buffer, m_used, m_free, m_z, req, nsize, tmp, old, thrown, result, heap,
                   owner, fins, start>>

\* A parse error moves m_off; a limit is thrown through execute, which then does
\* not, and leaves objects that nobody can reach.
Next_Throws(n, error) ==
    /\ pc = "idle" /\ self # NULL /\ ~thrown
    /\ n <= Pending
    /\ IF error THEN Objects(n) /\ m_off' = m_off + n /\ consumed' = consumed + n
                ELSE /\ Len(fins[m_z]) < MaxFinalizers
                     /\ m_referenced' \in {m_referenced, TRUE}
                     /\ UNCHANGED <<refs, m_off, consumed>>
    /\ thrown' = TRUE
    /\ granted' = 0
    /\ UNCHANGED <<place, m_buffer, m_used, m_free, m_parsed, m_z, pc, req, nsize, tmp, next, heap, owner,
                   fins, start>>

\* release_zone (d is "app") or flush_zone ("unpacker") called by the application,
\* the former between messages.  It does neither for a message that a limit
\* refused at the head of the buffer: the block would have a finalizer, and
\* expand_buffer would still take it for its own and pass it to realloc.
Flush(d) ==
    /\ pc = "idle" /\ self # NULL
    /\ d = "app" => m_parsed = 0
    /\ m_referenced => m_off > COUNTER
    /\ pc' = "flush"
    /\ dest' = d
    /\ UNCHANGED <<place, buffer, m_parsed, m_z, m_referenced, expand, old, thrown, result,
                   heap, zones, past>>

AfterFlush == IF dest = "unpacker" THEN "idle" ELSE "release"

\* flush_zone: nothing refers to the block,
Flush_Unreferenced ==
    /\ pc = "flush"
    /\ ~m_referenced
    /\ pc' = AfterFlush
    /\ UNCHANGED <<place, buffer, m_parsed, m_z, m_referenced, expand, next, thrown, heap,
                   zones, past>>

\* or the zone gets a finalizer for it,
Flush_Push ==
    /\ pc = "flush"
    /\ m_referenced
    /\ PushFinalizer(m_z, m_buffer)
    /\ m_referenced' = FALSE
    /\ pc' = "incr"
    /\ UNCHANGED <<place, buffer, m_parsed, m_z, expand, next, thrown, heap, owner, refs, past>>

\* Mutant: and no count.
Flush_Uncounted ==
    /\ pc = "incr"
    /\ pc' = AfterFlush
    /\ UNCHANGED <<place, buffer, m_parsed, m_z, m_referenced, expand, next, thrown, heap,
                   zones, past>>

\* and a count,
Flush_Incr ==
    /\ pc = "incr"
    /\ count' = [count EXCEPT ![m_buffer] = @ + 1]
    /\ pc' = AfterFlush
    /\ UNCHANGED <<place, buffer, m_parsed, m_z, m_referenced, expand, next, thrown, alloc, mem,
                   zones, past>>

\* or there is no memory for the finalizer, and release_zone returns NULL.
Flush_Fails ==
    /\ pc = "flush"
    /\ m_referenced
    /\ pc' = IF dest = "result" THEN "deliver" ELSE "idle"
    /\ dest' = "unpacker"
    /\ UNCHANGED <<place, buffer, m_parsed, m_z, m_referenced, expand, old, thrown, result, heap,
                   zones, past>>

\* Mutant: m_finalizer is not told of the new zone.
ReleaseForgetsFinalizer(zz) ==
    /\ pc = "release"
    /\ owner[zz] = "none"
    /\ m_z' = zz
    /\ IF dest = "app"
       THEN owner' = [owner EXCEPT ![zz] = "unpacker", ![m_z] = "app"] /\ pc' = "idle" /\ UNCHANGED old
       ELSE owner' = [owner EXCEPT ![zz] = "unpacker", ![m_z] = "old"] /\ pc' = "deliver" /\ old' = m_z
    /\ dest' = "unpacker"
    /\ UNCHANGED <<place, buffer, m_parsed, m_referenced, expand, thrown, result, heap,
                   fins, refs, past>>

\* release_zone: a new zone takes over, and the old one is the caller's.
Release(zz) ==
    /\ pc = "release"
    /\ owner[zz] = "none"
    /\ m_z' = zz
    /\ finalizer' = [finalizer EXCEPT ![self] = zz]
    /\ IF dest = "app"
       THEN owner' = [owner EXCEPT ![zz] = "unpacker", ![m_z] = "app"] /\ pc' = "idle" /\ UNCHANGED old
       ELSE owner' = [owner EXCEPT ![zz] = "unpacker", ![m_z] = "old"] /\ pc' = "deliver" /\ old' = m_z
    /\ dest' = "unpacker"
    /\ UNCHANGED <<self, shells, hook, buffer, m_parsed, m_referenced, expand, thrown,
                   result, heap, fins, refs, past>>

\* new throws: the complete message is lost, and the unpacker is not reset.
Release_Throws ==
    /\ pc = "release"
    /\ pc' = "idle"
    /\ dest' = "unpacker"
    /\ thrown' = (thrown \/ dest = "result")
    /\ UNCHANGED <<place, buffer, m_parsed, m_z, m_referenced, expand, old, result, heap, zones, past>>

\* result.zone().reset(old)
SetResult ==
    /\ IF result = NULL THEN UNCHANGED <<heap, fins, refs>> ELSE Empty(result)
    /\ owner' = [zz \in Zone |-> IF zz = old THEN "result"
                                 ELSE IF zz = result THEN "none" ELSE owner[zz]]
    /\ result' = old
    /\ old' = NULL

\* Mutant: next does not reset.
DeliverKeepsSize ==
    /\ pc = "deliver"
    /\ SetResult
    /\ start' = consumed
    /\ pc' = "idle"
    /\ UNCHANGED <<place, buffer, m_parsed, m_z, m_referenced, expand, dest, thrown, consumed>>

\* next returns true: the result's zone is replaced, and the parser reset.
Deliver ==
    /\ pc = "deliver"
    /\ SetResult
    /\ m_parsed' = 0 /\ start' = consumed
    /\ pc' = "idle"
    /\ UNCHANGED <<place, buffer, m_z, m_referenced, expand, dest, thrown, consumed>>

\* next returns false: the result is emptied, and m_parsed counts on.
Deliver_Nothing ==
    /\ pc = "empty"
    /\ SetResult
    /\ pc' = "idle"
    /\ UNCHANGED <<place, buffer, m_parsed, m_z, m_referenced, expand, dest, thrown, past>>

\* reset(): the message being read is given up, the referenced flag stays.
Reset ==
    /\ pc = "idle" /\ self # NULL
    /\ m_parsed' = 0 /\ start' = consumed
    /\ thrown' = FALSE
    /\ UNCHANGED <<place, buffer, m_z, m_referenced, pc, expand, next, heap, zones, consumed>>

\* reset_zone(), between messages
ResetZone ==
    /\ pc = "idle" /\ self # NULL
    /\ m_parsed = 0
    /\ Empty(m_z) /\ UNCHANGED owner
    /\ UNCHANGED <<place, buffer, m_parsed, m_z, m_referenced, pc, expand, next, thrown, past>>
-----------------------------------------------------------------------------
(* The application's zones and unpackers *)

\* It takes the zone out of its object_handle,
Result_Take ==
    /\ pc = "idle" /\ result # NULL
    /\ owner' = [owner EXCEPT ![result] = "app"]
    /\ result' = NULL
    /\ UNCHANGED <<place, buffer, m_parsed, m_z, m_referenced, pc, expand, dest, old, thrown,
                   heap, fins, refs, past>>

\* or destroys the handle,
Result_Drop ==
    /\ pc = "idle" /\ result # NULL
    /\ Empty(result)
    /\ owner' = [owner EXCEPT ![result] = "none"]
    /\ result' = NULL
    /\ UNCHANGED <<place, buffer, m_parsed, m_z, m_referenced, pc, expand, dest, old, thrown, past>>

\* and frees a zone it has, on any thread.
App_FreeZone(zz) ==
    /\ owner[zz] = "app"
    /\ Empty(zz)
    /\ owner' = [owner EXCEPT ![zz] = "none"]
    /\ UNCHANGED <<place, buffer, m_parsed, m_z, m_referenced, pc, expand, next, thrown, past>>

\* unpacker(std::move(...)), or an assignment to one that was moved from.  The
\* zone pointer is copied; the hook is still that of the unpacker moved from.
Move(o) ==
    /\ pc = "idle" /\ self # NULL
    /\ o # self
    /\ self' = o
    /\ shells' = (shells \ {o}) \cup {self}
    /\ finalizer' = [finalizer EXCEPT ![o] = finalizer[self]]
    /\ UNCHANGED <<hook, buffer, m_parsed, m_z, m_referenced, pc, expand, next, thrown, heap,
                   zones, past>>

\* ~unpacker of one that was moved from
DestroyShell(o) ==
    /\ pc = "idle"
    /\ o \in shells
    /\ shells' = shells \ {o}
    /\ finalizer' = [finalizer EXCEPT ![o] = NULL]
    /\ UNCHANGED <<self, hook, buffer, m_parsed, m_z, m_referenced, pc, expand, next,
                   thrown, heap, zones, past>>

\* ~unpacker: its zone, then its buffer
Destroy ==
    /\ pc = "idle" /\ self # NULL
    /\ DecrAll(Plus(Of(m_z), Once(m_buffer)))
    /\ fins' = [fins EXCEPT ![m_z] = << >>]
    /\ refs' = [refs EXCEPT ![m_z] = {}]
    /\ owner' = [owner EXCEPT ![m_z] = "none"]
    /\ self' = NULL /\ m_buffer' = NULL /\ m_z' = NULL
    /\ finalizer' = [finalizer EXCEPT ![self] = NULL]
    /\ granted' = 0 /\ m_referenced' = FALSE
    /\ UNCHANGED <<shells, hook, m_used, m_free, m_off, m_parsed, pc, req, nsize, tmp, next,
                   thrown, past>>

Next ==
    \/ \E n \in Request : Fits(n) /\ Reserve(n)
    \/ Expand
    \/ \E b \in Buf : Realloc(b) \/ Malloc(b)
    \/ OutOfMemory \/ Swap \/ SwapThrows
    \/ \E n \in 1 .. MaxBytes : Feed(n) \/ Skip(n)
    \/ Remove
    \/ \E n \in 0 .. MaxBytes, b \in BOOLEAN : Next_Parse(n, b) \/ Next_Throws(n, b)
    \/ \E d \in {"unpacker", "app"} : Flush(d)
    \/ Flush_Unreferenced \/ Flush_Push \/ Flush_Incr \/ Flush_Fails
    \/ \E zz \in Zone : Release(zz) \/ App_FreeZone(zz)
    \/ Release_Throws \/ Deliver \/ Deliver_Nothing
    \/ Reset \/ ResetZone \/ Result_Take \/ Result_Drop
    \/ \E o \in Object : Move(o) \/ DestroyShell(o)
    \/ Destroy

Spec == Init /\ [][Next]_vars
-----------------------------------------------------------------------------
(* Properties *)

\* An object of a zone that has not been freed or cleared reads the bytes its
\* message had when it was parsed, whatever the unpacker did to its buffer since,
\* wherever it was moved and whatever was thrown.
ObjectsIntact == \A zz \in Zone : \A r \in refs[zz] : Read(r) = r[3]

\* Who will decrement the counter of a block some day: the unpacker, for its block
\* and for the one it is building, and the finalizers.
Holders(b) ==
    {h \in {<<NULL, 0>>} : b = m_buffer} \cup {h \in {<<NULL, 1>>} : b = tmp}
      \cup UNION {{<<zz, i>> : i \in {j \in DOMAIN fins[zz] : fins[zz][j] = b}} : zz \in Zone}

\* The counter of a block is the number of its holders, also while other threads
\* free zones; flush_zone alone is one behind, between its two calls.
CountExact ==
    \A b \in Buf : count[b] + (IF pc = "incr" /\ b = m_buffer THEN 1 ELSE 0)
                     = Cardinality(Holders(b))

\* A block is allocated as long as somebody holds it and not longer, also when
\* the hook, the new of a zone or a limit throws.
HeldIffAllocated == \A b \in Buf : Allocated(b) <=> Holders(b) # {}

\* The bytes received, and not parsed, skipped or removed, are all there, in
\* order, at m_off.
StreamIntact == self # NULL =>
    \A i \in 0 .. Pending - 1 : mem[m_buffer][m_off + i] = consumed + i

\* The room handed out lies in the block behind the bytes received; the block may
\* have more, since remove_nonparsed_buffer does not give it back.
SpaceAccounted == self # NULL =>
    /\ COUNTER <= m_off /\ m_off <= m_used
    /\ m_used + m_free <= alloc[m_buffer]

\* "After returning this function, buffer_capacity() returns at least 'size'."
\* (reserve_buffer, v2/parse.hpp)
ReserveKept == granted <= m_free

\* realloc is called on a block nobody else counts on and no object that can be
\* reached points into, which is why it may move the bytes.
ReallocSafe == pc = "realloc" =>
    /\ count[m_buffer] = 1
    /\ \A zz \in Zone : \A r \in refs[zz] : r[1] # m_buffer

\* parsed_size is what the calls of next so far have read of the current message,
\* however many they were, whatever was skipped before it and whichever way the
\* message before ended.
SizeExact == self # NULL /\ ~thrown => m_parsed = consumed - start

\* When a replaced block is saved for the objects that refer to it, the hook is a
\* member of an unpacker that still exists, and it saves the block in the zone
\* that these objects are in.
HookOwn == pc = "swap" /\ m_referenced =>
    hook \in shells \cup {self} /\ finalizer[hook] = m_z

\* Nobody uses memory that is not his, also when something throws, and a block that
\* objects refer to is saved in their zone, wherever the unpacker was moved from.
BlocksCounted == CountExact /\ HeldIffAllocated /\ ReallocSafe /\ HookOwn

\* The numbers and the bytes they describe: what is not parsed stays at m_off, the room
\* is behind it and as large as was asked for, and parsed_size is what the message has
\* taken.
BufferExact == SpaceAccounted /\ ReserveKept /\ StreamIntact /\ SizeExact

\* What the application sees: bytes received and read, and what objects read.
App == INSTANCE ObjectStream
              WITH held <- [zz \in Zone |-> {Read(r) : r \in refs[zz]}]

\* The buffers are invisible: objects are snapshots of the stream.
RefinesObjectStream == App!Spec
=============================================================================
