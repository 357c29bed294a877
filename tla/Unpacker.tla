------------------------------ MODULE Unpacker ------------------------------
(***************************************************************************)
(* The streaming deserializer msgpack_unpacker (src/unpack.c): who owns its  *)
(* buffers, and for how long.                                                *)
(*                                                                           *)
(* Strings are not copied out of the receive buffer: the objects of a        *)
(* message, kept in a zone, point into it.  The buffer therefore starts with *)
(* a reference counter, and a zone whose objects point into a buffer carries *)
(* a finalizer that decrements it.  The application takes zones over and     *)
(* frees them when it likes, on any thread, while the unpacker reads on,     *)
(* rewinds, reallocates or replaces its buffer; any allocation may fail.     *)
(*                                                                           *)
(* Each access to a counter that another thread may be decrementing is a     *)
(* step of its own, and so are the iterations of the loop that doubles a     *)
(* size.  What the parser makes of the bytes is left open (Execute): it      *)
(* consumes some, and makes objects that point at some of those.  A byte is  *)
(* known by its position in the stream the application received.             *)
(***************************************************************************)
EXTENDS Integers, Sequences, FiniteSets

CONSTANTS
    Buf,       \* the blocks malloc can return for a buffer
    Zone,      \* the zones msgpack_zone_new can return
    NULL,      \* no block, no zone
    Garbage,   \* a byte of a block that nobody has written
    COUNTER,   \* COUNTER_SIZE, the bytes of the counter at the head of a block
    INITIAL,   \* initial_buffer_size, after msgpack_unpacker_init raised it
    Word,      \* the number of values of a size_t
    Request,   \* the sizes passed to msgpack_unpacker_reserve_buffer
    MaxBytes,  \* bound: bytes the application receives
    MaxRefs    \* bound: bytes that the objects made by one call point at

Size == 0 .. Word - 1
Stream == 0 .. MaxBytes - 1

ASSUME UnpackerConstants ==
    /\ IsFiniteSet(Zone)
    /\ NULL \notin Buf \cup Zone
    /\ Garbage \notin Stream
    /\ COUNTER \in Nat \ {0}
    /\ Word \in Nat
    /\ INITIAL \in Size
    /\ COUNTER <= INITIAL
    /\ Request \subseteq Size
    /\ MaxBytes \in Nat
    /\ MaxRefs \in Nat

VARIABLES
    buffer, used, free, off,  \* the fields of msgpack_unpacker: the block, the
                              \* end of the bytes received, the room after them,
                              \* the first byte not parsed
    z,                        \* the zone of the objects being made
    referenced,               \* ctx->user.referenced
    pc,                       \* where the call in progress on the unpacker is
    req, nsize, tmp,          \* expand_buffer: its argument, next_size, tmp
    granted,                  \* the room the last reserve_buffer promised
    dest,                     \* release_zone: the owner that zone will have
    victim,                   \* the zone the call in progress is freeing
    result,                   \* result->zone of the application's msgpack_unpacked
    alloc, count, mem,        \* of each block: its size (0 when it is not
                              \* allocated), its counter, its bytes
    owner, fins, refs,        \* of each zone: who has it, its finalizers (the
                              \* blocks they decrement), what its objects point at
    consumed                  \* (history) bytes of the stream parsed so far

mpac   == <<buffer, used, free, off>>
ctx    == <<z, referenced, consumed>>
expand == <<req, nsize, tmp, granted>>
call   == <<pc, dest, victim, result>>
heap   == <<alloc, count, mem>>
zones  == <<owner, fins, refs>>
vars == <<buffer, used, free, off, z, referenced, pc, req, nsize, tmp,
          granted, dest, victim, result, alloc, count, mem, owner, fins, refs,
          consumed>>

Allocated(b) == alloc[b] > 0

\* The number of bytes received and not yet parsed (not_parsed in the code).
Pending == used - off
received == consumed + Pending

Wrap(n) == n % Word

TypeOK ==
    /\ buffer \in Buf \cup {NULL}
    /\ used \in Size /\ free \in Size /\ off \in Size
    /\ z \in Zone \cup {NULL}
    /\ referenced \in BOOLEAN
    /\ pc \in {"idle", "expand", "grow_realloc", "realloc", "grow_malloc",
               "malloc", "swap", "next_wait", "next_execute", "flush", "incr",
               "wait", "destroy_wait", "gone"}
    /\ req \in Size /\ nsize \in Size
    /\ tmp \in Buf \cup {NULL}
    /\ granted \in Size
    /\ dest \in {"unpacker", "result", "app"}
    /\ victim \in Zone \cup {NULL}
    /\ result \in Zone \cup {NULL}
    /\ alloc \in [Buf -> Size]
    /\ count \in [Buf -> Nat]
    /\ DOMAIN mem = Buf
    /\ \A b \in Buf : mem[b] \in [0 .. alloc[b] - 1 -> Stream \cup {Garbage}]
    /\ owner \in [Zone -> {"none", "unpacker", "result", "app", "dying"}]
    /\ fins \in [Zone -> Seq(Buf)]
    /\ refs \in [Zone -> SUBSET (Buf \X Size \X Stream)]
    /\ consumed \in Nat

\* msgpack_unpacker_init on a block of its own.
Init ==
    /\ \E b \in Buf :
          /\ buffer = b
          /\ alloc = [c \in Buf |-> IF c = b THEN INITIAL ELSE 0]
          /\ count = [c \in Buf |-> IF c = b THEN 1 ELSE 0]
          /\ mem = [c \in Buf |-> [i \in 0 .. (IF c = b THEN INITIAL ELSE 0) - 1
                                     |-> Garbage]]
    /\ used = COUNTER
    /\ free = INITIAL - COUNTER
    /\ off = COUNTER
    /\ z = NULL
    /\ referenced = FALSE
    /\ pc = "idle"
    /\ req = 0 /\ nsize = 0 /\ tmp = NULL
    /\ granted = 0
    /\ dest = "unpacker"
    /\ victim = NULL
    /\ result = NULL
    /\ owner = [zz \in Zone |-> "none"]
    /\ fins = [zz \in Zone |-> << >>]
    /\ refs = [zz \in Zone |-> {}]
    /\ consumed = 0
-----------------------------------------------------------------------------
(* Blocks and zones *)

\* What a block that is not allocated holds.
Nothing == [i \in 0 .. -1 |-> Garbage]

\* free(b)
Free(b) ==
    /\ alloc' = [alloc EXCEPT ![b] = 0]
    /\ mem' = [mem EXCEPT ![b] = Nothing]

\* decr_count(b)
Decr(b) ==
    /\ count' = [count EXCEPT ![b] = @ - 1]
    /\ IF count[b] = 1 THEN Free(b) ELSE UNCHANGED <<alloc, mem>>

\* msgpack_zone_push_finalizer(zz, decr_count, b) when the array has room or grows
PushFinalizer(zz, b) == fins' = [fins EXCEPT ![zz] = Append(@, b)]

\* msgpack_zone_free and msgpack_zone_clear run the finalizers, the last one
\* first; from here on the application does not use the objects of the zone.
BeginFinalizers(zz) ==
    /\ owner' = [owner EXCEPT ![zz] = "dying"]
    /\ refs' = [refs EXCEPT ![zz] = {}]
    /\ UNCHANGED fins

RunFinalizer(zz) ==
    /\ owner[zz] = "dying"
    /\ fins[zz] # << >>
    /\ Decr(fins[zz][Len(fins[zz])])
    /\ fins' = [fins EXCEPT ![zz] = SubSeq(@, 1, Len(@) - 1)]
    /\ UNCHANGED <<mpac, ctx, expand, call, owner, refs>>

\* Then the zone's memory is freed, or is empty again for the unpacker.
EndFinalizers(zz) ==
    /\ owner[zz] = "dying"
    /\ fins[zz] = << >>
    /\ owner' = [owner EXCEPT ![zz] = IF zz = z THEN "unpacker" ELSE "none"]
    /\ UNCHANGED <<mpac, ctx, expand, call, heap, fins, refs>>
-----------------------------------------------------------------------------
(* Filling the buffer *)

\* A call on the unpacker returns and forgets its locals.
Return == pc' = "idle" /\ req' = 0 /\ nsize' = 0 /\ tmp' = NULL

\* The bytes the block would have to hold can be counted in a size_t.
Fits(n) == used + n \in Size

\* msgpack_unpacker_reserve_buffer(mpac, n)
Reserve(n) ==
    /\ pc = "idle"
    /\ IF free >= n THEN granted' = n /\ UNCHANGED <<pc, req>>
                    ELSE granted' = 0 /\ req' = n /\ pc' = "expand"
    /\ UNCHANGED <<mpac, ctx, nsize, tmp, dest, victim, result, heap, zones>>

\* Mutants: an object of the current message, or of a zone the application has,
\* does not keep the block from being rewound.
RewindsReferenced == used = off /\ count[buffer] = 1
RewindsShared == used = off /\ ~referenced

\* Nothing is left to parse, nobody else counts on the block, and no object of
\* the current message points into it.
CanRewind == used = off /\ count[buffer] = 1 /\ ~referenced

\* Mutant: the room that rewinding gains includes the counter.
RewindsOverCounter ==
    /\ pc = "expand"
    /\ IF CanRewind
       THEN used' = COUNTER /\ off' = COUNTER /\ free' = Wrap(free + used)
       ELSE UNCHANGED <<used, off, free>>
    /\ IF CanRewind /\ free' >= req
       THEN granted' = req /\ Return
       ELSE /\ IF off' = COUNTER
               THEN nsize' = Wrap((used' + free') * 2) /\ pc' = "grow_realloc"
               ELSE nsize' = INITIAL /\ pc' = "grow_malloc"
            /\ UNCHANGED <<granted, req, tmp>>
    /\ UNCHANGED <<buffer, ctx, dest, victim, result, heap, zones>>

\* expand_buffer, down to its loops.  When the first unparsed byte is at the
\* start of the block, the block is enlarged, else a new one takes over.
Expand ==
    /\ pc = "expand"
    /\ IF CanRewind
       THEN used' = COUNTER /\ off' = COUNTER /\ free' = free + used - COUNTER
       ELSE UNCHANGED <<used, off, free>>
    /\ IF CanRewind /\ free' >= req
       THEN granted' = req /\ Return
       ELSE /\ IF off' = COUNTER
               THEN nsize' = Wrap((used' + free') * 2) /\ pc' = "grow_realloc"
               ELSE nsize' = INITIAL /\ pc' = "grow_malloc"
            /\ UNCHANGED <<granted, req, tmp>>
    /\ UNCHANGED <<buffer, ctx, dest, victim, result, heap, zones>>

\* Mutant: the bytes in front of the room are forgotten.
NeedsRequestOnly == req

\* What next_size must reach, and where its loop leads.
Need == IF pc = "grow_realloc" THEN Wrap(req + used)
                               ELSE Wrap(req + Pending + COUNTER)
Allocator == IF pc = "grow_realloc" THEN "realloc" ELSE "malloc"

\* Mutant: the loop does not look whether doubling wrapped.
GrowUnchecked ==
    /\ pc \in {"grow_realloc", "grow_malloc"}
    /\ IF nsize >= Need THEN pc' = Allocator /\ UNCHANGED nsize
                        ELSE nsize' = Wrap(nsize * 2) /\ UNCHANGED pc
    /\ UNCHANGED <<mpac, ctx, req, tmp, granted, dest, victim, result, heap, zones>>

\* One iteration of while(next_size < ...) in either branch.
Grow ==
    /\ pc \in {"grow_realloc", "grow_malloc"}
    /\ \/ /\ nsize >= Need
          /\ pc' = Allocator
          /\ UNCHANGED nsize
       \/ /\ nsize < Need
          /\ Wrap(nsize * 2) > nsize
          /\ nsize' = Wrap(nsize * 2)
          /\ UNCHANGED pc
       \/ /\ nsize < Need
          /\ Wrap(nsize * 2) <= nsize
          /\ nsize' = Need
          /\ pc' = Allocator
    /\ UNCHANGED <<mpac, ctx, req, tmp, granted, dest, victim, result, heap, zones>>

\* realloc: the block grows where it is, or moves with its counter and its old
\* place is freed.
Realloc(b) ==
    /\ pc = "realloc"
    /\ b = buffer \/ ~Allocated(b)
    /\ alloc' = [alloc EXCEPT ![buffer] = 0, ![b] = nsize]
    /\ count' = [count EXCEPT ![buffer] = 0, ![b] = count[buffer]]
    /\ mem' = [mem EXCEPT ![buffer] = Nothing,
                          ![b] = [i \in 0 .. nsize - 1 |->
                                    IF i < alloc[buffer] THEN mem[buffer][i] ELSE Garbage]]
    /\ buffer' = b
    /\ free' = Wrap(nsize - used)
    /\ granted' = req
    /\ Return
    /\ UNCHANGED <<used, off, ctx, dest, victim, result, zones>>

\* Mutant: the copy starts after the counter instead of at off.
CopiesParsed(b) ==
    /\ pc = "malloc"
    /\ ~Allocated(b)
    /\ alloc' = [alloc EXCEPT ![b] = nsize]
    /\ count' = [count EXCEPT ![b] = 1]
    /\ mem' = [mem EXCEPT ![b] = [i \in 0 .. nsize - 1 |->
                  IF i \in COUNTER .. COUNTER + Pending - 1
                  THEN mem[buffer][i] ELSE Garbage]]
    /\ tmp' = b
    /\ pc' = "swap"
    /\ UNCHANGED <<mpac, ctx, req, nsize, granted, dest, victim, result, zones>>

\* malloc, init_count, and memcpy of the bytes not parsed.
Malloc(b) ==
    /\ pc = "malloc"
    /\ ~Allocated(b)
    /\ alloc' = [alloc EXCEPT ![b] = nsize]
    /\ count' = [count EXCEPT ![b] = 1]
    /\ mem' = [mem EXCEPT ![b] = [i \in 0 .. nsize - 1 |->
                  IF i \in COUNTER .. COUNTER + Pending - 1
                  THEN mem[buffer][off + i - COUNTER] ELSE Garbage]]
    /\ tmp' = b
    /\ pc' = "swap"
    /\ UNCHANGED <<mpac, ctx, req, nsize, granted, dest, victim, result, zones>>

\* realloc or malloc returns NULL: expand_buffer returns false.
OutOfMemory ==
    /\ pc \in {"realloc", "malloc"}
    /\ Return
    /\ UNCHANGED <<mpac, ctx, granted, dest, victim, result, heap, zones>>

\* Mutant: the old block is dropped even if objects of the message point into it.
SwapDrops ==
    /\ pc = "swap"
    /\ Decr(buffer) /\ UNCHANGED fins
    /\ referenced' = FALSE
    /\ buffer' = tmp
    /\ used' = Pending + COUNTER
    /\ free' = Wrap(nsize - (Pending + COUNTER))
    /\ off' = COUNTER
    /\ granted' = req
    /\ Return
    /\ UNCHANGED <<z, consumed, dest, victim, result, owner, refs>>

\* The unpacker drops the old block and takes the new one.  If objects of the
\* current message point into the old one, their zone inherits its count.
Swap ==
    /\ pc = "swap"
    /\ IF referenced THEN PushFinalizer(z, buffer) /\ UNCHANGED heap
                     ELSE Decr(buffer) /\ UNCHANGED fins
    /\ referenced' = FALSE
    /\ buffer' = tmp
    /\ used' = Pending + COUNTER
    /\ free' = Wrap(nsize - (Pending + COUNTER))
    /\ off' = COUNTER
    /\ granted' = req
    /\ Return
    /\ UNCHANGED <<z, consumed, dest, victim, result, owner, refs>>

\* Mutant: without free(tmp).
SwapLeaks ==
    /\ pc = "swap"
    /\ referenced
    /\ Return
    /\ UNCHANGED <<mpac, ctx, granted, dest, victim, result, heap, zones>>

\* No memory for the finalizer: free(tmp), and the old block stays.
SwapFails ==
    /\ pc = "swap"
    /\ referenced
    /\ Free(tmp)
    /\ count' = [count EXCEPT ![tmp] = 0]
    /\ Return
    /\ UNCHANGED <<mpac, ctx, granted, dest, victim, result, zones>>

\* The application writes n bytes at msgpack_unpacker_buffer() and calls
\* msgpack_unpacker_buffer_consumed(mpac, n); it keeps to buffer_capacity.
Feed(n) ==
    /\ pc = "idle"
    /\ n <= free
    /\ received + n <= MaxBytes
    /\ mem' = [mem EXCEPT ![buffer] = [i \in DOMAIN @ |->
                  IF i \in used .. used + n - 1 THEN received + i - used ELSE @[i]]]
    /\ used' = used + n
    /\ free' = free - n
    /\ granted' = 0
    /\ UNCHANGED <<buffer, off, ctx, req, nsize, tmp, call, alloc, count, zones>>
-----------------------------------------------------------------------------
(* Parsing *)

\* What template_execute returns: 1, 0, or a negative error.
Outcome == {"done", "continue", "error"}

\* What an object reads at the place r points at.
Read(r) == IF r[2] \in 0 .. alloc[r[1]] - 1 THEN mem[r[1]][r[2]] ELSE Garbage

\* template_execute on the n bytes it consumes.  The callbacks for containers,
\* strings, binaries and extensions make the zone if there is none, and the last
\* three set the referenced flag and make an object that points into the block.
\* A callback that succeeded has consumed its header; a failed msgpack_zone_new
\* is an error that changes nothing.
Parse(n, ret) ==
    /\ n <= Pending
    /\ ret = "done" => n > 0
    /\ off' = off + n
    /\ consumed' = consumed + n
    /\ \/ UNCHANGED <<z, referenced, owner, refs>>
       \/ \E zz \in Zone :
             /\ IF z = NULL THEN owner[zz] = "none" ELSE zz = z
             /\ z' = zz
             /\ owner' = [owner EXCEPT ![zz] = "unpacker"]
             /\ \/ /\ n > 0 \/ ret = "error"
                   /\ UNCHANGED <<referenced, refs>>
                \/ /\ n > 0
                   /\ referenced' = TRUE
                   /\ \E P \in SUBSET (off .. off + n - 1) :
                        /\ Cardinality(P) <= MaxRefs
                        /\ refs' = [refs EXCEPT ![zz] =
                                      @ \cup {<<buffer, p, Read(<<buffer, p>>)>> : p \in P}]
    /\ UNCHANGED <<buffer, used, free, expand, victim, result, heap, fins>>

\* msgpack_unpacker_execute called by the application.
Execute(n, ret) ==
    /\ pc = "idle"
    /\ Parse(n, ret)
    /\ UNCHANGED <<pc, dest>>

\* Mutant: the zone of the previous result is not freed.
Next_Forgets ==
    /\ pc = "idle"
    /\ pc' = "next_execute"
    /\ result' = NULL
    /\ UNCHANGED <<mpac, ctx, expand, dest, victim, heap, zones>>

\* msgpack_unpacker_next first frees the zone of the previous result ...
Next_Begin ==
    /\ pc = "idle"
    /\ IF result = NULL
       THEN /\ pc' = "next_execute"
            /\ UNCHANGED <<victim, zones>>
       ELSE /\ BeginFinalizers(result)
            /\ victim' = result
            /\ pc' = "next_wait"
    /\ result' = NULL
    /\ UNCHANGED <<mpac, ctx, expand, dest, heap>>

\* ... then parses; a complete message goes on to release_zone.
Next_Execute(n, ret) ==
    /\ pc = "next_execute"
    /\ Parse(n, ret)
    /\ IF ret = "done" THEN pc' = "flush" /\ dest' = "result"
                       ELSE pc' = "idle" /\ UNCHANGED dest

\* msgpack_unpacker_release_zone, which returns NULL when there is no zone, and
\* msgpack_unpacker_flush_zone (owner "unpacker"), called by the application.
Flush_Begin(d) ==
    /\ pc = "idle"
    /\ d = "app" => z # NULL
    /\ pc' = "flush"
    /\ dest' = d
    /\ UNCHANGED <<mpac, ctx, expand, victim, result, heap, zones>>

\* The zone, if there is one, leaves the unpacker for its new owner.
HandOver ==
    /\ IF dest = "unpacker" \/ z = NULL
       THEN UNCHANGED <<z, owner, result>>
       ELSE /\ z' = NULL
            /\ owner' = [owner EXCEPT ![z] = dest]
            /\ result' = IF dest = "result" THEN z ELSE result
    /\ pc' = "idle"

\* flush_zone when no object points into the current block ...
Flush_Unreferenced ==
    /\ pc = "flush"
    /\ ~referenced
    /\ HandOver
    /\ UNCHANGED <<mpac, consumed, referenced, expand, dest, victim, heap, fins, refs>>

\* Mutant: the flag is not reset.
Flush_KeepsFlag ==
    /\ pc = "flush"
    /\ referenced
    /\ PushFinalizer(z, buffer)
    /\ pc' = "incr"
    /\ UNCHANGED <<mpac, z, referenced, consumed, expand, dest, victim, result, heap,
                   owner, refs>>

\* ... and when one does: the zone gets a finalizer for the block,
Flush_Push ==
    /\ pc = "flush"
    /\ referenced
    /\ PushFinalizer(z, buffer)
    /\ referenced' = FALSE
    /\ pc' = "incr"
    /\ UNCHANGED <<mpac, z, consumed, expand, dest, victim, result, heap, owner, refs>>

\* Mutant: the finalizer is not counted.
Flush_Uncounted ==
    /\ pc = "incr"
    /\ HandOver
    /\ UNCHANGED <<mpac, consumed, referenced, expand, dest, victim, heap, fins, refs>>

\* and then a count on it.
Flush_Incr ==
    /\ pc = "incr"
    /\ count' = [count EXCEPT ![buffer] = @ + 1]
    /\ HandOver
    /\ UNCHANGED <<mpac, consumed, referenced, expand, dest, victim, alloc, mem, fins, refs>>

\* No memory for the finalizer: release_zone returns NULL, and the message that
\* next reports keeps its objects in the zone the unpacker still has.
Flush_Fails ==
    /\ pc = "flush"
    /\ referenced
    /\ pc' = "idle"
    /\ UNCHANGED <<mpac, ctx, expand, dest, victim, result, heap, zones>>
-----------------------------------------------------------------------------
(* The zones the application has, and the end of the unpacker *)

\* msgpack_unpacked_release_zone: the result's zone is the application's to free,
\* after the unpacker is gone as well.
Unpacked_ReleaseZone ==
    /\ pc \in {"idle", "gone"}
    /\ result # NULL
    /\ owner' = [owner EXCEPT ![result] = "app"]
    /\ result' = NULL
    /\ UNCHANGED <<mpac, ctx, expand, pc, dest, victim, heap, fins, refs>>

\* msgpack_unpacked_destroy
Unpacked_Destroy ==
    /\ pc = "idle"
    /\ result # NULL
    /\ BeginFinalizers(result)
    /\ victim' = result
    /\ result' = NULL
    /\ pc' = "wait"
    /\ UNCHANGED <<mpac, ctx, expand, dest, heap>>

\* msgpack_zone_free of a zone of its own, by any thread of the application.
App_FreeZone(zz) ==
    /\ owner[zz] = "app"
    /\ BeginFinalizers(zz)
    /\ UNCHANGED <<mpac, ctx, expand, call, heap>>

\* msgpack_unpacker_reset_zone; the application calls it when there is a zone.
ResetZone ==
    /\ pc = "idle"
    /\ z # NULL
    /\ BeginFinalizers(z)
    /\ victim' = z
    /\ pc' = "wait"
    /\ UNCHANGED <<mpac, ctx, expand, dest, result, heap>>

\* The zone that the call in progress frees or clears has been dealt with.
Resume ==
    /\ pc \in {"next_wait", "wait"}
    /\ owner[victim] # "dying"
    /\ victim' = NULL
    /\ pc' = IF pc = "next_wait" THEN "next_execute" ELSE "idle"
    /\ UNCHANGED <<mpac, ctx, expand, dest, result, heap, zones>>

\* msgpack_unpacker_destroy frees the zone ...
Destroy ==
    /\ pc = "idle"
    /\ IF z = NULL THEN UNCHANGED zones ELSE BeginFinalizers(z)
    /\ victim' = z
    /\ z' = NULL
    /\ pc' = "destroy_wait"
    /\ UNCHANGED <<mpac, referenced, consumed, expand, dest, result, heap>>

\* ... and drops the block.
Destroy_End ==
    /\ pc = "destroy_wait"
    /\ victim # NULL => owner[victim] # "dying"
    /\ Decr(buffer)
    /\ buffer' = NULL
    /\ victim' = NULL
    /\ pc' = "gone"
    /\ UNCHANGED <<used, free, off, ctx, expand, dest, result, zones>>
-----------------------------------------------------------------------------
\* A step of the thread that uses the unpacker: it starts a call ...
Call ==
    \/ \E n \in Request : Fits(n) /\ Reserve(n)
    \/ \E n \in 1 .. MaxBytes : Feed(n)
    \/ \E n \in 0 .. MaxBytes, ret \in Outcome : Execute(n, ret)
    \/ Next_Begin \/ Flush_Begin("app") \/ Flush_Begin("unpacker")
    \/ Unpacked_ReleaseZone \/ Unpacked_Destroy
    \/ ResetZone \/ Destroy

\* ... or goes on with the one in progress.
Continue ==
    \/ Expand \/ Grow \/ OutOfMemory \/ Swap \/ SwapFails
    \/ \E b \in Buf : Realloc(b) \/ Malloc(b)
    \/ \E n \in 0 .. MaxBytes, ret \in Outcome : Next_Execute(n, ret)
    \/ Flush_Unreferenced \/ Flush_Push \/ Flush_Incr \/ Flush_Fails
    \/ Resume \/ Destroy_End

\* A step of a thread that frees zones, or the same thread inside a call.
Finalize(zz) == RunFinalizer(zz) \/ EndFinalizers(zz)

Next == Call \/ Continue \/ \E zz \in Zone : App_FreeZone(zz) \/ Finalize(zz)

\* Calls run on and return; when the application calls is up to it.
Fairness == /\ WF_vars(Continue)
            /\ \A zz \in Zone : WF_vars(Finalize(zz))

Spec == Init /\ [][Next]_vars /\ Fairness

\* The same for an application that asks for room that no block can have.
UnboundedSpec ==
    Init /\ [][Next \/ \E n \in Request : Reserve(n)]_vars
-----------------------------------------------------------------------------
(* Properties *)

\* An object of a zone that has not been freed reads the bytes its message had
\* when it was parsed, whatever the unpacker did to its buffer since: the block
\* has not been freed, moved, rewound or written over.
ObjectsIntact == \A zz \in Zone : \A r \in refs[zz] : Read(r) = r[3]

\* Who will decrement the counter of a block some day: the unpacker (for its
\* current block and for the one it is building) and the finalizers.
Holders(b) ==
    {h \in {<<NULL, 0>>} : b = buffer} \cup {h \in {<<NULL, 1>>} : b = tmp}
      \cup UNION {{<<zz, i>> : i \in {j \in DOMAIN fins[zz] : fins[zz][j] = b}}
                    : zz \in Zone}

\* The counter of a block is the number of its holders, on every interleaving
\* with the threads that run finalizers; flush_zone alone is one behind for a
\* moment, between pushing a finalizer and counting it.
CountExact ==
    \A b \in Buf : count[b] + (IF pc = "incr" /\ b = buffer THEN 1 ELSE 0)
                     = Cardinality(Holders(b))

\* A block is allocated as long as somebody holds it and not longer: no leak and
\* no use after free, on the error paths too.
HeldIffAllocated == \A b \in Buf : Allocated(b) <=> Holders(b) # {}

\* The bytes received and not parsed are all there, in order, at off.
StreamIntact ==
    buffer # NULL => \A i \in 0 .. Pending - 1 : mem[buffer][off + i] = consumed + i

\* used and free always describe the block the unpacker has.
SpaceAccounted ==
    buffer # NULL => /\ COUNTER <= off /\ off <= used
                     /\ used + free = alloc[buffer]

\* "Reserves free space of the internal buffer" (unpack.h): the room that a
\* successful reserve_buffer promised is there until it is filled.
GrantKept == granted <= free

\* realloc is only called on a block nobody else counts on and no object of a
\* live zone points into, which is why it may move the bytes.
ReallocSafe ==
    pc \in {"grow_realloc", "realloc"} =>
        /\ count[buffer] = 1
        /\ \A zz \in Zone : \A r \in refs[zz] : r[1] # buffer

\* Every zone has somebody who will free it: the unpacker's is in mpac->z, and
\* the one a call of next handed out is in the application's result.
ZoneOwned ==
    \A zz \in Zone : /\ owner[zz] = "unpacker" => z = zz
                     /\ owner[zz] = "result" => result = zz

\* push_finalizer is called on a zone, and on the unpacker's own.
FinalizerHasZone ==
    pc \in {"swap", "flush"} /\ referenced => z # NULL /\ owner[z] = "unpacker"

\* Nobody uses memory that is not his: counters, holders and blocks agree at every
\* step, and only a block that is the unpacker's alone is moved.
BlocksCounted == CountExact /\ HeldIffAllocated /\ ReallocSafe

\* The three numbers and the bytes they describe: through rewinding, enlarging and
\* replacing the block, what is not parsed stays at off and the room is the rest.
BufferExact == SpaceAccounted /\ StreamIntact

\* A zone is freed by somebody, and no finalizer is pushed to one given away.
ZonesOwned == ZoneOwned /\ FinalizerHasZone

\* Every call returns: the growth loop ends and no call waits for ever for the
\* finalizers it runs.
CallsReturn == pc \notin {"idle", "gone"} ~> pc \in {"idle", "gone"}

\* What the application can see: the bytes it delivered, those parsed, and what
\* the objects of each zone read.
Objects == INSTANCE ObjectStream
             WITH held <- [zz \in Zone |-> {Read(r) : r \in refs[zz]}]

\* The buffer management is invisible: objects are snapshots of the stream.
RefinesObjectStream == Objects!Spec
=============================================================================
