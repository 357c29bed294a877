# msgpack-c in TLA+

msgpack-c serialises values in the MessagePack format and reads them back, in C
(`src/`, `include/msgpack/*.h`) and in C++ (`include/msgpack/**/*.hpp`, headers
only).  This directory holds TLA+ specifications of it, the TLC runs that check
them on small instances, and TLAPS proofs of the properties that matter most for
instances of every size.

`PROJECT.json` is the machine-readable index: which definition models which lines,
what each run checks, which change of the model each property would catch, which
hazards of the code are covered and, where none is named, why, which theorems are proved.

1. [The system](#1-the-system)
2. [Modules](#2-modules)
3. [Runs](#3-runs)
4. [Findings](#4-findings)
5. [Fairness](#5-fairness)
6. [Proofs](#6-proofs)
7. [Assumptions](#7-assumptions)
8. [Not modelled](#8-not-modelled)
9. [Plan](#9-plan)

## 1. The system

A program that *writes* hands values to a packer, which puts bytes into a buffer
through a write callback.  A program that *reads* lets an unpacker reserve room,
fills it with bytes from wherever they come, and asks for the next object; the
objects live in a zone, and their strings point into the unpacker's receive
buffer.  In C++, adaptors convert between objects and the types of the program.

```
  values --> packer --write--> sbuffer | vrefbuffer | zbuffer | fbuffer
     ^ adaptors                          ...transport...
  objects <-- visitor <--calls-- parser <-- unpacker's buffer <-- bytes
     in a zone                                  |  counted by
        |  finalizers                           v
        +-------------------------------> blocks that are shared
```

| part | state | operations | what is hard, and what makes it correct |
|---|---|---|---|
| C unpacker (`src/unpack.c`, `unpack.h`) | a block with a counter at its head; `used`, `free`, `off`, `parsed`; the zone of the current message; the *referenced* flag | init, reserve_buffer / expand_buffer, buffer_consumed, execute, next, release_zone, flush_zone, reset_zone, destroy | Zones outlive the message, even the unpacker, and are freed on any thread; each holds a count on every block its objects point into. The unpacker rewinds, enlarges or replaces the block under way, and each allocation may fail. *Objects keep their bytes; counters are exact; nothing leaks or is freed early; the bytes still to parse are never lost.* |
| C parser (`unpack_template.h`, callbacks in `unpack.c`) | `cs`, `trail`, the stack of open containers, in a context that outlives the call | template_execute, msgpack_unpack, msgpack_unpack_next | A chunk may end at any place, so every local has to be saved there. *The chunking is invisible; CONTINUE means incomplete; every item has a slot; a message's size is exact.* |
| C++ parser (`v2/parse.hpp`) | the same, with a `std::vector` as stack and a visitor | context::execute | The same, and a visitor that may refuse or throw at any call. *A visitor is called in the order it may expect, and not after it refused.* |
| object visitor (`v2/create_object_visitor.hpp`) | a stack of places in half-made objects | the visitor's functions, move | Its stack and the parser's are different objects. *It writes only to memory allocated for the item; limits are exact.* |
| C++ unpacker (`v2/unpack.hpp`, buffer of `v2/parse.hpp`) | as in C, and a hook: a reference to a member | next, reserve_buffer, skip / remove bytes, release_zone, move | Like the C unpacker, with exceptions out of any step, and moves. |
| zones (`src/zone.c`, `zone.h`; `v1/detail/cpp11_zone.hpp`) | a list of chunks with a bump pointer; an array of finalizers | malloc, malloc_no_align, push_finalizer, clear, is_empty, destroy; C++ allocate (a constructor may throw), move, assign, swap | Oversized requests; alignment; finalizers in reverse order, once. *Regions are disjoint and inside their chunks; each object is destroyed once.* |
| sbuffer (`sbuffer.h`, `v1/sbuffer.hpp`) | `size`, `alloc`, `data` | write, clear, release, destroy | Doubling near the end of size_t; a realloc that fails. *A sink of whole writes.* |
| vrefbuffer (`src/vrefbuffer.c`, `v1/vrefbuffer.hpp`) | an iovec array, a list of chunks | append_copy, append_ref, migrate, clear, destroy | References next to copies; adjoining copies are merged; contents move between buffers of different parameters. *The vectors spell the bytes written, in order, in memory that is owned.* |
| zbuffer (`zbuffer.h`) | a zlib stream, a block | write, flush, reset, reset_buffer, release_buffer | Memory runs out when half a write is compressed; zlib counts the room in 32 bits. *The stream is whole when flush returns.* |
| packer (`pack_template.h`, `pack.h`, `v1/pack.hpp`), fbuffer, timestamps | none but the buffer | pack_* | Any append may be refused; nine forms of a number. *What is reported as packed is in the stream, whole; the shortest form that holds the value.* |
| objects (`objectc.c`, `v1/object.hpp`) | `object_parser`'s stack; each visitor's cursor | pack, clone, `==`, `<<` | The walk has no recursion; each visitor leads a second cursor of its own. *The result is what a recursion would give.* |
| adaptors (`v1/adaptor/*`), macros (`MSGPACK_DEFINE...`) | the application's variable | convert, as, pack | A variable is converted into again and again, by two implementations, from objects of the wrong type or size. *A value arrives as that value.* |
| Spirit X3 parser (`v2/x3_*.hpp`) | none | one parse | A grammar, as expressions of Boost's templates. |
| vendored and generated code (`predef/`, `preprocessor/`, `cpp03_*`, `erb/`) | - | - | Configuration and macros; classes generated for each number of members. |

Parts interact by plain calls, on one thread, except that a zone's finalizers
(`decr_count` on a block) run on the thread that frees the zone.  There is no
network, no persistence and no timing: what is hard here is memory running out
between two steps, the order in which an application may legally call, numbers
at the end of their range, and the one real interleaving, that of finalizers with
the unpacker.

## 2. Modules

| module | what it is | specification it implements |
|---|---|---|
| `Unpacker` | `msgpack_unpacker`: who owns blocks and zones | `ObjectStream` |
| `TemplateContext`, `UnpackOnce`, `TemplateReader` | `template_execute` with its callbacks; the three ways to call it; what it is compared with | `MessageReader` |
| `ParseContext` | `context::execute`, one call of the visitor a step | `VisitorProtocol` |
| `CreateObject`, `ObjectReader` | `create_object_visitor` on it, or an application's visitor; what it is compared with | `VisitorProtocol`, `MessageReader` |
| `CppUnpacker` | `msgpack::unpacker`: blocks, zones, hook, moves | `ObjectStream` |
| `Zone` | `msgpack_zone` | `Arena` |
| `CppZone` | `msgpack::zone` | - |
| `Sbuffer` | `msgpack_sbuffer` | `ByteSink` |
| `Vrefbuffer` | `msgpack_vrefbuffer`, two of them | `ByteVectors` |
| `Zbuffer` | `msgpack_zbuffer` over an external compressor | - |
| `PackFormat`, `Packer`, `PackedStream` | the forms of numbers; the calls of a packer; what they are compared with | `MessagePack`, as a reader |
| `ObjectParser`, `ObjectVisitors` | `object_parser` and the visitors of objects | `VisitorProtocol` |
| `Adaptors` | conversions of C++ types | - |
| `WireFormat`, `MessagePack` | header bytes (`unpack_define.h`); the format by recursion | - |
| `MC*` | instances for TLC | |
| `*_proofs` | the theorems | |

`MCBuffers` and `MCSerializer` are harnesses: several components that share no
state, of which a behaviour picks one (`part`); the others stay as initialized.

### Unpacker

State.  `buffer`, `used`, `free`, `off` and `z` are the fields of
`msgpack_unpacker`, `referenced` is the flag in its context, `result` the zone in
the application's `msgpack_unpacked`.  A block is a model value `b` with a size
`alloc[b]`, a counter `count[b]` and bytes `mem[b]`; a zone has an `owner`, a
stack of finalizers `fins` and the set `refs` of places that its objects point at.
A byte *is* its position in the stream the application received, so that "reads
the right bytes" is an equation.  A member of `refs` is a block, an index in it
and the byte that was there when the object was made.

Actions.  A call of the library that touches a counter, allocates or loops is
several steps, with `pc` as its program counter: `Reserve`, then `Expand` (the
rewind and the choice of branch), `Grow` once per iteration, `Realloc` or `Malloc`
(or `OutOfMemory`), `Swap` (or `SwapFails`).  `next` is `Next_Begin` (frees the last
result), `Next_Execute`, then the steps of `release_zone`/`flush_zone`:
`Flush_Unreferenced`, or `Flush_Push` (or `Flush_Fails`) and `Flush_Incr`.
`App_FreeZone`, `RunFinalizer` and `EndFinalizers` are steps of whichever thread
frees a zone and interleave with everything; when the unpacker itself frees or
clears a zone it waits for them (`Resume`).

What the parser makes of the bytes is left open: `Parse` takes any number of the
pending bytes, may make the zone, and may make objects that point at bytes it took.
That it takes only bytes that have arrived is what `TemplateContext` shows
(`ReadsReceived`).

Properties.  `ObjectsIntact`; `BlocksCounted` (counters are the number of holders,
a block is allocated iff held, realloc only moves what nobody refers to);
`BufferExact` (`used`, `free`, `off` and the bytes they describe); `GrantKept`;
`ZonesOwned`; the liveness property `CallsReturn`; and the refinement
`RefinesObjectStream`, in which blocks, counters and finalizers have disappeared.
The counter has one exception, stated in it: `flush_zone` pushes the finalizer and
then counts it.  The zone is still the unpacker's in between, so nobody can run the
finalizer early.

### TemplateContext, UnpackOnce, TemplateReader

State.  `cs`, `trail` and `stack` are the context's (`top` is the length of
`stack`); `p` and `obj` are locals of `template_execute`; `stack[i].size` is the
number of items stored in the container of frame `i`, `stack[i].slots` the number
allocated.  Offsets are positions in the stream, because `Unpacker` shows that the
block holds the stream.

Actions.  `Execute` enters the call; `Header` is one turn at a header byte with a
disjunct per class of bytes; `Out` and `Trail` are the default case of the switch,
when what trails the header has not or has arrived; `Push_ArrayItem`,
`Push_MapKey` and `Push_MapValue` are the three cases of `_push`; `Finish` is
`_finish`; `Next_Done` is the rest of `next` with `msgpack_unpacker_reset`.  Any
callback that needs a zone may find no memory for it, and so may a container.
`UnpackOnce` adds `msgpack_unpack` and `msgpack_unpack_next`, which begin afresh
with every call and move the application's `*off` by rules of their own.

`MessagePack` defines what the first object of a sequence of bytes is by recursion
on the format, with no state and no stack, and `MessageReader` is a process that
delivers such objects as bytes arrive.  `RefinesMessageReader` says that the parser
does the same, whatever the chunks and whichever function is called;
`Once_OutcomeHonest` that CONTINUE is returned only where the reference reading
lacks bytes, and an error only where it sees one; `OffsetExact` what `*off` tells the
application; `PlaceExact` that only bytes that arrived are read, `parsed` is the
message's size so far, and an item has a slot.

### ParseContext, CreateObject

`ParseContext` is the C++ parser with the calls of the visitor as steps: after
`Header` and `Trail` come `start_array`, `start_array_item` and so on, each of which
may be refused or throw.  `VisitorProtocol` is what a visitor may rely on: n items
announced are n items started, read and ended, keys and values in turns.
`CreateObject` is `create_object_visitor`, which writes through a stack of places
(`m_stack`) into blocks (`mem`): `StacksAgree` says that the place it would write next
is a cell allocated for that item, and that its stack describes the same containers as
the parser's.  `LimitsExact` compares what the limits refuse with the object that the
bytes spell; it and the refinement of `MessageReader` are in `ObjectReader`.  The unpacker may be moved between calls.

### CppUnpacker

Like `Unpacker`, for `msgpack::unpacker`; what that module takes apart (doubling,
single finalizers) is one step here.  New are the hook that saves a replaced buffer,
which is a reference to a member (`HookOwn`), exceptions out of `next`, skipped and
removed bytes, `parsed_size`, and the move between two places (`Move`).

### Zone, CppZone

State.  `chunk_size`, `free`, `ptr`, `array` and `tail` are the fields of
`msgpack_zone`.  `chunks` holds the sizes of the blocks in the list, the head last; a
place in a chunk is counted from the start of its block, so the data begins at `HEADER`,
the size of the next pointer.  `given` records the regions handed out since the last
clear, `pushed` and `called` the finalizers, each known by its number.

Actions.  `Malloc` and `Malloc_NoAlign` cut a region off the newest chunk (`CutOff`) or
begin a `malloc_expand` (`Enlarge`), which is `Grow` per iteration and then `Expand` or
`ExpandFails`.  `PushFinalizer` and `PushFinalizer_Expand` are a push with and without a
slot.  `Begin`, `CallFinalizer` per finalizer, and `Clear` or `Destroy` are the two calls
that run them.

Properties.  `HandedOutOnce` (room, regions inside chunks, disjoint, and `is_empty`
honest), `FinalizersExact`, `CallsReturn`, and `RefinesArena`, in which the chunks have
disappeared.

`CppZone` has two pools and any alignment; `Construct_*` is `allocate<T>`, whose
destructor is pushed before its constructor runs; `Undo` is what a throw takes back;
`Move`, `Assign_*` and `Swap` pass chunks and finalizers on.  `MemoryOwned` and
`DestroyedOnce` say that each chunk and each finalizer is in one pool, once, through all
of this.

### Sbuffer, Vrefbuffer, Zbuffer

`Sbuffer` is `Write`, `Grow` (per iteration), `Realloc`/`ReallocFails`, `Copy`, `Clear`,
`Release` and `Destroy`, with size_t arithmetic modulo `Word`.

`Vrefbuffer` has two buffers with chunks of different sizes; `migrate`, which allocates
twice and loops, is several steps, the other calls one each.  `MemoryOwned`: every byte a
buffer spells or may write to is allocated, its own, and seen by nobody else who writes.

`Zbuffer` is one step for each call of `deflate` and of `realloc`.  `deflate` is external:
it takes and gives as much as it likes within what its manual says.  `RoomHonest`: room
inside the block, also where `uInt` cannot count it; `StreamExact`: nothing is lost on
the way, and the stream is whole when flush returns it.

### PackFormat, Packer, PackedStream

A number is the sequence of its bytes; `PackFormat` has the decision trees of
`pack_template.h` and `timestamp.h`, `Packer` the calls, as a list (`agenda`) of pieces
still to append and objects still to be taken apart.  `StreamWhole` (`PackedStream`) reads
the stream with `MessagePack`: the objects whose calls returned 0, in order, and what a failed
call leaves is an unfinished object at the end.  `NumbersExact`: each form says the number it
was given (`HeaderSaysNumber`), an integer in the fewest bytes (`MinimumSize`), and a timestamp
reads back as it was (`TimestampKept`), where no append was refused.

### ObjectParser, ObjectVisitors

`ObjectParser` is `object_parser::parse` and its `elem` stack.  `ObjectVisitors` adds the
visitors for packing, for the size and the making of a copy, for `==` and for `<<`, and an
application's own.  `VisitsExact` compares each with a definition by recursion, and
`msgpack_object_equal` with `==`.

### Adaptors

One variable of a C++ type, which is a tuple such as `<<"map", K, V>>`.  `Convert` is
`o.convert(v)`, `As` is `o.as<T>()`: they are implemented apart, and `has_as` decides
which one a member of a struct gets (`ConvertMember`).  `InOrder` is what is left of a
container when one of its items throws.  `ObjectOf` is what the sender packs.
`ConversionsExact`: a value that a program packs arrives, whatever the variable held; no
number is cut off; nothing of the old value shows; `convert` and `as` agree where sizes and
keys are as they should be; and memory outside the object is read only where an array is
shorter than the type asks for.  `HeldKept`: what stays when a conversion throws or finds
fewer members, which is how a struct can be extended (`test/convert.cpp:40`); a struct whose
conversion throws midway has the members that arrived up to the one no value was sent for, and
those behind it as they were.

## 3. Runs

| run | instance | checks |
|---|---|---|
| `buffers` | an sbuffer with a size_t of 3 bits and chunks of 0, 1, 2 and 5 bytes, or an unpacker with 2 blocks, 2 zones, a size_t of 4 bits and a request of 9 | `CopyExact`, `WriteReturns`, `RefinesByteSink` of `Sbuffer`; `CallsReturn` of `Unpacker` |
| `unpacker` | 3 blocks, 2 zones, a stream of 3 bytes, blocks of 2 bytes that grow, a counter of 1 byte | `ObjectsIntact`, `BlocksCounted`, `BufferExact`, `GrantKept`, `ZonesOwned`, `RefinesObjectStream` |
| `unpacker_reserve` | requests up to the end of size_t | violates `GrantKept` |
| `template_reader` | about 2000 streams, a stack of 3, unsigned int of 24 bits | `PlaceExact`, `RefinesMessageReader`, `Once_OutcomeHonest`, `OffsetExact`, `Once_CallsReturn` |
| `zone` | a size_t of 6 bits, first chunks of 0 and 4 bytes, requests of 0, 1, 3, 5, alignment and header 2, 3 regions and finalizers | `HandedOutOnce`, `FinalizersExact`, `CallsReturn`, `RefinesArena` |
| `zone_align` | an alignment of twice the header | violates `InData` |
| `create_object` | streams of up to 5 bytes and one with each header; limits of 2 on most lengths; an unpacker with its visitor, or a visitor that refuses or throws | `StacksAgree`, `RefinesVisitorProtocol`, `RefinesMessageReader`, `LimitsExact`, `CallsReturn` |
| `create_object_move` | the same, with moves while a message is open | violates `ObjectWhole` |
| `cpp_unpacker` | 2 unpackers, 3 blocks, 2 zones, 2 bytes, requests of 3 | `ObjectsIntact`, `BlocksCounted`, `BufferExact`, `RefinesObjectStream` |
| `cpp_zone` | 2 pools, 3 chunks at two addresses, 2 regions and finalizers, requests of 1 and 4 with alignment 1 and 4 | `MemoryOwned`, `DestroyedOnce` |
| `serializer` | one of five components: `Packer`, two `Vrefbuffer`s, `Zbuffer`, `ObjectVisitors`, `Adaptors` | `StreamWhole`, `NumbersExact`; `MemoryOwned`, `RefinesByteVectors`; `StreamExact`, `RoomHonest`; `VisitsExact`, `RefinesVisitorProtocol`; `ConversionsExact`, `HeldKept` |
| `vector_bool` | a `vector<bool>` | violates `Overwritten` |

`CHECK_DEADLOCK FALSE` stands where a system may really stop: the bound on the bytes is
reached, an unpacker is destroyed, an error ends the parsing.

Why the bounds are enough.

* `buffers`.  With 8 values of a size_t every capacity meets the wrap-around of the
  doubling after two writes; chunks of 0, 1, 2 and 5 bytes reach "fits", "one
  doubling", "several doublings" and "doubling wraps, take the exact size".  The
  unpacker's request is past half the size_t, so that its doubling wraps too.  There is no
  symmetry, because liveness is checked.
* `unpacker`.  Three blocks are the current one, the one that is to replace it and
  one that a zone still holds; two zones are the one being filled and one that the
  application has.  With three bytes in blocks that begin with room for one, the
  run rewinds, enlarges, replaces and does so for one message twice.  Blocks and
  zones are symmetric: only safety is checked, and `RefinesObjectStream`'s right-hand
  side is symmetric too.  The invariants are the formulas that are proved without any bound.
* `template_reader`.  `Short` is every stream of three bytes over an alphabet with
  a member of each kind of header, and every stream of four over a smaller one;
  `Long` has each of the other headers, with sizes 0 and more, negative and positive
  numbers, a fixnum behind each to catch a parser that stops in the wrong place, and
  containers nested up to and beyond the stack.  Chunks of all sizes are tried on
  all streams; the functions that keep no place have fewer streams (`MCOnceStreams`),
  because what they do with a header is the same code.  `UINT` is 2^24 and not 2^32
  because TLC computes in 32 bits: the ext 32 size that wraps is then `00 ff ff ff`.  No stream
  has a size that 24 bits cut off; the theorems are about 32 bits and more.
* `zone`.  A chunk_size of 0 needs the exit of the doubling loop and makes every chunk
  full at once; one of 4 bytes has requests that fit, that fit but for their padding, and
  that need a larger chunk.  Three regions are one in an old chunk, one in the newest, and
  one more; three finalizers make an array that begins with one slot grow twice.
* `create_object`.  Streams as for `template_reader`, three bytes over 13 headers and five
  over three of them.  Each limit lies where some streams have less, as much and more; a
  depth of 3 with arrays in maps in arrays is the deepest that five bytes fill.  `SIZE_MAX`
  and `UINT32_MAX` are both 2^24 - 1, which is a build of 32 bits: there `check_ext_size`
  refuses the ext 32 that the cast of `Counted` would cut in one of 64.
* `cpp_unpacker`.  As `unpacker`, with two places to move between; bytes are two, because
  what needs a third (replacing twice for one message) is the C code's as well.
* `cpp_zone`.  A base that is and one that is not a multiple of the larger alignment; two
  pools so that an assignment has something to lose; a third chunk so that one is left.
* `serializer`.  `Packer`: three calls with nested objects, every append refused once, and
  around every boundary of the nine forms all numbers whose bytes in front are 0 or 255.
  `Vrefbuffer`: three chunks and three vectors are what two buffers need for a migration
  that has to grow the target.  `Zbuffer`: blocks of up to twice what `uInt` counts.
  `ObjectVisitors`: every leaf, and containers of up to two nested three deep.  `Adaptors`:
  29 types, integers at the ends of 4 and 5 bits, containers of up to two items.

## 4. Findings

* **`unpacker_reserve`.**  `size + mpac->used` (`unpack.c:446`, and the sum at 467) is not
  checked for overflow, so for a request that no block could hold the growth loop ends
  at once and `reserve_buffer` returns true without the room, where "Reserves free space
  of the internal buffer" (`unpack.h:105`) promises it.  The sums inside the loops *are*
  guarded.  All other runs, and the proofs, take as a precondition of `Reserve` that the
  sum can be counted in a size_t (`Fits`).
* **`zone_align`.**  `msgpack_zone_malloc` asks `malloc_expand` for `MSGPACK_ZONE_ALIGN - 1`
  bytes more than it needs, and then rounds the pointer it gets *down* (`zone.h:123`).  The
  pointer is behind the chunk's next pointer, so where the alignment is more than the size
  of a pointer the memory handed out begins at the next pointer itself.
  `CMakeLists.txt:362` sets the alignment to 8 for a sparc; a 32-bit build there has pointers
  of 4 bytes.  Everywhere else `HEADER % ALIGN = 0` (`HeaderAligned`), the rounding does
  nothing, and `InData` is a theorem.
* **`create_object_move`.**  The move constructor of `create_object_visitor`
  (`create_object_visitor.hpp:43`) takes the stack but not the object that its first place
  stands for: an unpacker moved while a container is open delivers nil in its place.
  `test/streaming.cpp:139` moves an unpacker between chunks and expects the objects (156),
  with messages of one byte each.  The other runs have `MoveOpen = FALSE`.
* **`vector_bool`.**  `convert` into a `vector<bool>` resizes it only if the array has items
  (`vector_bool.hpp:31`): an empty array leaves the old contents, where "`v` is overwritten"
  (`object_fwd.hpp:138`).

## 5. Fairness

The library has no threads of its own.  A call that has begun runs to its end, so the steps
inside calls are weakly fair: `WF_vars(Continue)` in `Unpacker`, `TemplateContext`,
`UnpackOnce` and `Zone`, the steps of `write` in `Sbuffer`, those of `execute` in
`ParseContext` and `CreateObject`, those of `parse` in `ObjectParser`.  A thread that frees a
zone runs its finalizers, so `Finalize(zz)` is weakly fair for each zone.  Nothing is assumed
of when or whether the application calls, of whether bytes arrive, or of whether memory
is found: `Realloc` and `OutOfMemory` are both steps of `Continue`, and either will do.
`serializer`, `cpp_unpacker` and `cpp_zone` check safety only and have no fairness.

## 6. Proofs

All theorems are of the form `Spec => []Inv` or `Spec => Abstract!Spec` (its safety part) and
hold for all values of the constants under the assumptions `SbufferConstants`,
`UnpackerConstants`, `CppUnpackerConstants`, `TemplateConstants`, `ZoneConstants`,
`CppZoneConstants`, `VrefbufferConstants`, `ZbufferConstants` and `ParseConstants`: sizes are
naturals below the size of size_t, the first block has room for its counter, the set of zones
is finite, an unsigned int has more than 16 bits, streams are sequences of bytes, a packer
writes at most `MSGPACK_PACKER_MAX_BUFFER_SIZE` bytes from its stack at a time, and a zone is
not asked for half of the address space at once.  `VrefbufferConstants` is a definition and a
hypothesis of its theorems, which TLC finds to hold of the `serializer` run
(`SerializerConstants`), and so are `PackerConstants` and `StreamConstants`, what C's types and
the format let a caller pass (see 7), and `ParserConstants` of `ObjectParser`, that what is within
an object is an object; the others are ASSUMEs of their modules.
Some theorems have a hypothesis besides, `HeaderAligned` in `Zone_proofs`, `~MoveFreely` in
`CppUnpacker_proofs` and `Wide` in `TemplateContext_proofs`, all said below.

**Packer_proofs**, of the packer and the buffer that most packers write to.  `Sbuffer`:
`CopyExact` and `RefinesByteSink`.  The inductive invariant adds `Progress`, what `nsize` has
reached in each place of `write`, and `NoGarbage`, that what lies below `size` is what the caller
wrote.  The copy is the step in which `ByteSink` writes.

`Packer`: `NumbersExact`, for every number of 8, 16, 32 and 64 bits, signed or not, every size
below 2^32 and every time.  A number is the sequence of its bytes, so no arithmetic on 64-bit
numbers is needed: what the decision trees of `pack_template.h` test is which of the leading
bytes are 0 or 255 and where the first of the others lies.  The lemmas come in three layers.

* Of numbers: what the low bytes of a number say when extended to nine bytes again, and which
  widths keep it; `Least`, the smallest of a set of widths, is there and is a lower bound.
* Of each packing function: `UintSays`, `IntSays`, `ArraySays` and the others, that its header
  says what it was given; `UintShortest` and `IntShortest`, that no form that says the same is
  shorter, which for a signed type takes in the unsigned forms that a positive number fits;
  `TimestampBack`, that the three bodies of a timestamp read back, where the eight-byte one
  shares a byte between nanoseconds and seconds.
* Of the packer: `PackerInv`, that while the first call into a stream is under way, what is out
  and what the agenda holds are in turn what that call packs, and that a stream which one call
  has packed is just that; an append that is refused ends a header's call, but not a timestamp's.

And `StreamWhole`: whatever objects are packed in whatever number of calls, and whatever append
is refused, a reader of the stream finds those whose calls returned 0, and the one being packed
once its last byte is out.  The reader (`MessagePack`) is recursive and `msgpack_pack_object` is
too, so what both do is said of bytes and not of the two recursions.

* `Code(L, o, c)`: the bytes `c` are read as the object `o` wherever they stand in a stream and
  whatever is behind them, at every depth at which `o` may lie; and where the stream ends within
  them the reader asks for more.  That nothing but `c` need be known of the stream is what makes
  it hold of an object within another.
* A leaf's bytes are a code because the header says what it should (`FrontSays`, for all kinds of
  header, and that `BigEndian` undoes the `Shortened` numbers that C's shifts make); those of an
  array or map are if each item's are (`ListRead`, by `Induction` on the items left).  So every
  object that C's types hold has one (`CodesAre`, from the deepest level up).
* `Spelled(L, A, b)`: the agenda `A`, pieces to append and objects to take apart, comes to the
  bytes `b`.  Taking the object at its head apart spells what it spelt.
* The invariant, `StreamInv`: what is out is `done`, codes of the objects packed, and then `part`;
  `part` is empty between calls, and in a call that has not failed `part` and any spelling
  of the agenda are a code of the object being packed (`Streamed`).  Where an append was refused
  `part` is the proper beginning of some code (`Begun`): of a str whose append was cut short by a
  full disk as much as of an array whose items are missing.  Each action keeps it (`GoingBegin`,
  `GoingOpen`, `GoingAppend`, `GoingRefuse`, `GoingReturn`, `GoingClear`), and `GoingWhole` is
  what the reader makes of it.  As it speaks of all streams of bytes, TLC cannot evaluate it; what
  it implies is what the `serializer` run checks.

`StreamConstants(Level)` is what is assumed: the objects are such as C's types hold (`Holds`) and
nest no deeper than the reader does, and the calls that section 7 leaves out are not made.
`Level` has the objects by how deep they lie; TLC evaluates the assumption for those of the
`serializer` run (`MCLevel`).

**Buffers_proofs**, of the other two buffers.

`Vrefbuffer`: `MemoryOwned` and `RefinesByteVectors`, for any number of buffers and
of chunks, any sizes and strings of any length.

    IInv == MemoryOwned /\ HeadHolds /\ CallInv

* `HeadHolds`: the newest chunk of a buffer has at least its `chunk_size` bytes, which `clear`
  takes for granted when it keeps that one.  A `migrate` puts the chunks of one buffer in front
  of the other's, so this is where the assumption on the two `chunk_size`s (see 7) is needed;
* `CallInv`: what a `migrate` has established at each of its places: the two buffers, the chunk
  in hand, and that the array it is about to copy into has the room;
* of the parts of `MemoryOwned`, `RoomUnseen` and `VectorsInside` are what the refinement
  needs: bytes are only ever written where no vector of any buffer looks, so every vector goes
  on showing what it showed, and one that is lengthened shows what was written behind it.

What a list of vectors spells is defined by recursion over the list.  That the spelling of one
more vector, of a longer one, and of two lists linked is what it should be is proved by
induction: the library's induction theorems take a predicate, which the provers cannot
instantiate, so `Induction` is stated for a *set* of numbers and derived from the
well-foundedness of `<`; each use names the set for which the claim holds.

`Zbuffer`: `RoomHonest` and `StreamExact`, for every behaviour of the compressor that
zlib's manual allows.  The inductive invariant: `OutputFits`, `next_out` plus `avail_out` ends
inside the block; `RoomKnown`, they end *at* its end if `uInt` can count the block;
`InputInv`, what was written is what the compressor took followed by `next_in`;
`NothingLost`, the stream so far is what was released, what is in the block and what the
compressor keeps; `FlushedWhole`, nothing is kept when `flush` returns the block.

**Unpacker_proofs.**  All invariants of the `unpacker` run and
`RefinesObjectStream`.  They hang together and are proved at once, as

    IInv == TypeOK /\ LocalInv /\ ZoneInv /\ BufferInv /\ CountInv /\ RefInv /\ GrantKept

* `LocalInv` says what `req`, `nsize`, `tmp` and `victim` mean at each `pc`;
* `ZoneInv` who has a zone, and that a zone nobody has is empty;
* `BufferInv` that the current block is allocated, has `used + free` bytes, and holds
  the unparsed bytes at `off`;
* `CountInv` is `CountExact` with the set of holders counted, and allocated iff held;
* `RefInv` is the heart.  A reference is *anchored*: its zone has a finalizer for the
  block, or it is of the current message, into the current block, in front of `off`,
  and the flag is set.  Anchored references are what makes `ObjectsIntact`
  inductive: a block with a finalizer has another holder than the unpacker, so its
  counter is not 1, so it is neither rewound nor given to realloc; a block with the
  flag set is not rewound either; and bytes are only ever written behind `used`.

The module has the lemmas on blocks, zones and holders (what pushing or running a
finalizer does to the cardinality of `Holders(b)`), one lemma per action for the type
invariant, one per action and conjunct for the rest, the theorems, and the refinement,
whose steps map to `Receive`, `Consume`, `Drop` or a stutter.

**CppUnpacker_proofs.**  All invariants of the `cpp_unpacker` run and `RefinesObjectStream`,
for an application that does not move an unpacker while it refers to its block
(`~MoveFreely`, see 7).  The invariant has the conjuncts of `Unpacker`'s, for a set of
unpackers that have moved to and from one another:

    IInv == TypeOK /\ LocalInv /\ ZoneInv /\ BufferInv /\ CountInv /\ RefInv /\ ReserveKept

What differs from C is the hook, by which the zone of a message saves the block it refers to
just before that is replaced.  It is a reference to an unpacker, and `LocalInv` has it that
whenever it can fire it is to the very unpacker that is being enlarged, which need not be so
for an unpacker that moves freely.  `CountInv` counts a block that an unpacker has let go of and whose finalizer is
not yet pushed.

**CppZone_proofs.**  `MemoryOwned` and `DestroyedOnce`, for any sizes, alignments and numbers
of zones, and any malloc or constructor that throws.

    IInv == TypeOK /\ RoomInv /\ ListInv /\ RegionInv /\ FinInv /\ StateInv /\ CallInv

* `RoomInv`: the room of a zone is the rest of its newest chunk, and its oldest chunk has
  `m_chunk_size` bytes, which `clear` counts on when it keeps that one;
* `ListInv`: every chunk that is not freed is in one list, once;
* `RegionInv`: the regions of the newest chunk end in front of `m_ptr`, from which it follows
  that no two overlap;
* `FinInv`: `DestroyedOnce`, extended to the steps in which it does not hold: an object in
  the making (`Owed`), and a zone whose chunks an assignment has freed ahead of its
  finalizers (`Keeper`);
* `StateInv`, `CallInv`: the region of the object in the making is the last one of its zone's
  newest chunk and its finalizer the last in the array, so that taking back the one and the
  other after a constructor has thrown takes back just these.

Moving a zone and swapping two exchange everything that two zones have; one lemma on
relabelling zones proves both.

**TemplateContext_proofs**, of the parser in C, as an unpacker or run by the functions of one
object.  `PlaceExact`, `OffsetExact`, `RefinesMessageReader` and `Once_OutcomeHonest`: however
the stream is cut up, the parser delivers the objects that a reading of the whole stream finds
and says what that reading says, for every stream, depth of the stack and function called.

The invariant `Inv` adds to `PlaceExact` `PlaceInv`:
where `p`, `off` and `start` are for each `pc`, and that the state saved between two
calls is a header, or one of the states that wait for a trail, with the trail it waits for.
`OnceInv` is what is left of it between two calls of the functions of one object: their context
need not be one to go on from, as after an error, and the next call initialises it.

To that `ReaderInv` adds what the bytes read so far make of the message.  `One(s, e, i, d)` is
what begins at index `i` of the bytes up to `e`, at depth `d`, as `MessagePack` reads it.
The stack is a list of claims on the future, so the invariant is about it:

    Reads(s, e, b, st, it, r) == \E c : /\ c[0] = One(s, e, b, 0)  /\  c[Len(st)] = r
                                       /\ \A t \in 1 .. Len(st) : c[t - 1] = Combined(..., c[t])

the message at `b` is what it is when what is read next turns out to be `r`.  `Combined` adds
to the items that a container has what `r` is and what `Many`, the reading of those that it
still needs, finds behind `r`.  Whether bytes lack or an error is met deep inside comes out of
the same equation.  A step on a header, a trail or the climb out of full containers makes the
top of the stack, and so `r`, another one; that it makes the same message is `OpensSome` for a
container that is opened (the reading of `n + 1` objects is one and `n` more), `OpensEmpty` for
one of none, and `NextItem` and `LastItem` for the climb; `ReadsDeeper` adds a claim to the
chain and `ReadsUp` takes one off.  The step that delivers has `st = << >>`, so `r` is the
message.  The lemmas behind:

* of the reading: `Series` is a recursive function on how much is left to read; what an object
  is, by the depth and number of objects, follows by `Induction` stated for sets (see
  `Vrefbuffer` above), and for two numbers that change at a time by the least element of
  a set; `ManyGood`, that what is whole ends behind where it begins and is a list as long
  as was asked for; `Enough`, that what is known of the bytes behind an object is enough to read
  it; `MoreAlike`, that a longer look ahead makes no difference;
* of numbers: `Load`, the shifts of `unpack_template.h`, is `BigEndian` and `TwosComplement`;
* of headers: for each class of the 256, the state, trail and push that `template_execute`
  chooses are those of the reading.

An unsigned int is assumed to have 32 bits (`Wide`), as 4-byte sizes would be cut off otherwise;
one whose ext 32 size is all ones wraps when its type byte is added, which the reading says as
well.

**Zone_proofs.**  `HandedOutOnce` (under `HeaderAligned`), `FinalizersExact` and
`RefinesArena`.  The inductive invariant adds `Progress`, what the doubling loop has reached;
`Room`, that `ptr` and `free` are the rest of the newest chunk and that the oldest one has
`chunk_size`, which is what `clear` counts on; and `RegionsInside`, that the regions of the
newest chunk end in front of `ptr`, from which `Disjoint` follows.  `FinOnce` says of the
array what `FinalizersExact` says, and that it has no finalizer twice.  `Untouched` says that
as long as the only chunk is the first one and is full, nothing but empty regions was handed
out: with it `is_empty` is honest.

**VisitorProtocol_proofs**, of the two parsers of C++.  `ParseTypeOK`, `ParseReadsReceived` and the refinement of
`VisitorProtocol`: for every stream, every way to cut it into chunks, and every call that is
refused or throws, the visitor is called in the order it may rely on.  The invariant is four parts: `Position`, where `p` and `off` are; `State`, that a saved state waits for the trail
of its header; `Shape`, which frame is on top when the visitor is told of an item; `Told`, that
the record of the calls is a sequence.  The refinement mapping reads the visitor's view (what
is open, how many items each has left, and which was begun) off the stack and `pc`.  The stack
counts an item only when the parser is done with it, so the mapping has two readings of a
frame, one whose next item was begun (`Settled`) and one where it is about to be (`Beginning`).

Of `create_object_visitor` the module proves `StacksAgree`, and that the parser with it, or
with an application's visitor, still refines `VisitorProtocol`; with no assumption on the
limits, and whether or not an unpacker is moved within a message (`MoveOpen`).  The invariant

    CreateInv == Inv /\ VisitorInv

adds what the stack of places (`m_stack`) has to do with the parser's counts (`stack`) as long
as the message can go on (`Live`).  `Nested`: the first place is the root's, then there is one
for each count, in blocks that were allocated later the deeper they are, and each is `Ahead` of
as many cells as its container has items to start (`Remaining`), none of them written.
`Unwritten`: so is the cell of the item under way.  The parser counts an item after the visitor
has left it, so at `end_array_item` and the other ends `PlacesAt` and `CountsAt` say which
places and which counts belong together.  A value is written by `WrittenAt` (`WriteKeeps`), a
container is allocated (`PushKeeps`), an item ended (`ForwardKeeps`), a container ended
(`PopKeeps`), and a move replaces the root's block only (`RootKeeps`); since the blocks of
the places differ, no other place notices.

Of `object_parser` it proves that it refines `VisitorProtocol` as well, and `CursorsInside`:
for all objects, since a set that holds them and what is within them is all that the proof
needs to know of trees.  `ObjectInv` says of each place of `parse` what the stack of cursors is
there: below the innermost, each container has an item under way (`Engaged`), with its pointer
at the item and the count of those behind it; the innermost one has none left at `end`, and at
`visit` it points to the object visited.  That the protocol still holds when a visitor like that
of `clone()` parses twice is model-checked in `ObjectVisitors`.

The parsers of bytes in C and C++ share the same first lemmas on `WireFormat`, how many bytes trail a
header and what is loaded from them.

**Only model-checked.**  Liveness (`CallsReturn`, `WriteReturns`), which TLAPS does not do.
`RefinesMessageReader` of the C++ parser with `create_object_visitor` and `LimitsExact`, which
compare it with a reading of the bytes; and `VisitsExact`, `ConversionsExact` and `HeldKept`,
which compare with a recursion over objects or types.  Those last are RECURSIVE operators, in
whose modules the provers have no arithmetic.  The reading of bytes is by recursive functions
(`Series`), and what the C parser and the packer needed to know of it is proved; the C++ parser
keeps its items where the visitor has its places, a tree of cells that are filled in, and the
invariant would have to say of each cell what `Reads` says of a frame.

## 7. Assumptions

*Concurrency.*  Counters are read and updated atomically and in program order.  The code uses
`__sync_*` builtins or `std::atomic` for updates and, in C, a volatile read in `expand_buffer`;
a weaker ordering of that read is outside the model.

*What the application keeps to.*

* It writes no more than `buffer_capacity`, does not use the objects of a zone it has freed,
  calls `reset_zone` only when there is a zone (the code does not check), uses one unpacker on
  one thread at a time, and does not parse on after an error.
* It does not move an unpacker while bytes of a message refer to the block it would replace
  (`MoveFreely = FALSE`): the hook that saves such a block is a reference to a member of the
  object that was moved from, which has to be alive.
* It does not release or reset a zone after a message was refused at the head of its block while
  something in it refers to the block (the precondition of `Flush`): the zone would get a
  finalizer for the block, which `expand_buffer` would still take for its own.
* It does not assign to a C++ zone that has finalizers: the assignment frees the chunks
  before it runs them.  It does not allocate from a zone that was moved from (`CanTake`), which
  keeps the room of the chunk it gave away.
* It migrates from a vrefbuffer to one with a `chunk_size` that is no larger, and, where the
  comparison of two arrays' addresses (`vrefbuffer.c:196`) comes out wrong, only what fits
  (`CanMigrate`).
* It does not flush a zbuffer whose last write failed (`CanFlush`).
* It checks the size of an array before converting it into a C++ type of fixed size: the code
  reads behind a shorter array (`ReadsItsOwn` says that it does so nowhere else).
* A map has each key once where `convert` and `as` are compared: with a key twice `convert`
  keeps the last value and `as` the first.  Likewise, of an array that is longer than a tuple
  `convert` takes the first items and `as` the last.

From the second on, these are places where the code goes wrong, or two ways, when the
application does otherwise, and nothing in the repository says what it should do.  All but the
check of an array's size are hazards without a property in `PROJECT.json`, whose notes say what
fails without the precondition.

*What is abstracted.*

* `malloc` returns a block that is not allocated; `realloc` may move or not.
* `template_execute` in `Unpacker` consumes and refers to any of the pending bytes: the
  objects of a message are more arbitrary there than in the code.  A call may make
  references to `MaxRefs` bytes at a time.
* What an unpacker has received, with what it is asked to make room for, can be counted in a
  size_t, and so can the bytes of one message (`Fits` in both unpackers).
* A zone is asked for less than half of the address space at a time, so that
  `size + padding` (`zone.h:114`) does not wrap.  The code does not test for it; the parser
  tests only, in 32-bit builds, that a count times the size of an object does not wrap.
* Where an object is packed, compared or copied, an ext's size is less than 2^32 - 1, so that
  its type byte can be counted with it.  Of what is parsed nothing is assumed: C adds the two
  in an unsigned int that wraps (`TemplateContext`), C++ in a size_t of which the visitor is
  given 32 bits (`Counted`).
* The sizes of a vrefbuffer are those after `msgpack_vrefbuffer_init` has put its defaults for
  a 0.
* Memory that runs out under `create_object_visitor`, and a reference function that throws, are
  steps of `CppUnpacker` (`Next_Throws`); `CreateObject` has the exceptions of the limits.
* Payload bytes, floats and the order of members within an object are data; floats are kept
  as their bytes, and -0.0, which equals 0.0 in one of the two comparisons and has other bytes,
  is not among them.
* `msgpack_pack_timestamp` overwrites the result of one append with that of the next, and a
  file buffer reports failure for an empty write: calls with these are left out of
  `StreamWhole`, and `TimestampKept` is about a callback that refuses nothing.
* An object that nests deeper than a reader's stack (`Depth`) is packed all the same and cannot be
  read back; it is left out of `StreamWhole`.
* A packer is given what its types hold (`Given`): numbers as wide as the C type, a size below
  2^32, of which the code cuts off the rest, and less than 2^30 nanoseconds, which is what the
  form of eight bytes has room for.
* The half-made object that a throwing visitor leaves is never looked at.
* The arguments of a constructor in `as` are evaluated in any order; which of two bad items
  throws makes no difference to what is observed.

## 8. Not modelled

* *Adaptors* with the same statements as one that is modelled: `list`, `deque`,
  `forward_list`, the unordered containers, `shared_ptr`, unsigned char arrays, Boost's types.
  `assoc_vector`, whose order `std::sort` leaves open where keys are equal.  `float`, whose
  conversions are the machine's.  The adaptors with no decision of their own (`ext`, `raw`,
  `nil`, `char*`, references), `MSGPACK_BASE` and `MSGPACK_ADD_ENUM`.
* *cpp03_\*.hpp and erb/*: the classes of the C++11 files, written out for each number of
  members up to 32 by a generator; `preprocessor/` and `predef/`: vendored macros.  They are
  most of the repository's lines, have no state and take no decision at run time.
* *Spirit X3 parser*: a grammar for a parser generator that is not in the repository.
* *Printing* (`msgpack_object_print*`): formatting.
* *One-shot C++ functions* (`msgpack::unpack`, `msgpack::parse`): a context that lives for
  one call of `execute`; the C ones, which move `*off` by rules of their own, are in `UnpackOnce`.
* *v1/unpack.hpp*: an older copy of the parser with the C callbacks' structure, used only when
  the API version is 1; *v3/parse.hpp* differs from v2 in where `off` is left when a visitor
  stops.
* *`zone::push_finalizer(unique_ptr)`*: it releases the object before it pushes, so that a push
  that throws loses it; `CppZone` has the other `push_finalizer`, and `allocate<T>`.
* *`msgpack_zone_swap`*, *new* and *free* of each structure: an exchange of two structs, and
  malloc with init and destroy with free.

## 9. Plan

What is left: the multi containers and `assoc_vector` in `Adaptors`, with a sort that orders
equal keys as it likes; the invariant `Reads` for the C++ parser, with the values that the
visitor's cells have in place of a frame's items; and to compute the other recursions
(`Convert`, `Build`) by recursive functions, as `MessagePack` does, which the provers can reason
about, so that what remains of section 6's last paragraph can be proved by induction on the
depth of an object.
