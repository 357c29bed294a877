------------------------------ MODULE Sbuffer -------------------------------
(***************************************************************************)
(* msgpack_sbuffer (include/msgpack/sbuffer.h), the growing byte buffer      *)
(* behind most packers.  v1::sbuffer (include/msgpack/v1/sbuffer.hpp) is the *)
(* same algorithm with a first block allocated by the constructor, which is  *)
(* what InitialAlloc > 0 stands for.                                         *)
(*                                                                           *)
(* size_t arithmetic is done modulo Word.  The loop that doubles the new size *)
(* is one action per iteration, so that its termination and what it computes *)
(* are properties of behaviours and not of an operator.                      *)
(***************************************************************************)
EXTENDS Integers, Sequences

CONSTANTS Char,          \* values of a byte
          Chunk,         \* the arguments (buf, len) of write: sequences of bytes
          Word,          \* the number of values of size_t, 2^64 in most builds
          INIT_SIZE,     \* MSGPACK_SBUFFER_INIT_SIZE
          InitialAlloc,  \* 0 for msgpack_sbuffer_init, initsz for v1::sbuffer
          Garbage        \* what malloc leaves in a byte never written

Size == 0 .. Word - 1

ASSUME SbufferConstants ==
         /\ Word \in Nat \ {0}
         /\ INIT_SIZE \in Size \ {0}
         /\ InitialAlloc \in Size
         /\ Chunk \subseteq Seq(Char)
         /\ Garbage \notin Char

VARIABLES size,   \* sbuf->size
          alloc,  \* sbuf->alloc
          data,   \* the block sbuf->data points to, a byte per position
          pc,     \* where the write in progress is
          nsize,  \* its local nsize
          buf     \* its argument

vars == <<size, alloc, data, pc, nsize, buf>>

TypeOK ==
    /\ size \in Size
    /\ alloc \in Size
    /\ data \in [1 .. alloc -> Char \cup {Garbage}]
    /\ pc \in {"idle", "grow", "realloc", "copy", "gone"}
    /\ nsize \in Size
    /\ buf \in Chunk \cup {<< >>}

Init ==
    /\ size = 0
    /\ alloc = InitialAlloc
    /\ data = [i \in 1 .. InitialAlloc |-> Garbage]
    /\ pc = "idle"
    /\ nsize = 0
    /\ buf = << >>

Wrap(n) == n % Word

needed == Wrap(size + Len(buf))
-----------------------------------------------------------------------------
\* Entry of write.  buf and the bytes already held are both in memory, so
\* their sizes add up to less than the address space.
Write(b) ==
    /\ pc = "idle"
    /\ size + Len(b) \in Size
    /\ buf' = b
    /\ IF Wrap(alloc - size) < Len(b)
       THEN /\ nsize' = IF alloc # 0 THEN Wrap(alloc * 2) ELSE INIT_SIZE
            /\ pc' = "grow"
       ELSE /\ pc' = "copy"
            /\ UNCHANGED nsize
    /\ UNCHANGED <<size, alloc, data>>

\* (mutant) the doubling loop without the test for wrap-around
GrowForever ==
    /\ pc = "grow"
    /\ IF nsize >= needed THEN pc' = "realloc" /\ UNCHANGED nsize
                          ELSE nsize' = Wrap(nsize * 2) /\ UNCHANGED pc
    /\ UNCHANGED <<size, alloc, data, buf>>

\* (mutant) the wrap-around test leaves the loop with the size reached so far
GrowGivesUp ==
    /\ pc = "grow"
    /\ IF nsize >= needed \/ Wrap(nsize * 2) <= nsize
       THEN pc' = "realloc" /\ UNCHANGED nsize
       ELSE nsize' = Wrap(nsize * 2) /\ UNCHANGED pc
    /\ UNCHANGED <<size, alloc, data, buf>>

\* One test of the while loop: double, or settle for the exact size when
\* doubling wraps around.
Grow ==
    /\ pc = "grow"
    /\ \/ /\ nsize >= needed
          /\ pc' = "realloc"
          /\ UNCHANGED nsize
       \/ /\ nsize < needed
          /\ Wrap(nsize * 2) > nsize
          /\ nsize' = Wrap(nsize * 2)
          /\ UNCHANGED pc
       \/ /\ nsize < needed
          /\ Wrap(nsize * 2) <= nsize
          /\ nsize' = needed
          /\ pc' = "realloc"
    /\ UNCHANGED <<size, alloc, data, buf>>

\* (mutant) a fresh block in place of realloc: the old bytes are not copied
ReallocDropsContent ==
    /\ pc = "realloc"
    /\ data' = [i \in 1 .. nsize |-> Garbage]
    /\ alloc' = nsize
    /\ pc' = "copy"
    /\ UNCHANGED <<size, nsize, buf>>

\* realloc succeeds: the common prefix of the two blocks keeps its bytes.
Realloc ==
    /\ pc = "realloc"
    /\ data' = [i \in 1 .. nsize |-> IF i <= alloc THEN data[i] ELSE Garbage]
    /\ alloc' = nsize
    /\ pc' = "copy"
    /\ UNCHANGED <<size, nsize, buf>>

\* realloc fails: write returns -1 (the C++ class throws bad_alloc).
ReallocFails ==
    /\ pc = "realloc"
    /\ pc' = "idle"
    /\ nsize' = 0
    /\ buf' = << >>
    /\ UNCHANGED <<size, alloc, data>>

\* (mutant) memcpy to the start of the block instead of to its used end
CopyToStart ==
    /\ pc = "copy"
    /\ data' = [i \in DOMAIN data |-> IF i <= Len(buf) THEN buf[i] ELSE data[i]]
    /\ size' = size + Len(buf)
    /\ pc' = "idle"
    /\ nsize' = 0
    /\ buf' = << >>
    /\ UNCHANGED alloc

\* memcpy(data + size, buf, len); size += len; return 0.
Copy ==
    /\ pc = "copy"
    /\ data' = [i \in DOMAIN data |->
                  IF i \in size + 1 .. size + Len(buf) THEN buf[i - size]
                                                       ELSE data[i]]
    /\ size' = size + Len(buf)
    /\ pc' = "idle"
    /\ nsize' = 0
    /\ buf' = << >>
    /\ UNCHANGED alloc

Clear ==
    /\ pc = "idle"
    /\ size' = 0
    /\ UNCHANGED <<alloc, data, pc, nsize, buf>>

\* The caller takes the block and frees it some day; the move constructor of the
\* C++ class leaves the same behind.
Release ==
    /\ pc = "idle"
    /\ size' = 0
    /\ alloc' = 0
    /\ data' = << >>
    /\ UNCHANGED <<pc, nsize, buf>>

\* free(data): nothing is called on the buffer any more.
Destroy ==
    /\ pc = "idle"
    /\ pc' = "gone"
    /\ size' = 0
    /\ alloc' = 0
    /\ data' = << >>
    /\ UNCHANGED <<nsize, buf>>

Next ==
    \/ \E b \in Chunk : Write(b)
    \/ Grow
    \/ Realloc
    \/ ReallocFails
    \/ Copy
    \/ Clear
    \/ Release
    \/ Destroy

\* A write runs to its end once it has begun: it is a function call.
Fairness == WF_vars(Grow \/ Realloc \/ ReallocFails \/ Copy)

Spec == Init /\ [][Next]_vars /\ Fairness
-----------------------------------------------------------------------------
(* Properties *)

\* The memcpy of write, whatever path led to it, stays inside the block: the
\* growth loop never settles for less than size + len, even when doubling the
\* old capacity wraps around.
CopyFits == pc = "copy" => size + Len(buf) <= alloc

\* The bytes between 0 and size are the ones the caller wrote, none of them
\* a byte of the fresh block that no write has reached.
NoGarbage == \A i \in 1 .. size : data[i] \in Char

\* A write fills memory that is there, with what the caller wrote and nothing else.
CopyExact == CopyFits /\ NoGarbage

\* A write that has begun returns: the doubling loop never runs for ever,
\* whatever the capacity and the length it starts from.
WriteReturns == pc \notin {"idle", "gone"} ~> pc = "idle"

Content == SubSeq(data, 1, size)

Sink == INSTANCE ByteSink WITH content <- Content

\* The buffer is a sink of whole writes: a failed write (out of memory in the
\* middle of it) leaves every byte of the stream in place, and a successful
\* one adds its bytes at the end.
RefinesByteSink == Sink!Spec
=============================================================================
