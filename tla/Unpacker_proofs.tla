-------------------------- MODULE Unpacker_proofs ---------------------------
(***************************************************************************)
(* The buffer of msgpack_unpacker outlives every object that points into it, *)
(* its counter is exact, and nothing leaks, for any number of blocks, zones, *)
(* bytes and finalizing threads.                                             *)
(***************************************************************************)
EXTENDS Unpacker, FiniteSetTheorems, SequenceTheorems, TLAPS

\* The calls that look at the block while they prepare to replace it.
Expanding == {"expand", "grow_realloc", "realloc", "grow_malloc", "malloc", "swap"}

HasFinalizer(zz, b) == \E i \in DOMAIN fins[zz] : fins[zz][i] = b

\* What the local variables of expand_buffer and flush_zone satisfy.
LocalInv ==
    /\ pc \in Expanding => used + req \in Size
    /\ pc \in {"grow_realloc", "realloc"} => off = COUNTER
    /\ pc = "realloc" => nsize >= used + req
    /\ pc \in {"malloc", "swap"} => nsize >= Pending + COUNTER + req
    /\ pc = "swap" => /\ tmp \in Buf \ {buffer}
                      /\ alloc[tmp] = nsize
                      /\ count[tmp] = 1
                      /\ \A i \in 0 .. Pending - 1 : mem[tmp][COUNTER + i] = consumed + i
    /\ pc # "swap" => tmp = NULL
    /\ pc = "incr" => /\ z # NULL /\ HasFinalizer(z, buffer)
                      /\ off # COUNTER /\ ~referenced
    /\ pc \in {"wait", "next_wait"} => victim # NULL
    /\ (buffer = NULL) <=> (pc = "gone")

\* Who owns which zone.
ZoneInv ==
    /\ z # NULL => \/ owner[z] = "unpacker"
                   \/ owner[z] = "dying" /\ pc = "wait" /\ victim = z
    /\ result # NULL => owner[result] = "result"
    /\ ZoneOwned
    /\ pc = "next_execute" \/ pc = "next_wait" => result = NULL
    /\ pc \in {"flush", "incr"} /\ dest = "result" => result = NULL
    /\ \A zz \in Zone : owner[zz] = "none" => fins[zz] = << >>
    /\ \A zz \in Zone : owner[zz] \in {"none", "dying"} => refs[zz] = {}
    /\ pc \in {"destroy_wait", "gone"} => z = NULL
    /\ referenced /\ pc \notin {"destroy_wait", "gone"} => z # NULL

\* The block the unpacker has.  A block whose first byte is not parsed is fresh
\* or rewound: nobody else knows it.
BufferInv ==
    /\ SpaceAccounted
    /\ StreamIntact
    /\ buffer # NULL /\ off = COUNTER => ~referenced /\ count[buffer] = 1
    /\ buffer # NULL => received <= MaxBytes

CountInv ==
    /\ CountExact
    /\ \A b \in Buf : IsFiniteSet(Holders(b))
    /\ \A b \in Buf : Allocated(b) <=> count[b] > 0

\* Why an object's bytes are still there: its zone holds the block by a finalizer,
\* or it is the unpacker's zone, the block is the current one, and the referenced
\* flag remembers to add the finalizer before the block is let go.
Anchored(zz, r) ==
    \/ HasFinalizer(zz, r[1])
    \/ zz = z /\ r[1] = buffer /\ referenced

RefInv ==
    \A zz \in Zone : \A r \in refs[zz] :
        /\ Read(r) = r[3]
        /\ r[1] = buffer => r[2] < off
        /\ Anchored(zz, r)

IInv ==
    /\ TypeOK
    /\ LocalInv
    /\ ZoneInv
    /\ BufferInv
    /\ CountInv
    /\ RefInv
    /\ GrantKept
-----------------------------------------------------------------------------
(* Facts about the operators *)

LEMMA WrapInSize == ASSUME NEW n \in Int PROVE Wrap(n) \in Size
BY UnpackerConstants DEF Wrap, Size

LEMMA WrapSmall == ASSUME NEW n \in Size PROVE Wrap(n) = n
BY UnpackerConstants DEF Wrap, Size

\* Appending to one sequence of a family of them.
LEMMA PushType ==
    ASSUME fins \in [Zone -> Seq(Buf)], NEW zz \in Zone, NEW b \in Buf,
           PushFinalizer(zz, b)
    PROVE  /\ fins' \in [Zone -> Seq(Buf)]
           /\ \A y \in Zone : y # zz => fins'[y] = fins[y]
           /\ fins'[zz] = Append(fins[zz], b)
BY DEF PushFinalizer

\* Removing the last element of one of them.
LEMMA PopType ==
    ASSUME fins \in [Zone -> Seq(Buf)], NEW zz \in Zone, fins[zz] # << >>,
           fins' = [fins EXCEPT ![zz] = SubSeq(@, 1, Len(@) - 1)]
    PROVE  /\ fins' \in [Zone -> Seq(Buf)]
           /\ \A y \in Zone : y # zz => fins'[y] = fins[y]
           /\ Len(fins[zz]) \in Nat \ {0}
           /\ fins[zz][Len(fins[zz])] \in Buf
           /\ Len(fins'[zz]) = Len(fins[zz]) - 1
           /\ \A i \in 1 .. Len(fins[zz]) - 1 : fins'[zz][i] = fins[zz][i]
<1>1. fins[zz] \in Seq(Buf)
    OBVIOUS
<1>2. Len(fins[zz]) \in Nat \ {0} /\ fins[zz][Len(fins[zz])] \in Buf
    BY <1>1, EmptySeq
<1>3. /\ SubSeq(fins[zz], 1, Len(fins[zz]) - 1) \in Seq(Buf)
      /\ Len(SubSeq(fins[zz], 1, Len(fins[zz]) - 1)) = Len(fins[zz]) - 1
      /\ \A i \in 1 .. Len(fins[zz]) - 1 :
            SubSeq(fins[zz], 1, Len(fins[zz]) - 1)[i] = fins[zz][i]
    <2>1. \A i \in 1 .. Len(fins[zz]) - 1 : fins[zz][i] \in Buf
        BY <1>1, <1>2
    <2> DEFINE s == fins[zz]
               n == Len(s) - 1
    <2>2. 1 \in Int /\ n \in Nat
        BY <1>2
    <2> HIDE DEF s, n
    <2>3. /\ SubSeq(s, 1, n) \in Seq(Buf)
          /\ Len(SubSeq(s, 1, n)) = IF 1 <= n THEN n - 1 + 1 ELSE 0
          /\ \A i \in 1 .. n - 1 + 1 : SubSeq(s, 1, n)[i] = s[1 + i - 1]
        <3>1. \A i \in 1 .. n : s[i] \in Buf
            BY <2>1 DEF s, n
        <3> QED
            BY <2>2, <3>1, SubSeqProperties
    <2>4. /\ Len(SubSeq(s, 1, n)) = n
          /\ \A i \in 1 .. n : SubSeq(s, 1, n)[i] = s[i]
        BY <2>2, <2>3
    <2> QED
        BY <2>3, <2>4 DEF s, n
<1>4. fins'[zz] = SubSeq(fins[zz], 1, Len(fins[zz]) - 1)
    OBVIOUS
<1>5. \A y \in Zone : y # zz => fins'[y] = fins[y]
    OBVIOUS
<1>6. fins' \in [Zone -> Seq(Buf)]
    BY <1>3
<1> QED
    BY <1>2, <1>3, <1>4, <1>5, <1>6

LEMMA HoldersMember ==
    ASSUME NEW b
    PROVE  \A h : h \in Holders(b) <=>
               \/ h = <<NULL, 0>> /\ b = buffer
               \/ h = <<NULL, 1>> /\ b = tmp
               \/ \E zz \in Zone : \E i \in DOMAIN fins[zz] :
                     h = <<zz, i>> /\ fins[zz][i] = b
<1> TAKE h
<1> DEFINE Slots(zz) == {<<zz, i>> : i \in {j \in DOMAIN fins[zz] : fins[zz][j] = b}}
<1>1. Holders(b) = {k \in {<<NULL, 0>>} : b = buffer} \cup {k \in {<<NULL, 1>>} : b = tmp}
                     \cup UNION {Slots(zz) : zz \in Zone}
    BY DEF Holders
<1>2. h \in UNION {Slots(zz) : zz \in Zone} <=> \E zz \in Zone : h \in Slots(zz)
    <2> HIDE DEF Slots
    <2> QED
        OBVIOUS
<1>3. \A zz \in Zone : h \in Slots(zz) <=>
          \E i \in DOMAIN fins[zz] : h = <<zz, i>> /\ fins[zz][i] = b
    OBVIOUS
<1> HIDE DEF Slots
<1> QED
    BY <1>1, <1>2, <1>3
-----------------------------------------------------------------------------
(* Types *)

\* A size_t is a natural number below Word.
LEMMA SizeIs == /\ Word \in Nat \ {0}
                /\ \A n : n \in Size <=> n \in Nat /\ n < Word
                /\ COUNTER \in Nat /\ COUNTER > 0 /\ COUNTER \in Size /\ 0 \in Size
BY UnpackerConstants DEF Size

LEMMA Numbers ==
    ASSUME TypeOK
    PROVE  /\ used \in Nat /\ free \in Nat /\ off \in Nat /\ consumed \in Nat
           /\ req \in Nat /\ nsize \in Nat
           /\ used < Word /\ free < Word /\ off < Word /\ req < Word /\ nsize < Word
BY SizeIs DEF TypeOK

\* Blocks and counters after free and decr_count.
LEMMA FreeType ==
    ASSUME TypeOK, NEW b \in Buf, Free(b)
    PROVE  /\ alloc' \in [Buf -> Size]
           /\ DOMAIN mem' = Buf
           /\ \A c \in Buf : mem'[c] \in [0 .. alloc'[c] - 1 -> Stream \cup {Garbage}]
           /\ \A c \in Buf : c # b => alloc'[c] = alloc[c] /\ mem'[c] = mem[c]
           /\ alloc'[b] = 0
<1>1. 0 \in Size
    BY UnpackerConstants DEF Size
<1> QED
    BY <1>1 DEF TypeOK, Free, Nothing

LEMMA DecrType ==
    ASSUME TypeOK, NEW b \in Buf, count[b] > 0, Decr(b)
    PROVE  /\ alloc' \in [Buf -> Size]
           /\ count' \in [Buf -> Nat]
           /\ DOMAIN mem' = Buf
           /\ \A c \in Buf : mem'[c] \in [0 .. alloc'[c] - 1 -> Stream \cup {Garbage}]
           /\ \A c \in Buf : c # b => alloc'[c] = alloc[c] /\ mem'[c] = mem[c]
                                     /\ count'[c] = count[c]
           /\ count'[b] = count[b] - 1
           /\ count[b] = 1 => alloc'[b] = 0
           /\ count[b] # 1 => alloc' = alloc /\ mem' = mem
<1>1. count' \in [Buf -> Nat] /\ count'[b] = count[b] - 1
      /\ \A c \in Buf : c # b => count'[c] = count[c]
    BY DEF TypeOK, Decr
<1>2. CASE count[b] = 1
    BY <1>1, <1>2, FreeType DEF Decr
<1>3. CASE count[b] # 1
    BY <1>1, <1>3 DEF Decr, TypeOK
<1> QED
    BY <1>2, <1>3

LEMMA InitInv == Init => IInv
<1> SUFFICES ASSUME Init PROVE IInv
    OBVIOUS
<1> USE UnpackerConstants
<1>1. PICK b \in Buf :
          /\ buffer = b
          /\ alloc = [c \in Buf |-> IF c = b THEN INITIAL ELSE 0]
          /\ count = [c \in Buf |-> IF c = b THEN 1 ELSE 0]
          /\ mem = [c \in Buf |-> [i \in 0 .. (IF c = b THEN INITIAL ELSE 0) - 1
                                     |-> Garbage]]
    BY DEF Init
<1>2. TypeOK
    <2>1. << >> \in Seq(Buf)
        OBVIOUS
    <2>2. \A c \in Buf : mem[c] \in [0 .. alloc[c] - 1 -> Stream \cup {Garbage}]
        BY <1>1
    <2>3. 0 \in Size /\ INITIAL \in Size /\ COUNTER \in Size /\ INITIAL - COUNTER \in Size
        BY DEF Size
    <2>4. alloc \in [Buf -> Size] /\ count \in [Buf -> Nat] /\ DOMAIN mem = Buf
        BY <1>1, <2>3
    <2>5. /\ owner \in [Zone -> {"none", "unpacker", "result", "app", "dying"}]
          /\ fins \in [Zone -> Seq(Buf)]
          /\ refs \in [Zone -> SUBSET (Buf \X Size \X Stream)]
        BY <2>1 DEF Init
    <2> QED
        BY <1>1, <2>2, <2>3, <2>4, <2>5 DEF Init, TypeOK
<1>3. \A c \in Buf : Holders(c) = IF c = b THEN {<<NULL, 0>>} ELSE {}
    <2>1. \A zz \in Zone : DOMAIN fins[zz] = {}
        BY DEF Init
    <2>2. tmp \notin Buf
        BY DEF Init
    <2> QED
        BY <1>1, <2>1, <2>2, HoldersMember
<1>4. CountInv
    <2>1. pc # "incr"
        BY DEF Init
    <2>2. \A c \in Buf : /\ IsFiniteSet(Holders(c))
                        /\ Cardinality(Holders(c)) = count[c]
        <3>1. ASSUME NEW c \in Buf, c = b
              PROVE  IsFiniteSet(Holders(c)) /\ Cardinality(Holders(c)) = count[c]
            <4>1. Holders(c) = {<<NULL, 0>>} /\ count[c] = 1
                BY <1>1, <1>3, <3>1
            <4>2. IsFiniteSet({<<NULL, 0>>}) /\ Cardinality({<<NULL, 0>>}) = 1
                BY FS_Singleton
            <4> QED
                BY <4>1, <4>2
        <3>2. ASSUME NEW c \in Buf, c # b
              PROVE  IsFiniteSet(Holders(c)) /\ Cardinality(Holders(c)) = count[c]
            <4>1. Holders(c) = {} /\ count[c] = 0
                BY <1>1, <1>3, <3>2
            <4> QED
                BY <4>1, FS_EmptySet
        <3> QED
            BY <3>1, <3>2
    <2>3. \A c \in Buf : Allocated(c) <=> count[c] > 0
        BY <1>1 DEF Allocated, Size
    <2> QED
        BY <1>1, <2>1, <2>2, <2>3 DEF CountInv, CountExact
<1>5. LocalInv
    BY <1>1 DEF Init, LocalInv, Expanding
<1>6. ZoneInv
    BY <1>1 DEF Init, ZoneInv, ZoneOwned
<1>7. BufferInv
    BY <1>1 DEF Init, BufferInv, SpaceAccounted, StreamIntact, Pending, received, Size
<1>8. RefInv /\ GrantKept
    BY DEF Init, RefInv, GrantKept, Size
<1> QED
    BY <1>2, <1>4, <1>5, <1>6, <1>7, <1>8 DEF IInv

\* The arithmetic the actions do stays in Size, and what the calls assume of
\* the block is there when they look at it.
LEMMA Live ==
    ASSUME IInv, buffer # NULL
    PROVE  /\ buffer \in Buf
           /\ COUNTER \in Size /\ COUNTER > 0 /\ 0 \in Size
           /\ used \in Nat /\ free \in Nat /\ off \in Nat
           /\ COUNTER <= off /\ off <= used
           /\ Pending \in Nat
           /\ off + Pending = used
           /\ used + free = alloc[buffer]
           /\ alloc[buffer] \in Size
           /\ count[buffer] > 0
           /\ received = consumed + Pending /\ received \in Nat
<1> USE UnpackerConstants DEF IInv
<1>1. /\ buffer \in Buf
      /\ COUNTER \in Size /\ COUNTER > 0 /\ 0 \in Size
      /\ off \in Nat /\ used \in Nat /\ free \in Nat /\ consumed \in Nat
    BY DEF TypeOK, Size
<1>2. COUNTER <= off /\ off <= used /\ used + free = alloc[buffer]
    BY DEF BufferInv, SpaceAccounted
<1>3. alloc[buffer] \in Size /\ alloc[buffer] > 0
    BY <1>1, <1>2 DEF TypeOK
<1>4. count[buffer] > 0
    BY <1>1, <1>3 DEF CountInv, Allocated
<1> QED
    BY <1>1, <1>2, <1>3, <1>4 DEF Pending, received

\* Only destroy_wait's end leaves the unpacker without a block.
LEMMA HasBuffer == ASSUME IInv, pc # "gone" PROVE buffer # NULL
BY DEF IInv, LocalInv

\* What an object made of a byte that was received reads.
LEMMA ParsedByte ==
    ASSUME IInv, buffer # NULL, NEW p \in Int, p - off \in 0 .. Pending - 1
    PROVE  Read(<<buffer, p>>) = consumed + (p - off)
<1>1. /\ off \in Nat /\ used \in Nat /\ free \in Nat /\ Pending \in Nat /\ off + Pending = used
      /\ used + free = alloc[buffer]
    BY Live
<1>2. off + (p - off) = p /\ p \in 0 .. alloc[buffer] - 1
    BY <1>1
<1>3. mem[buffer][off + (p - off)] = consumed + (p - off)
    BY DEF IInv, BufferInv, StreamIntact
<1> QED
    BY <1>2, <1>3 DEF Read

\* A block has at least as many counts as any set of its holders, less the one
\* that flush_zone has still to add.
LEMMA HoldersBound ==
    ASSUME IInv, NEW b \in Buf, NEW S, S \subseteq Holders(b)
    PROVE  /\ IsFiniteSet(S)
           /\ Cardinality(S) \in Nat
           /\ Cardinality(S) <= count[b] + (IF pc = "incr" /\ b = buffer THEN 1 ELSE 0)
<1>1. IsFiniteSet(Holders(b))
      /\ count[b] + (IF pc = "incr" /\ b = buffer THEN 1 ELSE 0) = Cardinality(Holders(b))
    BY DEF IInv, CountInv, CountExact
<1>2. IsFiniteSet(S) /\ Cardinality(S) <= Cardinality(Holders(b))
    BY <1>1, FS_Subset
<1>3. Cardinality(S) \in Nat
    BY <1>2, FS_CardinalityType
<1> QED
    BY <1>1, <1>2, <1>3

LEMMA OneHolder ==
    ASSUME NEW x PROVE IsFiniteSet({x}) /\ Cardinality({x}) = 1
BY FS_Singleton

LEMMA TwoHolders ==
    ASSUME NEW x, NEW y, x # y PROVE IsFiniteSet({x, y}) /\ Cardinality({x, y}) = 2
<1>1. {x, y} = {x} \cup {y} /\ y \notin {x}
    OBVIOUS
<1>2. IsFiniteSet({x}) /\ Cardinality({x}) = 1
    BY OneHolder
<1>3. /\ IsFiniteSet({x} \cup {y})
      /\ Cardinality({x} \cup {y}) = IF y \in {x} THEN Cardinality({x}) ELSE Cardinality({x}) + 1
    BY <1>2, FS_AddElement
<1> QED
    BY <1>1, <1>2, <1>3

LEMMA ThreeHolders ==
    ASSUME NEW x, NEW y, NEW w, x # y, x # w, y # w
    PROVE  IsFiniteSet({x, y, w}) /\ Cardinality({x, y, w}) = 3
<1>1. {x, y, w} = {x, y} \cup {w} /\ w \notin {x, y}
    OBVIOUS
<1>2. IsFiniteSet({x, y}) /\ Cardinality({x, y}) = 2
    BY TwoHolders
<1>3. /\ IsFiniteSet({x, y} \cup {w})
      /\ Cardinality({x, y} \cup {w}) = IF w \in {x, y} THEN Cardinality({x, y})
                                                    ELSE Cardinality({x, y}) + 1
    BY <1>2, FS_AddElement
<1> QED
    BY <1>1, <1>2, <1>3

\* The block of a finalizer that has not run is allocated, and counted.
LEMMA FinalizerCounted ==
    ASSUME IInv, NEW zz \in Zone, NEW i \in DOMAIN fins[zz], fins[zz][i] \in Buf
    PROVE  count[fins[zz][i]] > 0
<1> DEFINE b == fins[zz][i]
<1>1. <<zz, i>> \in Holders(b)
    BY HoldersMember
<1>2. CASE pc = "incr" /\ b = buffer
    BY <1>2, Live, HasBuffer
<1>3. CASE ~(pc = "incr" /\ b = buffer)
    <2>1. {<<zz, i>>} \subseteq Holders(b)
        BY <1>1
    <2>2. Cardinality({<<zz, i>>}) = 1
        BY OneHolder
    <2>3. Cardinality({<<zz, i>>}) <= count[b] + (IF pc = "incr" /\ b = buffer THEN 1 ELSE 0)
        BY <2>1, HoldersBound
    <2>4. count[b] \in Nat
        BY DEF IInv, TypeOK
    <2> QED
        BY <1>3, <2>2, <2>3, <2>4
<1> QED
    BY <1>2, <1>3

LEMMA TypeStep == IInv /\ [Next]_vars => TypeOK'
<1> SUFFICES ASSUME IInv, [Next]_vars PROVE TypeOK'
    OBVIOUS
<1> USE UnpackerConstants
<1>t. TypeOK
    BY DEF IInv
<1>s. COUNTER \in Size /\ 0 \in Size /\ Word \in Nat \ {0}
    BY DEF Size
<1> USE DEF mpac, ctx, expand, call, heap, zones
<1>1. ASSUME NEW n \in Request, Reserve(n) PROVE TypeOK'
    BY <1>1, <1>t, <1>s, ZenonT(60) DEF Reserve, TypeOK
<1>2. ASSUME NEW n \in 1 .. MaxBytes, Feed(n) PROVE TypeOK'
    <2>1. buffer \in Buf /\ used + free \in Size /\ received \in Nat
          /\ alloc[buffer] \in Nat
        BY <1>2, Live, HasBuffer DEF Feed, Size
    <2>2. used + n \in Size /\ free - n \in Size
        BY <1>2, <1>t, <2>1, SizeIs, Numbers DEF Feed
    <2>3. \A i \in used .. used + n - 1 : received + i - used \in Stream
        BY <1>2, <1>t, <2>1, Numbers DEF Feed, Stream
    <2>4. DOMAIN mem' = Buf /\ \A b \in Buf : mem'[b] \in [0 .. alloc[b] - 1 -> Stream \cup {Garbage}]
        BY <1>2, <1>t, <2>1, <2>3, SMTT(30) DEF Feed, TypeOK
    <2> QED
        BY <1>2, <1>t, <1>s, <2>2, <2>4 DEF Feed, TypeOK
<1>3. CASE Expand
    <2>1. CanRewind => free + used - COUNTER \in Size
        <3>1. used + free \in Size /\ used >= COUNTER
            BY <1>3, Live, HasBuffer, SizeIs DEF Expand
        <3> QED
            BY <1>t, <3>1, SizeIs, Numbers
    <2>2. free' \in Size /\ used' \in Size /\ off' \in Size
        BY <1>3, <1>t, <1>s, <2>1 DEF Expand, TypeOK
    <2>3. Wrap((used' + free') * 2) \in Size
        <3>1. (used' + free') * 2 \in Int
            BY <2>2 DEF Size
        <3> QED
            BY <3>1, WrapInSize
    <2> QED
        BY <1>3, <1>t, <1>s, <2>2, <2>3, ZenonT(60) DEF Expand, Return, TypeOK
<1>4. CASE Grow
    <2>1. Need \in Size
        <3>1. req + used \in Int /\ req + Pending + COUNTER \in Int
            BY <1>t, SizeIs, Numbers DEF Pending
        <3> QED
            BY <3>1, WrapInSize DEF Need
    <2>2. Wrap(nsize * 2) \in Size
        <3>1. nsize * 2 \in Int
            BY <1>t, Numbers
        <3> QED
            BY <3>1, WrapInSize
    <2> QED
        BY <1>4, <1>t, <2>1, <2>2 DEF Grow, Allocator, TypeOK
<1>5. ASSUME NEW b \in Buf, Realloc(b) PROVE TypeOK'
    <2>1. buffer \in Buf /\ nsize \in Size /\ Wrap(nsize - used) \in Size
        <3>1. nsize - used \in Int
            BY <1>t, Numbers
        <3> QED
            BY <1>5, <1>t, <3>1, Live, HasBuffer, WrapInSize DEF Realloc, TypeOK
    <2>2. alloc' \in [Buf -> Size] /\ count' \in [Buf -> Nat]
        BY <1>5, <1>t, <1>s, <2>1 DEF Realloc, TypeOK
    <2>3. DOMAIN mem' = Buf /\ \A c \in Buf : mem'[c] \in [0 .. alloc'[c] - 1 -> Stream \cup {Garbage}]
        <3>1. DOMAIN mem' = Buf
            BY <1>5, <1>t DEF Realloc, TypeOK
        <3>2. ASSUME NEW c \in Buf, c # b, c # buffer
              PROVE  mem'[c] = mem[c] /\ alloc'[c] = alloc[c]
            BY <1>5, <1>t, <3>2 DEF Realloc, TypeOK
        <3>3. ASSUME buffer # b
              PROVE  mem'[buffer] = Nothing /\ alloc'[buffer] = 0
            BY <1>5, <1>t, <2>1, <3>3 DEF Realloc, TypeOK
        <3>4. /\ alloc'[b] = nsize
              /\ mem'[b] = [i \in 0 .. nsize - 1 |->
                              IF i < alloc[buffer] THEN mem[buffer][i] ELSE Garbage]
            BY <1>5, <1>t, <2>1 DEF Realloc, TypeOK
        <3>5. ASSUME NEW i \in 0 .. nsize - 1, i < alloc[buffer]
              PROVE  mem[buffer][i] \in Stream \cup {Garbage}
            <4>1. alloc[buffer] \in Nat /\ i \in Nat
                BY <1>t, <2>1, SizeIs DEF TypeOK
            <4>2. i \in 0 .. alloc[buffer] - 1
                BY <3>5, <4>1
            <4> QED
                BY <1>t, <2>1, <4>2 DEF TypeOK
        <3>6. ASSUME NEW c \in Buf, c # b, c # buffer
              PROVE  mem'[c] \in [0 .. alloc'[c] - 1 -> Stream \cup {Garbage}]
            BY <1>t, <3>2, <3>6 DEF TypeOK
        <3>7. mem'[b] \in [0 .. alloc'[b] - 1 -> Stream \cup {Garbage}]
            BY <3>4, <3>5
        <3>8. buffer # b => mem'[buffer] \in [0 .. alloc'[buffer] - 1 -> Stream \cup {Garbage}]
            <4>1. Nothing \in [0 .. 0 - 1 -> Stream \cup {Garbage}]
                BY DEF Nothing
            <4> QED
                BY <3>3, <4>1
        <3> QED
            BY <3>1, <3>6, <3>7, <3>8
    <2> QED
        BY <1>5, <1>t, <1>s, <2>1, <2>2, <2>3 DEF Realloc, Return, TypeOK
<1>6. ASSUME NEW b \in Buf, Malloc(b) PROVE TypeOK'
    <2>1. buffer \in Buf /\ nsize \in Size /\ used + free = alloc[buffer]
        BY <1>6, <1>t, Live, HasBuffer DEF Malloc, TypeOK
    <2>2. \A i \in COUNTER .. COUNTER + Pending - 1 :
             mem[buffer][off + i - COUNTER] \in Stream \cup {Garbage}
        <3>1. \A i \in COUNTER .. COUNTER + Pending - 1 : off + i - COUNTER \in 0 .. alloc[buffer] - 1
            <4>1. alloc[buffer] \in Nat /\ COUNTER <= off /\ off + Pending = used
                  /\ Pending \in Nat /\ off \in Nat /\ used \in Nat /\ free \in Nat
                BY <1>6, Live, HasBuffer, SizeIs DEF Malloc
            <4> QED
                BY <2>1, <4>1, SizeIs
        <3> QED
            BY <1>t, <2>1, <3>1 DEF TypeOK
    <2>3. DOMAIN mem' = Buf /\ \A c \in Buf : mem'[c] \in [0 .. alloc'[c] - 1 -> Stream \cup {Garbage}]
        BY <1>6, <1>t, <2>1, <2>2 DEF Malloc, TypeOK
    <2>4. alloc' \in [Buf -> Size] /\ count' \in [Buf -> Nat]
        BY <1>6, <1>t, <2>1 DEF Malloc, TypeOK
    <2> QED
        BY <1>6, <1>t, <2>3, <2>4 DEF Malloc, TypeOK
<1>7. CASE OutOfMemory
    BY <1>7, <1>t, <1>s DEF OutOfMemory, Return, TypeOK
<1>8. CASE Swap
    <2>1. /\ buffer \in Buf /\ tmp \in Buf /\ count[buffer] > 0
          /\ Pending + COUNTER \in Size
          /\ Wrap(nsize - (Pending + COUNTER)) \in Size
        <3>1. nsize >= Pending + COUNTER + req /\ tmp \in Buf
            BY <1>8 DEF Swap, IInv, LocalInv
        <3>2. Pending + COUNTER \in Size
            <4>1. Pending \in Nat
                BY <1>8, Live, HasBuffer DEF Swap
            <4> QED
                BY <1>t, <3>1, <4>1, Numbers, SizeIs
        <3>3. Wrap(nsize - (Pending + COUNTER)) \in Size
            <4>1. nsize - (Pending + COUNTER) \in Int
                BY <1>t, <3>2, Numbers, SizeIs
            <4> QED
                BY <4>1, WrapInSize
        <3> QED
            BY <1>8, <3>1, <3>2, <3>3, Live, HasBuffer DEF Swap
    <2>2. CASE referenced
        <3>1. z \in Zone
            BY <1>8, <1>t, <2>2 DEF Swap, IInv, ZoneInv, TypeOK
        <3>2. fins' \in [Zone -> Seq(Buf)]
            BY <1>8, <1>t, <2>1, <2>2, <3>1, PushType DEF Swap, TypeOK
        <3> QED
            BY <1>8, <1>t, <1>s, <2>1, <2>2, <3>2 DEF Swap, Return, TypeOK
    <2>3. CASE ~referenced
        BY <1>8, <1>t, <1>s, <2>1, <2>3, DecrType, ZenonT(60) DEF Swap, Return, TypeOK
    <2> QED
        BY <2>2, <2>3
<1>9. CASE SwapFails
    <2>1. tmp \in Buf
        BY <1>9 DEF SwapFails, IInv, LocalInv
    <2> QED
        BY <1>9, <1>t, <1>s, <2>1, FreeType DEF SwapFails, Return, TypeOK
<1>10. ASSUME NEW n \in 0 .. MaxBytes, NEW ret \in Outcome, Parse(n, ret), pc \in {"idle", "next_execute"}
       PROVE  /\ off' \in Size /\ consumed' \in Nat
              /\ z' \in Zone \cup {NULL} /\ referenced' \in BOOLEAN
              /\ owner' \in [Zone -> {"none", "unpacker", "result", "app", "dying"}]
              /\ refs' \in [Zone -> SUBSET (Buf \X Size \X Stream)]
              /\ UNCHANGED <<buffer, used, free, expand, victim, result, heap, fins>>
    <2>1. off' \in Size /\ consumed' \in Nat
        BY <1>10, <1>t, Live, HasBuffer, Numbers, SizeIs DEF Parse
    <2>2. \A p \in off .. off + n - 1 : <<buffer, p, Read(<<buffer, p>>)>> \in Buf \X Size \X Stream
        <3>1. buffer \in Buf
            BY <1>10, Live, HasBuffer
        <3>2. ASSUME NEW p \in off .. off + n - 1 PROVE p \in Size /\ Read(<<buffer, p>>) \in Stream
            <4>1. p \in Int /\ p - off \in 0 .. Pending - 1 /\ p \in Size
                BY <1>10, <1>t, Live, HasBuffer, Numbers, SizeIs DEF Parse
            <4>2. Read(<<buffer, p>>) = consumed + (p - off)
                BY <1>10, <4>1, HasBuffer, ParsedByte
            <4>3. consumed + (p - off) \in Stream
                BY <1>10, <1>t, <4>1, Live, HasBuffer, Numbers DEF IInv, BufferInv, Stream
            <4> QED
                BY <4>1, <4>2, <4>3
        <3> QED
            BY <3>1, <3>2
    <2>3. UNCHANGED <<buffer, used, free, expand, victim, result, heap, fins>>
        BY <1>10 DEF Parse
    <2>4. CASE UNCHANGED <<z, referenced, owner, refs>>
        BY <1>t, <2>1, <2>3, <2>4 DEF TypeOK
    <2>5. ASSUME NEW zz \in Zone, z' = zz, owner' = [owner EXCEPT ![zz] = "unpacker"],
                 UNCHANGED <<referenced, refs>>
          PROVE  /\ z' \in Zone \cup {NULL} /\ referenced' \in BOOLEAN
                 /\ owner' \in [Zone -> {"none", "unpacker", "result", "app", "dying"}]
                 /\ refs' \in [Zone -> SUBSET (Buf \X Size \X Stream)]
        BY <1>t, <2>5 DEF TypeOK
    <2>6. ASSUME NEW zz \in Zone, z' = zz, owner' = [owner EXCEPT ![zz] = "unpacker"],
                 referenced' = TRUE, NEW P \in SUBSET (off .. off + n - 1),
                 refs' = [refs EXCEPT ![zz] = @ \cup {<<buffer, p, Read(<<buffer, p>>)>> : p \in P}]
          PROVE  /\ z' \in Zone \cup {NULL} /\ referenced' \in BOOLEAN
                 /\ owner' \in [Zone -> {"none", "unpacker", "result", "app", "dying"}]
                 /\ refs' \in [Zone -> SUBSET (Buf \X Size \X Stream)]
        <3>1. {<<buffer, p, Read(<<buffer, p>>)>> : p \in P} \subseteq Buf \X Size \X Stream
            BY <2>2
        <3> QED
            BY <1>t, <2>6, <3>1 DEF TypeOK
    <2> QED
        BY <1>10, <2>1, <2>3, <2>4, <2>5, <2>6 DEF Parse
<1>11. ASSUME NEW n \in 0 .. MaxBytes, NEW ret \in Outcome, Execute(n, ret) PROVE TypeOK'
    BY <1>10, <1>11, <1>t DEF Execute, TypeOK
<1>12. ASSUME NEW n \in 0 .. MaxBytes, NEW ret \in Outcome, Next_Execute(n, ret) PROVE TypeOK'
    BY <1>10, <1>12, <1>t DEF Next_Execute, TypeOK
<1>13. CASE Next_Begin
    BY <1>13, <1>t DEF Next_Begin, BeginFinalizers, TypeOK
<1>14. ASSUME NEW d \in {"app", "unpacker"}, Flush_Begin(d) PROVE TypeOK'
    BY <1>14, <1>t DEF Flush_Begin, TypeOK
<1>15. CASE Flush_Unreferenced
    BY <1>15, <1>t DEF Flush_Unreferenced, HandOver, TypeOK
<1>16. CASE Flush_Push
    <2>1. z \in Zone /\ buffer \in Buf
        BY <1>16, <1>t, Live, HasBuffer DEF Flush_Push, IInv, ZoneInv, TypeOK
    <2>2. fins' \in [Zone -> Seq(Buf)]
        BY <1>16, <1>t, <2>1, PushType DEF Flush_Push, TypeOK
    <2> QED
        BY <1>16, <1>t, <2>2 DEF Flush_Push, TypeOK
<1>17. CASE Flush_Incr
    <2>1. count' \in [Buf -> Nat]
        <3>1. buffer \in Buf
            BY <1>17, Live, HasBuffer DEF Flush_Incr
        <3>2. count[buffer] + 1 \in Nat
            BY <1>t, <3>1 DEF TypeOK
        <3> QED
            BY <1>17, <1>t, <3>1, <3>2 DEF Flush_Incr, TypeOK
    <2>2. /\ z' \in Zone \cup {NULL} /\ result' \in Zone \cup {NULL}
          /\ owner' \in [Zone -> {"none", "unpacker", "result", "app", "dying"}]
        BY <1>17, <1>t DEF Flush_Incr, HandOver, TypeOK
    <2> QED
        BY <1>17, <1>t, <2>1, <2>2 DEF Flush_Incr, HandOver, TypeOK
<1>18. CASE Flush_Fails
    BY <1>18, <1>t DEF Flush_Fails, TypeOK
<1>19. CASE Unpacked_ReleaseZone
    BY <1>19, <1>t DEF Unpacked_ReleaseZone, TypeOK
<1>20. CASE Unpacked_Destroy
    BY <1>20, <1>t DEF Unpacked_Destroy, BeginFinalizers, TypeOK
<1>21. CASE ResetZone
    BY <1>21, <1>t DEF ResetZone, BeginFinalizers, TypeOK
<1>22. CASE Resume
    BY <1>22, <1>t DEF Resume, TypeOK
<1>23. CASE Destroy
    BY <1>23, <1>t, ZenonT(60) DEF Destroy, BeginFinalizers, TypeOK
<1>24. CASE Destroy_End
    <2>1. buffer \in Buf /\ count[buffer] > 0
        BY <1>24, Live, HasBuffer DEF Destroy_End
    <2> QED
        BY <1>24, <1>t, <2>1, DecrType DEF Destroy_End, TypeOK
<1>25. ASSUME NEW zz \in Zone, App_FreeZone(zz) PROVE TypeOK'
    BY <1>25, <1>t DEF App_FreeZone, BeginFinalizers, TypeOK
<1>26. ASSUME NEW zz \in Zone, EndFinalizers(zz) PROVE TypeOK'
    BY <1>26, <1>t DEF EndFinalizers, TypeOK
<1>27. ASSUME NEW zz \in Zone, RunFinalizer(zz) PROVE TypeOK'
    <2> DEFINE b == fins[zz][Len(fins[zz])]
    <2>1. fins' \in [Zone -> Seq(Buf)] /\ b \in Buf
        BY <1>27, <1>t, PopType DEF RunFinalizer, TypeOK
    <2>2. count[b] > 0
        BY <1>27, <2>1, FinalizerCounted DEF RunFinalizer
    <2>3. Decr(b)
        BY <1>27 DEF RunFinalizer
    <2>4. /\ alloc' \in [Buf -> Size] /\ count' \in [Buf -> Nat] /\ DOMAIN mem' = Buf
          /\ \A c \in Buf : mem'[c] \in [0 .. alloc'[c] - 1 -> Stream \cup {Garbage}]
        BY <1>t, <2>1, <2>2, <2>3, DecrType
    <2> QED
        BY <1>27, <1>t, <2>1, <2>4, ZenonT(60) DEF RunFinalizer, TypeOK
<1>28. CASE UNCHANGED vars
    BY <1>28, <1>t DEF vars, TypeOK
<1> QED
    BY <1>1, <1>2, <1>3, <1>4, <1>5, <1>6, <1>7, <1>8, <1>9, <1>11, <1>12, <1>13,
       <1>14, <1>15, <1>16, <1>17, <1>18, <1>19, <1>20, <1>21, <1>22, <1>23, <1>24,
       <1>25, <1>26, <1>27, <1>28 DEF Next, Call, Continue, Finalize
-----------------------------------------------------------------------------
(* What the exact counters say about who holds a block *)

LEMMA LastHolder ==
    ASSUME IInv, NEW b \in Buf, count[b] = 1, ~(pc = "incr" /\ b = buffer),
           NEW x \in Holders(b), NEW y \in Holders(b)
    PROVE  x = y
<1> SUFFICES ASSUME x # y PROVE FALSE
    OBVIOUS
<1>1. Cardinality({x, y}) = 2
    BY TwoHolders
<1>2. {x, y} \subseteq Holders(b)
    OBVIOUS
<1>3. Cardinality({x, y}) <= count[b] + (IF pc = "incr" /\ b = buffer THEN 1 ELSE 0)
    BY <1>2, HoldersBound
<1> QED
    BY <1>1, <1>3

LEMMA BufferHolds == ASSUME buffer \in Buf PROVE <<NULL, 0>> \in Holders(buffer)
BY HoldersMember

LEMMA TmpHolds == ASSUME tmp \in Buf PROVE <<NULL, 1>> \in Holders(tmp)
BY HoldersMember

LEMMA FinalizerHolds ==
    ASSUME NEW zz \in Zone, NEW i \in DOMAIN fins[zz]
    PROVE  <<zz, i>> \in Holders(fins[zz][i])
BY HoldersMember

\* A block with a count of one, that flush_zone is not about to count, is the
\* unpacker's alone.
LEMMA SoleOwner ==
    ASSUME IInv, buffer # NULL, count[buffer] = 1, pc # "incr", NEW zz \in Zone
    PROVE  ~HasFinalizer(zz, buffer)
<1> SUFFICES ASSUME NEW i \in DOMAIN fins[zz], fins[zz][i] = buffer PROVE FALSE
    BY DEF HasFinalizer
<1>1. <<NULL, 0>> = <<zz, i>>
    BY Live, BufferHolds, FinalizerHolds, LastHolder
<1> QED
    BY <1>1, UnpackerConstants

\* Nobody but expand_buffer knows the block it has just allocated.
LEMMA TmpUnknown ==
    ASSUME IInv, pc = "swap", NEW zz \in Zone
    PROVE  ~HasFinalizer(zz, tmp)
<1> SUFFICES ASSUME NEW i \in DOMAIN fins[zz], fins[zz][i] = tmp PROVE FALSE
    BY DEF HasFinalizer
<1>1. tmp \in Buf /\ count[tmp] = 1
    BY DEF IInv, LocalInv
<1>2. <<NULL, 1>> = <<zz, i>>
    BY <1>1, TmpHolds, FinalizerHolds, LastHolder
<1> QED
    BY <1>2, UnpackerConstants

\* A finalizer that is about to drop the last count on a block is the only one
\* that still has it, and the block is not one of the unpacker's.
LEMMA LastFinalizer ==
    ASSUME IInv, NEW zz \in Zone, owner[zz] = "dying",
           NEW i \in DOMAIN fins[zz], fins[zz][i] \in Buf, count[fins[zz][i]] = 1
    PROVE  /\ fins[zz][i] # buffer
           /\ fins[zz][i] # tmp
           /\ \A yy \in Zone : yy # zz => ~HasFinalizer(yy, fins[zz][i])
<1> DEFINE b == fins[zz][i]
<1>h. <<zz, i>> \in Holders(b)
    BY FinalizerHolds
<1>1. ~(pc = "incr" /\ b = buffer)
    <2> SUFFICES ASSUME pc = "incr", b = buffer PROVE FALSE
        OBVIOUS
    <2>1. z # NULL /\ HasFinalizer(z, buffer) /\ owner[z] = "unpacker"
        BY DEF IInv, LocalInv, ZoneInv
    <2>2. z \in Zone
        BY <2>1 DEF IInv, TypeOK
    <2>3. PICK j \in DOMAIN fins[z] : fins[z][j] = buffer
        BY <2>1 DEF HasFinalizer
    <2>4. <<z, j>> \in Holders(b) /\ <<NULL, 0>> \in Holders(b)
        BY <2>2, <2>3, HoldersMember
    <2>5. <<zz, i>> # <<z, j>> /\ <<zz, i>> # <<NULL, 0>> /\ <<z, j>> # <<NULL, 0>>
        BY <2>1, <2>2, UnpackerConstants
    <2>6. Cardinality({<<zz, i>>, <<z, j>>, <<NULL, 0>>}) = 3
        BY <2>5, ThreeHolders
    <2>7. {<<zz, i>>, <<z, j>>, <<NULL, 0>>} \subseteq Holders(b)
        BY <1>h, <2>4
    <2>8. 3 <= count[b] + (IF pc = "incr" /\ b = buffer THEN 1 ELSE 0)
        BY <2>6, <2>7, HoldersBound
    <2> QED
        BY <2>8
<1>2. b # buffer
    <2> SUFFICES ASSUME b = buffer PROVE FALSE
        OBVIOUS
    <2>1. <<NULL, 0>> \in Holders(b)
        BY HoldersMember
    <2>2. <<NULL, 0>> = <<zz, i>>
        BY <1>h, <1>1, <2>1, LastHolder
    <2> QED
        BY <2>2, UnpackerConstants
<1>3. b # tmp
    <2> SUFFICES ASSUME b = tmp PROVE FALSE
        OBVIOUS
    <2>1. <<NULL, 1>> \in Holders(b)
        BY HoldersMember
    <2>2. <<NULL, 1>> = <<zz, i>>
        BY <1>h, <1>1, <2>1, LastHolder
    <2> QED
        BY <2>2, UnpackerConstants
<1>4. ASSUME NEW yy \in Zone, yy # zz, NEW j \in DOMAIN fins[yy], fins[yy][j] = b
      PROVE  FALSE
    <2>1. <<yy, j>> \in Holders(b)
        BY <1>4, HoldersMember
    <2>2. <<yy, j>> = <<zz, i>>
        BY <1>h, <1>1, <2>1, LastHolder
    <2> QED
        BY <1>4, <2>2
<1> QED
    BY <1>2, <1>3, <1>4 DEF HasFinalizer

\* A finalizer of another zone disturbs neither of the unpacker's blocks.
LEMMA RunFinalizerEffect ==
    ASSUME IInv, NEW zz \in Zone, RunFinalizer(zz)
    PROVE  LET b == fins[zz][Len(fins[zz])]
           IN  /\ b \in Buf /\ Len(fins[zz]) \in DOMAIN fins[zz]
               /\ fins' \in [Zone -> Seq(Buf)]
               /\ \A y \in Zone : y # zz => fins'[y] = fins[y]
               /\ DOMAIN fins'[zz] = DOMAIN fins[zz] \ {Len(fins[zz])}
               /\ \A i \in DOMAIN fins'[zz] : fins'[zz][i] = fins[zz][i]
               /\ \A c \in Buf : c # b => alloc'[c] = alloc[c] /\ mem'[c] = mem[c]
                                         /\ count'[c] = count[c]
               /\ count[b] > 0 /\ count'[b] = count[b] - 1
               /\ count[b] = 1 => alloc'[b] = 0
               /\ count[b] # 1 => alloc' = alloc /\ mem' = mem
               /\ buffer # NULL => alloc'[buffer] = alloc[buffer] /\ mem'[buffer] = mem[buffer]
               /\ pc = "swap" => b # tmp
<1> DEFINE b == fins[zz][Len(fins[zz])]
<1>t. TypeOK
    BY DEF IInv
<1>1. /\ fins' \in [Zone -> Seq(Buf)]
      /\ \A y \in Zone : y # zz => fins'[y] = fins[y]
      /\ Len(fins[zz]) \in Nat \ {0}
      /\ b \in Buf
      /\ Len(fins'[zz]) = Len(fins[zz]) - 1
      /\ \A i \in 1 .. Len(fins[zz]) - 1 : fins'[zz][i] = fins[zz][i]
    BY <1>t, PopType DEF RunFinalizer, TypeOK
<1>2. DOMAIN fins[zz] = 1 .. Len(fins[zz]) /\ DOMAIN fins'[zz] = 1 .. Len(fins'[zz])
    BY <1>1, <1>t DEF TypeOK
<1>3. Len(fins[zz]) \in DOMAIN fins[zz] /\ DOMAIN fins'[zz] = DOMAIN fins[zz] \ {Len(fins[zz])}
    BY <1>1, <1>2
<1>4. count[b] > 0
    BY <1>1, <1>3, FinalizerCounted
<1>5. /\ \A c \in Buf : c # b => alloc'[c] = alloc[c] /\ mem'[c] = mem[c] /\ count'[c] = count[c]
      /\ count'[b] = count[b] - 1
      /\ count[b] = 1 => alloc'[b] = 0
      /\ count[b] # 1 => alloc' = alloc /\ mem' = mem
    <2>1. Decr(b)
        BY DEF RunFinalizer
    <2> QED
        BY <1>t, <1>1, <1>4, <2>1, DecrType
<1>6. buffer # NULL => alloc'[buffer] = alloc[buffer] /\ mem'[buffer] = mem[buffer]
    <2>1. count[b] = 1 => b # buffer
        BY <1>1, <1>3, LastFinalizer DEF RunFinalizer
    <2> QED
        BY <1>1, <1>5, <2>1, Live
<1>7. pc = "swap" => b # tmp
    BY <1>1, <1>3, TmpUnknown DEF HasFinalizer
<1> QED
    BY <1>1, <1>2, <1>3, <1>4, <1>5, <1>6, <1>7

\* What HasFinalizer means after one more finalizer was pushed.
LEMMA PushEffect ==
    ASSUME TypeOK, NEW zz \in Zone, NEW b \in Buf, PushFinalizer(zz, b)
    PROVE  /\ fins' \in [Zone -> Seq(Buf)]
           /\ \A y \in Zone : y # zz => fins'[y] = fins[y]
           /\ Len(fins[zz]) + 1 \notin DOMAIN fins[zz]
           /\ DOMAIN fins'[zz] = DOMAIN fins[zz] \cup {Len(fins[zz]) + 1}
           /\ \A i \in DOMAIN fins[zz] : fins'[zz][i] = fins[zz][i]
           /\ fins'[zz][Len(fins[zz]) + 1] = b
<1>1. /\ fins' \in [Zone -> Seq(Buf)]
      /\ \A y \in Zone : y # zz => fins'[y] = fins[y]
      /\ fins'[zz] = Append(fins[zz], b)
    BY PushType DEF TypeOK
<1>2. fins[zz] \in Seq(Buf)
    BY DEF TypeOK
<1>3. /\ Len(fins[zz]) \in Nat
      /\ DOMAIN fins[zz] = 1 .. Len(fins[zz])
      /\ DOMAIN Append(fins[zz], b) = 1 .. Len(fins[zz]) + 1
      /\ \A i \in 1 .. Len(fins[zz]) : Append(fins[zz], b)[i] = fins[zz][i]
      /\ Append(fins[zz], b)[Len(fins[zz]) + 1] = b
    BY <1>2
<1> QED
    BY <1>1, <1>3

LEMMA LocalStep == IInv /\ [Next]_vars => LocalInv'
<1> SUFFICES ASSUME IInv, [Next]_vars PROVE LocalInv'
    OBVIOUS
<1> USE UnpackerConstants
<1>t. TypeOK /\ TypeOK'
    BY TypeStep DEF IInv
<1>l. LocalInv
    BY DEF IInv
<1> USE DEF mpac, ctx, expand, call, heap, zones, LocalInv, Expanding
<1>1. ASSUME NEW n \in Request, Fits(n), Reserve(n) PROVE LocalInv'
    BY <1>1, <1>l DEF Reserve, Fits
<1>2. ASSUME NEW n \in 1 .. MaxBytes, Feed(n) PROVE LocalInv'
    BY <1>2, <1>l DEF Feed
<1>3. CASE Expand
    <2>1. buffer \in Buf /\ used' <= used /\ used' \in Nat /\ used \in Nat
        BY <1>3, <1>t, Live, HasBuffer, Numbers DEF Expand
    <2>2. used' + req \in Size
        BY <1>3, <1>t, <1>l, <2>1, SizeIs, Numbers DEF Expand
    <2> QED
        BY <1>3, <1>l, <2>1, <2>2 DEF Expand, Return
<1>4. CASE Grow
    <2>1. Pending \in Nat /\ COUNTER <= off /\ off + Pending = used /\ used \in Nat /\ off \in Nat
          /\ COUNTER \in Nat
        BY <1>4, Live, HasBuffer, SizeIs DEF Grow
    <2>2. used + req \in Size /\ req \in Nat
        BY <1>4, <1>l, <1>t, Numbers DEF Grow
    <2>3. Need = IF pc = "grow_realloc" THEN req + used ELSE req + Pending + COUNTER
        <3>1. req + used \in Size /\ req + Pending + COUNTER \in Size
            BY <2>1, <2>2, SizeIs
        <3> QED
            BY <3>1, WrapSmall DEF Need
    <2>4. nsize' \in Nat /\ (pc' = Allocator => nsize' >= Need)
        <3>1. nsize' \in Nat
            BY <1>t, SizeIs DEF TypeOK
        <3>2. Need \in Nat
            BY <2>1, <2>2, <2>3
        <3>3. pc # Allocator
            BY <1>4 DEF Grow, Allocator
        <3>5. pc' = Allocator => nsize' >= Need
            <4>1. CASE nsize >= Need /\ nsize' = nsize
                BY <4>1
            <4>2. CASE pc' = pc
                BY <3>3, <4>2
            <4>3. CASE nsize' = Need
                BY <3>2, <4>3
            <4> QED
                BY <1>4, <4>1, <4>2, <4>3 DEF Grow
        <3> QED
            BY <3>1, <3>5
    <2>5. Pending' = Pending
        BY <1>4 DEF Grow, Pending
    <2> QED
        BY <1>4, <1>l, <2>1, <2>2, <2>3, <2>4, <2>5, Numbers DEF Grow, Allocator
<1>5. ASSUME NEW b \in Buf, Realloc(b) PROVE LocalInv'
    BY <1>5, <1>l DEF Realloc, Return
<1>6. ASSUME NEW b \in Buf, Malloc(b) PROVE LocalInv'
    <2>1. buffer \in Buf /\ Allocated(buffer) /\ Pending \in Nat
        BY <1>6, Live, HasBuffer, SizeIs DEF Malloc, Allocated
    <2>2. /\ nsize >= Pending + COUNTER + req /\ used + req \in Size
          /\ nsize \in Nat /\ req \in Nat /\ COUNTER \in Nat
        BY <1>6, <1>l, <1>t, Numbers, SizeIs DEF Malloc
    <2>3. b # buffer /\ alloc'[b] = nsize /\ count'[b] = 1
        BY <1>6, <1>t, <2>1 DEF Malloc, TypeOK
    <2>4. \A i \in 0 .. Pending - 1 : mem'[b][COUNTER + i] = mem[buffer][off + i]
        <3> TAKE i \in 0 .. Pending - 1
        <3>1. COUNTER + i \in 0 .. nsize - 1 /\ COUNTER + i \in COUNTER .. COUNTER + Pending - 1
            BY <2>1, <2>2
        <3>2. off + (COUNTER + i) - COUNTER = off + i
            BY <1>t, <2>1, <2>2, Numbers
        <3>3. mem'[b] = [k \in 0 .. nsize - 1 |->
                  IF k \in COUNTER .. COUNTER + Pending - 1
                  THEN mem[buffer][off + k - COUNTER] ELSE Garbage]
            BY <1>6, <1>t DEF Malloc, TypeOK
        <3> QED
            BY <3>1, <3>2, <3>3
    <2>5. \A i \in 0 .. Pending - 1 : mem[buffer][off + i] = consumed + i
        BY <2>1 DEF IInv, BufferInv, StreamIntact
    <2>6. Pending' = Pending /\ consumed' = consumed
        BY <1>6 DEF Malloc, Pending
    <2> QED
        BY <1>6, <1>l, <2>1, <2>2, <2>3, <2>4, <2>5, <2>6 DEF Malloc
<1>7. CASE OutOfMemory
    BY <1>7, <1>l DEF OutOfMemory, Return
<1>8. CASE Swap
    BY <1>8, <1>l DEF Swap, Return
<1>9. CASE SwapFails
    BY <1>9, <1>l DEF SwapFails, Return
<1>11. ASSUME NEW n \in 0 .. MaxBytes, NEW ret \in Outcome, Execute(n, ret) PROVE LocalInv'
    BY <1>11, <1>l DEF Execute, Parse
<1>12. ASSUME NEW n \in 0 .. MaxBytes, NEW ret \in Outcome, Next_Execute(n, ret) PROVE LocalInv'
    BY <1>12, <1>l DEF Next_Execute, Parse
<1>13. CASE Next_Begin
    BY <1>13, <1>l DEF Next_Begin, BeginFinalizers
<1>14. ASSUME NEW d \in {"app", "unpacker"}, Flush_Begin(d) PROVE LocalInv'
    BY <1>14, <1>l DEF Flush_Begin
<1>15. CASE Flush_Unreferenced
    BY <1>15, <1>l DEF Flush_Unreferenced, HandOver
<1>16. CASE Flush_Push
    <2>1. z # NULL /\ z \in Zone /\ buffer \in Buf
        BY <1>16, <1>t, Live, HasBuffer DEF Flush_Push, IInv, ZoneInv, TypeOK
    <2>2. HasFinalizer(z, buffer)'
        BY <1>16, <1>t, <2>1, PushEffect DEF Flush_Push, HasFinalizer
    <2>3. off # COUNTER
        BY <1>16, <2>1 DEF Flush_Push, IInv, BufferInv
    <2> QED
        BY <1>16, <1>l, <2>1, <2>2, <2>3 DEF Flush_Push
<1>17. CASE Flush_Incr
    BY <1>17, <1>l DEF Flush_Incr, HandOver
<1>18. CASE Flush_Fails
    BY <1>18, <1>l DEF Flush_Fails
<1>19. CASE Unpacked_ReleaseZone
    BY <1>19, <1>l DEF Unpacked_ReleaseZone
<1>20. CASE Unpacked_Destroy
    BY <1>20, <1>l DEF Unpacked_Destroy, BeginFinalizers
<1>21. CASE ResetZone
    BY <1>21, <1>l DEF ResetZone, BeginFinalizers
<1>22. CASE Resume
    BY <1>22, <1>l DEF Resume
<1>23. CASE Destroy
    BY <1>23, <1>l DEF Destroy
<1>24. CASE Destroy_End
    BY <1>24, <1>l DEF Destroy_End
<1>25. ASSUME NEW zz \in Zone, App_FreeZone(zz) PROVE LocalInv'
    BY <1>25, <1>l DEF App_FreeZone, BeginFinalizers, HasFinalizer, Pending
<1>26. ASSUME NEW zz \in Zone, EndFinalizers(zz) PROVE LocalInv'
    BY <1>26, <1>l DEF EndFinalizers, HasFinalizer, Pending
<1>27. ASSUME NEW zz \in Zone, RunFinalizer(zz) PROVE LocalInv'
    <2>1. UNCHANGED <<mpac, ctx, expand, call, owner, refs>>
        BY <1>27 DEF RunFinalizer
    <2>2. pc = "incr" => HasFinalizer(z, buffer)'
        <3> SUFFICES ASSUME pc = "incr" PROVE HasFinalizer(z, buffer)'
            OBVIOUS
        <3>1. z # NULL /\ HasFinalizer(z, buffer) /\ owner[z] = "unpacker" /\ z \in Zone
            BY <1>l, <1>t DEF IInv, ZoneInv, TypeOK
        <3>2. fins'[z] = fins[z]
            BY <1>27, <3>1, RunFinalizerEffect DEF RunFinalizer
        <3> QED
            BY <2>1, <3>1, <3>2 DEF HasFinalizer
    <2>3. pc = "swap" => /\ alloc'[tmp] = alloc[tmp] /\ count'[tmp] = count[tmp]
                         /\ mem'[tmp] = mem[tmp]
        BY <1>27, <1>l, RunFinalizerEffect
    <2> QED
        BY <1>l, <2>1, <2>2, <2>3 DEF Pending
<1>28. CASE UNCHANGED vars
    BY <1>28, <1>l DEF vars, HasFinalizer, Pending
<1> QED
    BY <1>1, <1>2, <1>3, <1>4, <1>5, <1>6, <1>7, <1>8, <1>9, <1>11, <1>12, <1>13,
       <1>14, <1>15, <1>16, <1>17, <1>18, <1>19, <1>20, <1>21, <1>22, <1>23, <1>24,
       <1>25, <1>26, <1>27, <1>28 DEF Next, Call, Continue, Finalize
-----------------------------------------------------------------------------
(* Who owns which zone *)

LEMMA ZoneStep == IInv /\ [Next]_vars => ZoneInv'
<1> SUFFICES ASSUME IInv, [Next]_vars PROVE ZoneInv'
    OBVIOUS
<1> USE UnpackerConstants
<1>t. TypeOK /\ TypeOK'
    BY TypeStep DEF IInv
<1>z. ZoneInv
    BY DEF IInv
<1>o. /\ DOMAIN owner = Zone /\ owner \in [Zone -> {"none", "unpacker", "result", "app", "dying"}]
      /\ DOMAIN refs = Zone /\ DOMAIN fins = Zone
      /\ z \in Zone \cup {NULL} /\ result \in Zone \cup {NULL} /\ victim \in Zone \cup {NULL}
    BY <1>t DEF TypeOK
<1> USE DEF mpac, ctx, expand, call, heap, zones, ZoneInv, ZoneOwned
<1>u. /\ \A y \in Zone : owner[y] = "unpacker" => z = y
      /\ \A y \in Zone : owner[y] \in {"none", "dying"} => refs[y] = {}
    BY <1>z, <1>o
<1>1. ASSUME NEW n \in Request, Reserve(n) PROVE ZoneInv'
    BY <1>1, <1>z DEF Reserve
<1>2. ASSUME NEW n \in 1 .. MaxBytes, Feed(n) PROVE ZoneInv'
    BY <1>2, <1>z DEF Feed
<1>3. CASE Expand
    BY <1>3, <1>z DEF Expand, Return
<1>4. CASE Grow
    BY <1>4, <1>z DEF Grow, Allocator
<1>5. ASSUME NEW b \in Buf, Realloc(b) PROVE ZoneInv'
    BY <1>5, <1>z DEF Realloc, Return
<1>6. ASSUME NEW b \in Buf, Malloc(b) PROVE ZoneInv'
    BY <1>6, <1>z DEF Malloc
<1>7. CASE OutOfMemory
    BY <1>7, <1>z DEF OutOfMemory, Return
<1>8. CASE Swap
    <2>1. \A zz \in Zone : owner[zz] = "none" => fins'[zz] = << >>
        <3>1. CASE ~referenced
            BY <1>8, <1>z, <3>1 DEF Swap
        <3>2. CASE referenced
            <4>1. z \in Zone /\ owner[z] = "unpacker" /\ buffer \in Buf
                BY <1>8, <1>z, <1>o, <3>2, Live, HasBuffer DEF Swap
            <4>2. \A y \in Zone : y # z => fins'[y] = fins[y]
                BY <1>8, <1>t, <3>2, <4>1, PushEffect DEF Swap
            <4> QED
                BY <1>z, <4>1, <4>2
        <3> QED
            BY <3>1, <3>2
    <2> QED
        BY <1>8, <1>z, <2>1 DEF Swap, Return
<1>9. CASE SwapFails
    BY <1>9, <1>z DEF SwapFails, Return
<1>10. ASSUME NEW n \in 0 .. MaxBytes, NEW ret \in Outcome, Parse(n, ret), pc \in {"idle", "next_execute"}
       PROVE  /\ z' # NULL => owner'[z'] = "unpacker"
              /\ \A zz \in Zone : owner'[zz] = "unpacker" => z' = zz
              /\ \A zz \in Zone : owner'[zz] = owner[zz] \/ (owner[zz] = "none" /\ owner'[zz] = "unpacker")
              /\ \A zz \in Zone : owner'[zz] \in {"none", "dying"} => refs'[zz] = {}
              /\ referenced' => z' # NULL
              /\ result' = result /\ victim' = victim /\ fins' = fins
    <2>0. /\ z # NULL => owner[z] = "unpacker"
          /\ referenced => z # NULL
        BY <1>10, <1>z
    <2>1. CASE UNCHANGED <<z, referenced, owner, refs>>
        BY <1>10, <1>o, <1>u, <2>0, <2>1 DEF Parse
    <2>2. ASSUME NEW zz \in Zone, IF z = NULL THEN owner[zz] = "none" ELSE zz = z,
                 z' = zz, owner' = [owner EXCEPT ![zz] = "unpacker"],
                 \A y \in Zone : y # zz => refs'[y] = refs[y]
          PROVE  /\ z' # NULL => owner'[z'] = "unpacker"
                 /\ \A y \in Zone : owner'[y] = "unpacker" => z' = y
                 /\ \A y \in Zone : owner'[y] = owner[y] \/ (owner[y] = "none" /\ owner'[y] = "unpacker")
                 /\ \A y \in Zone : owner'[y] \in {"none", "dying"} => refs'[y] = {}
                 /\ referenced' => z' # NULL
        <3>1. owner'[zz] = "unpacker" /\ \A y \in Zone : y # zz => owner'[y] = owner[y]
            BY <1>o, <2>2
        <3>4. owner[zz] \in {"none", "unpacker"}
            BY <2>0, <2>2
        <3>5. \A y \in Zone : owner'[y] = "unpacker" => z' = y
            BY <1>u, <2>2, <3>1
        <3>6. ASSUME NEW y \in Zone
              PROVE  owner'[y] = owner[y] \/ (owner[y] = "none" /\ owner'[y] = "unpacker")
            <4>1. CASE y = zz
                BY <3>1, <3>4, <4>1
            <4>2. CASE y # zz
                BY <1>o, <3>1, <4>2
            <4> QED
                BY <4>1, <4>2
        <3>7. \A y \in Zone : owner'[y] \in {"none", "dying"} => refs'[y] = {}
            BY <1>u, <2>2, <3>1
        <3> QED
            BY <2>2, <3>1, <3>5, <3>6, <3>7
    <2>3. result' = result /\ victim' = victim /\ fins' = fins
        BY <1>10 DEF Parse
    <2>4. ASSUME NEW zz \in Zone, NEW S, refs' = [refs EXCEPT ![zz] = S]
          PROVE  \A y \in Zone : y # zz => refs'[y] = refs[y]
        BY <1>o, <2>4
    <2> QED
        BY <1>10, <2>1, <2>2, <2>3, <2>4 DEF Parse
<1>11. ASSUME NEW n \in 0 .. MaxBytes, NEW ret \in Outcome, Execute(n, ret) PROVE ZoneInv'
    <2>1. Parse(n, ret) /\ pc = "idle" /\ pc' = "idle" /\ dest' = dest
        BY <1>11 DEF Execute
    <2> QED
        BY <1>10, <1>z, <1>o, <2>1
<1>12. ASSUME NEW n \in 0 .. MaxBytes, NEW ret \in Outcome, Next_Execute(n, ret) PROVE ZoneInv'
    <2>1. Parse(n, ret) /\ pc = "next_execute" /\ pc' \in {"idle", "flush"}
        BY <1>12 DEF Next_Execute
    <2> QED
        BY <1>10, <1>z, <1>o, <2>1
<1>b. ASSUME NEW zz \in Zone, BeginFinalizers(zz)
      PROVE  /\ owner'[zz] = "dying" /\ \A y \in Zone : y # zz => owner'[y] = owner[y]
             /\ refs'[zz] = {} /\ \A y \in Zone : y # zz => refs'[y] = refs[y]
             /\ fins' = fins
    BY <1>b, <1>o DEF BeginFinalizers
<1>13. CASE Next_Begin
    <2>1. CASE result = NULL
        BY <1>13, <1>z, <2>1 DEF Next_Begin
    <2>2. CASE result # NULL
        <3>1. result \in Zone /\ BeginFinalizers(result) /\ result # z
            BY <1>13, <1>z, <1>o, <2>2 DEF Next_Begin
        <3> QED
            BY <1>13, <1>z, <1>o, <1>b, <2>2, <3>1 DEF Next_Begin
    <2> QED
        BY <2>1, <2>2
<1>14. ASSUME NEW d \in {"app", "unpacker"}, Flush_Begin(d) PROVE ZoneInv'
    BY <1>14, <1>z DEF Flush_Begin
<1>h. ASSUME HandOver, pc \in {"flush", "incr"}, UNCHANGED <<fins, refs, dest, victim>>,
             referenced' = FALSE
      PROVE  ZoneInv'
    <2>1. CASE dest = "unpacker" \/ z = NULL
        BY <1>h, <1>z, <1>o, <2>1 DEF HandOver
    <2>2. CASE dest # "unpacker" /\ z # NULL
        <3>1. z \in Zone /\ owner[z] = "unpacker" /\ z' = NULL
            BY <1>h, <1>z, <1>o, <2>2 DEF HandOver
        <3>2. owner'[z] = dest /\ \A y \in Zone : y # z => owner'[y] = owner[y]
            BY <1>h, <1>o, <2>2, <3>1 DEF HandOver
        <3>3. dest \in {"result", "app"}
            BY <1>t, <2>2 DEF TypeOK
        <3>4. result # z
            BY <1>z, <3>1
        <3>5. pc' = "idle" /\ result' = IF dest = "result" THEN z ELSE result
            BY <1>h, <2>2 DEF HandOver
        <3> QED
            BY <1>h, <1>z, <1>o, <2>2, <3>1, <3>2, <3>3, <3>4, <3>5
    <2> QED
        BY <2>1, <2>2
<1>15. CASE Flush_Unreferenced
    BY <1>15, <1>h, <1>t DEF Flush_Unreferenced, TypeOK
<1>16. CASE Flush_Push
    <2>1. z \in Zone /\ owner[z] = "unpacker" /\ buffer \in Buf
        BY <1>16, <1>z, <1>o, Live, HasBuffer DEF Flush_Push
    <2>2. \A y \in Zone : y # z => fins'[y] = fins[y]
        BY <1>16, <1>t, <2>1, PushEffect DEF Flush_Push
    <2> QED
        BY <1>16, <1>z, <2>1, <2>2 DEF Flush_Push
<1>17. CASE Flush_Incr
    <2>1. referenced' = FALSE
        BY <1>17, <1>t DEF Flush_Incr, IInv, LocalInv, TypeOK
    <2> QED
        BY <1>17, <1>h, <2>1 DEF Flush_Incr
<1>18. CASE Flush_Fails
    BY <1>18, <1>z DEF Flush_Fails
<1>19. CASE Unpacked_ReleaseZone
    <2>1. owner'[result] = "app" /\ \A y \in Zone : y # result => owner'[y] = owner[y]
        BY <1>19, <1>o DEF Unpacked_ReleaseZone
    <2>2. owner[result] = "result"
        BY <1>19, <1>z DEF Unpacked_ReleaseZone
    <2> QED
        BY <1>19, <1>z, <1>o, <2>1, <2>2 DEF Unpacked_ReleaseZone
<1>20. CASE Unpacked_Destroy
    <2>1. result \in Zone /\ BeginFinalizers(result) /\ result # z
        BY <1>20, <1>z, <1>o DEF Unpacked_Destroy
    <2> QED
        BY <1>20, <1>z, <1>o, <1>b, <2>1 DEF Unpacked_Destroy
<1>21. CASE ResetZone
    <2>1. z \in Zone /\ BeginFinalizers(z) /\ result # z
        BY <1>21, <1>z, <1>o DEF ResetZone
    <2> QED
        BY <1>21, <1>z, <1>o, <1>b, <2>1 DEF ResetZone
<1>22. CASE Resume
    BY <1>22, <1>z DEF Resume
<1>23. CASE Destroy
    <2>1. CASE z = NULL
        BY <1>23, <1>z, <2>1 DEF Destroy
    <2>2. CASE z # NULL
        <3>1. z \in Zone /\ BeginFinalizers(z) /\ result # z
            BY <1>23, <1>z, <1>o, <2>2 DEF Destroy
        <3> QED
            BY <1>23, <1>z, <1>o, <1>b, <2>2, <3>1 DEF Destroy
    <2> QED
        BY <2>1, <2>2
<1>24. CASE Destroy_End
    BY <1>24, <1>z DEF Destroy_End
<1>25. ASSUME NEW zz \in Zone, App_FreeZone(zz) PROVE ZoneInv'
    <2>1. BeginFinalizers(zz) /\ owner[zz] = "app" /\ UNCHANGED <<mpac, ctx, expand, call, heap>>
        BY <1>25 DEF App_FreeZone
    <2> QED
        BY <1>z, <1>o, <1>b, <2>1
<1>26. ASSUME NEW zz \in Zone, EndFinalizers(zz) PROVE ZoneInv'
    <2>1. /\ owner'[zz] = (IF zz = z THEN "unpacker" ELSE "none")
          /\ \A y \in Zone : y # zz => owner'[y] = owner[y]
        BY <1>26, <1>o DEF EndFinalizers
    <2> QED
        BY <1>26, <1>z, <1>o, <2>1 DEF EndFinalizers
<1>27. ASSUME NEW zz \in Zone, RunFinalizer(zz) PROVE ZoneInv'
    <2>1. \A y \in Zone : y # zz => fins'[y] = fins[y]
        BY <1>27, RunFinalizerEffect
    <2> QED
        BY <1>27, <1>z, <1>o, <2>1 DEF RunFinalizer
<1>28. CASE UNCHANGED vars
    BY <1>28, <1>z DEF vars
<1> QED
    BY <1>1, <1>2, <1>3, <1>4, <1>5, <1>6, <1>7, <1>8, <1>9, <1>11, <1>12, <1>13,
       <1>14, <1>15, <1>16, <1>17, <1>18, <1>19, <1>20, <1>21, <1>22, <1>23, <1>24,
       <1>25, <1>26, <1>27, <1>28 DEF Next, Call, Continue, Finalize
-----------------------------------------------------------------------------
(* The block the unpacker has *)

LEMMA BufferStep == IInv /\ [Next]_vars => BufferInv'
<1> SUFFICES ASSUME IInv, [Next]_vars PROVE BufferInv'
    OBVIOUS
<1> USE UnpackerConstants
<1>t. TypeOK /\ TypeOK'
    BY TypeStep DEF IInv
<1>i. BufferInv
    BY DEF IInv
\* A step that touches neither the block nor what is said of it.
<1>u. ASSUME UNCHANGED <<mpac, consumed>>,
             referenced' => referenced \/ off # COUNTER,
             buffer # NULL => /\ alloc'[buffer] = alloc[buffer]
                              /\ mem'[buffer] = mem[buffer]
                              /\ count'[buffer] = count[buffer] \/ off # COUNTER
      PROVE  BufferInv'
    <2>1. UNCHANGED <<buffer, used, free, off, consumed>> /\ Pending' = Pending /\ received' = received
        BY <1>u DEF mpac, Pending, received
    <2>2. SpaceAccounted'
        BY <1>u, <1>i, <2>1 DEF BufferInv, SpaceAccounted
    <2>3. StreamIntact'
        BY <1>u, <1>i, <2>1 DEF BufferInv, StreamIntact
    <2> QED
        BY <1>u, <1>i, <2>1, <2>2, <2>3 DEF BufferInv
<1> USE DEF mpac, ctx, expand, call, heap, zones
<1>1. ASSUME NEW n \in Request, Reserve(n) PROVE BufferInv'
    BY <1>1, <1>u DEF Reserve
<1>2. ASSUME NEW n \in 1 .. MaxBytes, Feed(n) PROVE BufferInv'
    <2>1. /\ buffer \in Buf /\ buffer # NULL /\ used \in Nat /\ free \in Nat /\ off \in Nat
          /\ COUNTER <= off /\ off <= used /\ used + free = alloc[buffer]
          /\ consumed \in Nat /\ Pending \in Nat /\ off + Pending = used
          /\ received = consumed + Pending
        BY <1>2, <1>t, Live, HasBuffer, Numbers DEF Feed
    <2>2. /\ used' = used + n /\ free' = free - n /\ n <= free
          /\ UNCHANGED <<buffer, off, consumed, referenced, alloc, count>>
          /\ received + n <= MaxBytes
        BY <1>2 DEF Feed
    <2>3. Pending' = Pending + n /\ received' = received + n
        BY <2>1, <2>2 DEF Pending, received
    <2>4. \A j \in 0 .. alloc[buffer] - 1 :
              mem'[buffer][j] = IF j \in used .. used + n - 1 THEN received + j - used
                                                              ELSE mem[buffer][j]
        BY <1>2, <1>t, <2>1 DEF Feed, TypeOK
    <2>5. ASSUME NEW i \in 0 .. Pending' - 1 PROVE mem'[buffer][off + i] = consumed + i
        <3>1. off + i \in 0 .. alloc[buffer] - 1
            BY <2>1, <2>2, <2>3, SizeIs
        <3>2. CASE i < Pending
            <4>1. mem[buffer][off + i] = consumed + i
                BY <1>i, <2>1, <2>3, <3>2 DEF BufferInv, StreamIntact
            <4>2. off + i \notin used .. used + n - 1
                BY <2>1, <2>3, <3>2
            <4> QED
                BY <2>4, <3>1, <4>1, <4>2
        <3>3. CASE ~(i < Pending)
            <4>1. off + i \in used .. used + n - 1
                BY <2>1, <2>3, <3>3
            <4>2. received + (off + i) - used = consumed + i
                BY <2>1
            <4> QED
                BY <2>4, <3>1, <4>1, <4>2
        <3> QED
            BY <3>2, <3>3
    <2>6. StreamIntact'
        BY <2>2, <2>5 DEF StreamIntact
    <2>7. SpaceAccounted'
        BY <2>1, <2>2 DEF SpaceAccounted
    <2> QED
        BY <1>i, <2>1, <2>2, <2>3, <2>6, <2>7 DEF BufferInv
<1>3. CASE Expand
    <2>1. UNCHANGED <<buffer, consumed, referenced, alloc, count, mem>>
        BY <1>3 DEF Expand
    <2>2. CASE CanRewind
        <3>1. used' = COUNTER /\ off' = COUNTER /\ free' = free + used - COUNTER
            BY <1>3, <2>2 DEF Expand
        <3>2. /\ used = off /\ count[buffer] = 1 /\ ~referenced
              /\ COUNTER \in Nat /\ used \in Nat /\ free \in Nat /\ used + free = alloc[buffer]
              /\ received = consumed + Pending /\ Pending = 0 /\ received <= MaxBytes
            BY <1>3, <1>i, <2>2, Live, HasBuffer, SizeIs DEF Expand, CanRewind, BufferInv, Pending
        <3>3. Pending' = 0 /\ received' = received
            BY <1>t, <2>1, <3>1, <3>2, Numbers DEF Pending, received
        <3>4. SpaceAccounted' /\ StreamIntact'
            BY <2>1, <3>1, <3>2, <3>3 DEF SpaceAccounted, StreamIntact
        <3> QED
            BY <2>1, <3>1, <3>2, <3>3, <3>4 DEF BufferInv
    <2>3. CASE ~CanRewind
        BY <1>3, <1>u, <2>1, <2>3 DEF Expand
    <2> QED
        BY <2>2, <2>3
<1>4. CASE Grow
    BY <1>4, <1>u DEF Grow
<1>5. ASSUME NEW b \in Buf, Realloc(b) PROVE BufferInv'
    <2>1. /\ buffer \in Buf /\ buffer # NULL /\ used \in Nat /\ free \in Nat /\ off \in Nat
          /\ COUNTER <= off /\ off <= used /\ used + free = alloc[buffer]
          /\ off + Pending = used /\ Pending \in Nat
          /\ off = COUNTER /\ nsize >= used + req /\ nsize \in Size /\ nsize \in Nat /\ req \in Nat
        BY <1>5, <1>t, Live, HasBuffer, Numbers DEF Realloc, IInv, LocalInv, TypeOK
    <2>2. ~referenced /\ count[buffer] = 1 /\ received <= MaxBytes
        BY <1>i, <2>1 DEF BufferInv
    <2>3. /\ buffer' = b /\ UNCHANGED <<used, off, consumed, referenced>>
          /\ free' = nsize - used /\ Pending' = Pending /\ received' = received
        <3>1. nsize - used \in Size
            BY <2>1, <1>t, Numbers, SizeIs
        <3> QED
            BY <1>5, <3>1, WrapSmall DEF Realloc, Pending, received
    <2>4. /\ alloc'[b] = nsize /\ count'[b] = 1
          /\ \A j \in 0 .. nsize - 1 :
                mem'[b][j] = IF j < alloc[buffer] THEN mem[buffer][j] ELSE Garbage
        BY <1>5, <1>t, <2>1, <2>2 DEF Realloc, TypeOK
    <2>5. ASSUME NEW i \in 0 .. Pending - 1 PROVE mem'[b][off + i] = consumed + i
        <3>1. off + i \in 0 .. nsize - 1 /\ off + i < alloc[buffer]
            BY <2>1
        <3>2. mem[buffer][off + i] = consumed + i
            BY <1>i, <2>1 DEF BufferInv, StreamIntact
        <3> QED
            BY <2>4, <3>1, <3>2
    <2>6. StreamIntact'
        BY <2>3, <2>5 DEF StreamIntact
    <2>7. SpaceAccounted'
        BY <2>1, <2>3, <2>4 DEF SpaceAccounted
    <2> QED
        BY <2>2, <2>3, <2>4, <2>6, <2>7 DEF BufferInv
<1>6. ASSUME NEW b \in Buf, Malloc(b) PROVE BufferInv'
    <2>1. buffer \in Buf /\ Allocated(buffer)
        BY <1>6, Live, HasBuffer, SizeIs DEF Malloc, Allocated
    <2>2. buffer # b
        BY <1>6, <2>1 DEF Malloc
    <2>3. alloc'[buffer] = alloc[buffer] /\ mem'[buffer] = mem[buffer] /\ count'[buffer] = count[buffer]
        BY <1>6, <1>t, <2>1, <2>2 DEF Malloc, TypeOK
    <2> QED
        BY <1>6, <1>u, <2>3 DEF Malloc
<1>7. CASE OutOfMemory
    BY <1>7, <1>u DEF OutOfMemory
<1>8. CASE Swap
    <2>1. /\ buffer \in Buf /\ Pending \in Nat /\ received = consumed + Pending
          /\ received <= MaxBytes /\ count[buffer] > 0 /\ consumed \in Nat
        BY <1>8, <1>i, <1>t, Live, HasBuffer, Numbers DEF Swap, BufferInv
    <2>2. /\ tmp \in Buf /\ tmp # buffer /\ alloc[tmp] = nsize /\ count[tmp] = 1 /\ tmp # NULL
          /\ nsize >= Pending + COUNTER + req /\ nsize \in Size /\ req \in Nat /\ nsize \in Nat
          /\ \A i \in 0 .. Pending - 1 : mem[tmp][COUNTER + i] = consumed + i
        BY <1>8, <1>t, Numbers DEF Swap, IInv, LocalInv, TypeOK
    <2>3. alloc'[tmp] = alloc[tmp] /\ count'[tmp] = 1 /\ mem'[tmp] = mem[tmp]
        <3>1. CASE referenced
            BY <1>8, <2>2, <3>1 DEF Swap
        <3>2. CASE ~referenced
            <4>1. Decr(buffer)
                BY <1>8, <3>2 DEF Swap
            <4> QED
                BY <1>t, <2>1, <2>2, <4>1, DecrType
        <3> QED
            BY <3>1, <3>2
    <2>4. /\ buffer' = tmp /\ off' = COUNTER /\ used' = Pending + COUNTER /\ referenced' = FALSE
          /\ consumed' = consumed /\ free' = nsize - (Pending + COUNTER)
        <3>1. nsize - (Pending + COUNTER) \in Size
            BY <2>1, <2>2, SizeIs
        <3> QED
            BY <1>8, <3>1, WrapSmall DEF Swap
    <2>5. Pending' = Pending /\ received' = received
        BY <2>1, <2>4, SizeIs DEF Pending, received
    <2>6. SpaceAccounted'
        BY <2>1, <2>2, <2>3, <2>4, SizeIs DEF SpaceAccounted
    <2>7. StreamIntact'
        BY <2>2, <2>3, <2>4, <2>5 DEF StreamIntact
    <2> QED
        BY <2>1, <2>3, <2>4, <2>5, <2>6, <2>7 DEF BufferInv
<1>9. CASE SwapFails
    <2>1. tmp \in Buf /\ tmp # buffer /\ buffer \in Buf
        BY <1>9, Live, HasBuffer DEF SwapFails, IInv, LocalInv
    <2>2. alloc'[buffer] = alloc[buffer] /\ mem'[buffer] = mem[buffer] /\ count'[buffer] = count[buffer]
        BY <1>9, <1>t, <2>1, FreeType DEF SwapFails, TypeOK
    <2> QED
        BY <1>9, <1>u, <2>2 DEF SwapFails
<1>10. ASSUME NEW n \in 0 .. MaxBytes, NEW ret \in Outcome, Parse(n, ret), pc \in {"idle", "next_execute"}
       PROVE  BufferInv'
    <2>1. /\ buffer \in Buf /\ used \in Nat /\ free \in Nat /\ off \in Nat
          /\ COUNTER <= off /\ off <= used /\ used + free = alloc[buffer]
          /\ consumed \in Nat /\ Pending \in Nat /\ off + Pending = used
          /\ received = consumed + Pending /\ COUNTER \in Nat
        BY <1>10, <1>t, Live, HasBuffer, Numbers, SizeIs
    <2>2. /\ n <= Pending /\ off' = off + n /\ consumed' = consumed + n
          /\ UNCHANGED <<buffer, used, free, alloc, count, mem>>
          /\ n = 0 => referenced' = referenced
        BY <1>10 DEF Parse
    <2>3. Pending' = Pending - n /\ received' = received
        BY <2>1, <2>2 DEF Pending, received
    <2>4. SpaceAccounted'
        BY <2>1, <2>2 DEF SpaceAccounted
    <2>5. ASSUME NEW i \in 0 .. Pending' - 1 PROVE mem[buffer][off' + i] = consumed' + i
        <3>1. n + i \in 0 .. Pending - 1 /\ off + (n + i) = off' + i /\ consumed + (n + i) = consumed' + i
            BY <2>1, <2>2, <2>3
        <3>2. mem[buffer][off + (n + i)] = consumed + (n + i)
            BY <1>i, <2>1, <3>1 DEF BufferInv, StreamIntact
        <3> QED
            BY <3>1, <3>2
    <2>6. StreamIntact'
        BY <2>2, <2>5 DEF StreamIntact
    <2>7. off' = COUNTER => n = 0 /\ off = COUNTER
        BY <2>1, <2>2
    <2> QED
        BY <1>i, <2>1, <2>2, <2>3, <2>4, <2>6, <2>7 DEF BufferInv
<1>11. ASSUME NEW n \in 0 .. MaxBytes, NEW ret \in Outcome, Execute(n, ret) PROVE BufferInv'
    BY <1>10, <1>11 DEF Execute
<1>12. ASSUME NEW n \in 0 .. MaxBytes, NEW ret \in Outcome, Next_Execute(n, ret) PROVE BufferInv'
    BY <1>10, <1>12 DEF Next_Execute
<1>13. CASE Next_Begin
    BY <1>13, <1>u DEF Next_Begin
<1>14. ASSUME NEW d \in {"app", "unpacker"}, Flush_Begin(d) PROVE BufferInv'
    BY <1>14, <1>u DEF Flush_Begin
<1>15. CASE Flush_Unreferenced
    BY <1>15, <1>u DEF Flush_Unreferenced
<1>16. CASE Flush_Push
    BY <1>16, <1>u DEF Flush_Push
<1>17. CASE Flush_Incr
    <2>1. off # COUNTER
        BY <1>17 DEF Flush_Incr, IInv, LocalInv
    <2> QED
        BY <1>17, <1>u, <2>1 DEF Flush_Incr
<1>18. CASE Flush_Fails
    BY <1>18, <1>u DEF Flush_Fails
<1>19. CASE Unpacked_ReleaseZone
    BY <1>19, <1>u DEF Unpacked_ReleaseZone
<1>20. CASE Unpacked_Destroy
    BY <1>20, <1>u DEF Unpacked_Destroy
<1>21. CASE ResetZone
    BY <1>21, <1>u DEF ResetZone
<1>22. CASE Resume
    BY <1>22, <1>u DEF Resume
<1>23. CASE Destroy
    BY <1>23, <1>u DEF Destroy
<1>24. CASE Destroy_End
    BY <1>24 DEF Destroy_End, BufferInv, SpaceAccounted, StreamIntact
<1>25. ASSUME NEW zz \in Zone, App_FreeZone(zz) PROVE BufferInv'
    BY <1>25, <1>u DEF App_FreeZone
<1>26. ASSUME NEW zz \in Zone, EndFinalizers(zz) PROVE BufferInv'
    BY <1>26, <1>u DEF EndFinalizers
<1>27. ASSUME NEW zz \in Zone, RunFinalizer(zz) PROVE BufferInv'
    <2> DEFINE b == fins[zz][Len(fins[zz])]
    <2>1. /\ b \in Buf /\ Len(fins[zz]) \in DOMAIN fins[zz] /\ owner[zz] = "dying"
          /\ buffer # NULL => alloc'[buffer] = alloc[buffer] /\ mem'[buffer] = mem[buffer]
          /\ \A c \in Buf : c # b => count'[c] = count[c]
        BY <1>27, RunFinalizerEffect, ZenonT(60) DEF RunFinalizer
    <2>2. buffer # NULL /\ off = COUNTER => count'[buffer] = count[buffer]
        BY <1>i, <2>1, LastFinalizer, Live DEF BufferInv
    <2> QED
        BY <1>27, <1>u, <2>1, <2>2 DEF RunFinalizer
<1>28. CASE UNCHANGED vars
    BY <1>28, <1>u DEF vars
<1> QED
    BY <1>1, <1>2, <1>3, <1>4, <1>5, <1>6, <1>7, <1>8, <1>9, <1>11, <1>12, <1>13,
       <1>14, <1>15, <1>16, <1>17, <1>18, <1>19, <1>20, <1>21, <1>22, <1>23, <1>24,
       <1>25, <1>26, <1>27, <1>28 DEF Next, Call, Continue, Finalize
-----------------------------------------------------------------------------
(* The counters *)

\* h is a finalizer that will decrement the counter of b.
Slot(b, h) == \E zz \in Zone : \E i \in DOMAIN fins[zz] : h = <<zz, i>> /\ fins[zz][i] = b

LEMMA HoldersNow ==
    ASSUME NEW b, NEW h
    PROVE  h \in Holders(b) <=> \/ h = <<NULL, 0>> /\ b = buffer
                                \/ h = <<NULL, 1>> /\ b = tmp
                                \/ Slot(b, h)
BY HoldersMember DEF Slot

\* The same of the state after a step.
LEMMA HoldersNext ==
    ASSUME NEW b, NEW h
    PROVE  h \in Holders(b)' <=> \/ h = <<NULL, 0>> /\ b = buffer'
                                 \/ h = <<NULL, 1>> /\ b = tmp'
                                 \/ Slot(b, h)'
<1> DEFINE Slots(zz) == {<<zz, i>> : i \in {j \in DOMAIN fins'[zz] : fins'[zz][j] = b}}
<1>1. Holders(b)' = {k \in {<<NULL, 0>>} : b = buffer'} \cup {k \in {<<NULL, 1>>} : b = tmp'}
                      \cup UNION {Slots(zz) : zz \in Zone}
    BY DEF Holders
<1>2. h \in UNION {Slots(zz) : zz \in Zone} <=> \E zz \in Zone : h \in Slots(zz)
    <2> HIDE DEF Slots
    <2> QED
        OBVIOUS
<1>3. \A zz \in Zone : h \in Slots(zz) <=>
          \E i \in DOMAIN fins'[zz] : h = <<zz, i>> /\ fins'[zz][i] = b
    OBVIOUS
<1> HIDE DEF Slots
<1> QED
    BY <1>1, <1>2, <1>3 DEF Slot

LEMMA SlotIsZone ==
    ASSUME NEW b, NEW h, Slot(b, h) PROVE h # <<NULL, 0>> /\ h # <<NULL, 1>>
BY UnpackerConstants DEF Slot

\* The finalizers after one was pushed ...
LEMMA PushSlot ==
    ASSUME TypeOK, NEW zz \in Zone, NEW b \in Buf, PushFinalizer(zz, b), NEW c, NEW h
    PROVE  /\ Slot(c, h)' <=> Slot(c, h) \/ (c = b /\ h = <<zz, Len(fins[zz]) + 1>>)
           /\ ~Slot(c, <<zz, Len(fins[zz]) + 1>>)
<1>1. /\ \A y \in Zone : y # zz => fins'[y] = fins[y]
      /\ Len(fins[zz]) + 1 \notin DOMAIN fins[zz]
      /\ DOMAIN fins'[zz] = DOMAIN fins[zz] \cup {Len(fins[zz]) + 1}
      /\ \A i \in DOMAIN fins[zz] : fins'[zz][i] = fins[zz][i]
      /\ fins'[zz][Len(fins[zz]) + 1] = b
    BY PushEffect
<1>2. ~Slot(c, <<zz, Len(fins[zz]) + 1>>)
    BY <1>1 DEF Slot
<1>3. ASSUME Slot(c, h)'
      PROVE  Slot(c, h) \/ (c = b /\ h = <<zz, Len(fins[zz]) + 1>>)
    <2>1. PICK y \in Zone : \E i \in DOMAIN fins'[y] : h = <<y, i>> /\ fins'[y][i] = c
        BY <1>3 DEF Slot
    <2>2. CASE y # zz
        BY <1>1, <2>1, <2>2 DEF Slot
    <2>3. CASE y = zz
        BY <1>1, <2>1, <2>3 DEF Slot
    <2> QED
        BY <2>2, <2>3
<1>4. ASSUME Slot(c, h) PROVE Slot(c, h)'
    <2>1. PICK y \in Zone : \E i \in DOMAIN fins[y] : h = <<y, i>> /\ fins[y][i] = c
        BY <1>4 DEF Slot
    <2>2. CASE y # zz
        BY <1>1, <2>1, <2>2 DEF Slot
    <2>3. CASE y = zz
        BY <1>1, <2>1, <2>3 DEF Slot
    <2> QED
        BY <2>2, <2>3
<1>5. ASSUME c = b, h = <<zz, Len(fins[zz]) + 1>> PROVE Slot(c, h)'
    BY <1>1, <1>5 DEF Slot
<1> QED
    BY <1>2, <1>3, <1>4, <1>5

\* ... and after one was run.
LEMMA PopSlot ==
    ASSUME IInv, NEW zz \in Zone, RunFinalizer(zz), NEW c, NEW h
    PROVE  Slot(c, h)' <=> Slot(c, h) /\ h # <<zz, Len(fins[zz])>>
<1>1. /\ \A y \in Zone : y # zz => fins'[y] = fins[y]
      /\ DOMAIN fins'[zz] = DOMAIN fins[zz] \ {Len(fins[zz])}
      /\ \A i \in DOMAIN fins'[zz] : fins'[zz][i] = fins[zz][i]
    BY RunFinalizerEffect
<1>2. ASSUME Slot(c, h)' PROVE Slot(c, h) /\ h # <<zz, Len(fins[zz])>>
    <2>1. PICK y \in Zone : \E i \in DOMAIN fins'[y] : h = <<y, i>> /\ fins'[y][i] = c
        BY <1>2 DEF Slot
    <2>2. CASE y # zz
        BY <1>1, <2>1, <2>2 DEF Slot
    <2>3. CASE y = zz
        BY <1>1, <2>1, <2>3 DEF Slot
    <2> QED
        BY <2>2, <2>3
<1>3. ASSUME Slot(c, h), h # <<zz, Len(fins[zz])>> PROVE Slot(c, h)'
    <2>1. PICK y \in Zone : \E i \in DOMAIN fins[y] : h = <<y, i>> /\ fins[y][i] = c
        BY <1>3 DEF Slot
    <2>2. CASE y # zz
        BY <1>1, <2>1, <2>2 DEF Slot
    <2>3. CASE y = zz
        BY <1>1, <1>3, <2>1, <2>3 DEF Slot
    <2> QED
        BY <2>2, <2>3
<1> QED
    BY <1>2, <1>3

\* CountInv, one block at a time.
Counting(b) == pc = "incr" /\ b = buffer

CountOf(b) ==
    /\ IsFiniteSet(Holders(b))
    /\ Cardinality(Holders(b)) = count[b] + (IF Counting(b) THEN 1 ELSE 0)
    /\ Allocated(b) <=> count[b] > 0

LEMMA CountNow == ASSUME IInv, NEW b \in Buf PROVE CountOf(b) /\ count[b] \in Nat /\ alloc[b] \in Nat
BY SizeIs DEF IInv, CountInv, CountExact, CountOf, Counting, TypeOK

LEMMA CountNext == ASSUME \A b \in Buf : CountOf(b)' PROVE CountInv'
BY DEF CountInv, CountExact, CountOf, Counting

LEMMA CountKeep ==
    ASSUME IInv, NEW b \in Buf, Holders(b)' = Holders(b),
           alloc'[b] = alloc[b], count'[b] = count[b], Counting(b)' <=> Counting(b)
    PROVE  CountOf(b)'
BY CountNow DEF CountOf, Allocated

LEMMA CountOne ==
    ASSUME NEW b \in Buf, NEW x, Holders(b)' = {x}, count'[b] = 1, alloc'[b] > 0, ~Counting(b)'
    PROVE  CountOf(b)'
<1>1. IsFiniteSet({x}) /\ Cardinality({x}) = 1
    BY OneHolder
<1>2. IsFiniteSet(Holders(b)') /\ Cardinality(Holders(b)') = 1
    BY <1>1
<1> QED
    BY <1>2 DEF CountOf, Allocated

LEMMA CountNone ==
    ASSUME NEW b \in Buf, Holders(b)' = {}, count'[b] = 0, alloc'[b] = 0, ~Counting(b)'
    PROVE  CountOf(b)'
BY FS_EmptySet DEF CountOf, Allocated

\* A holder lets go of the block.
LEMMA CountDrop ==
    ASSUME IInv, NEW b \in Buf, NEW x \in Holders(b), Holders(b)' = Holders(b) \ {x},
           count[b] > 0, count'[b] = count[b] - 1,
           count[b] = 1 => alloc'[b] = 0, count[b] # 1 => alloc' = alloc,
           Counting(b)' <=> Counting(b)
    PROVE  CountOf(b)'
<1>1. CountOf(b) /\ count[b] \in Nat /\ alloc[b] \in Nat
    BY CountNow
<1>2. /\ IsFiniteSet(Holders(b) \ {x})
      /\ Cardinality(Holders(b) \ {x}) = Cardinality(Holders(b)) - 1
    <2>1. IsFiniteSet(Holders(b))
        BY <1>1 DEF CountOf
    <2> HIDE DEF Holders
    <2> QED
        BY <2>1, FS_RemoveElement
<1>3. Cardinality(Holders(b)') = count'[b] + (IF Counting(b)' THEN 1 ELSE 0)
    BY <1>1, <1>2 DEF CountOf
<1>4. Allocated(b)' <=> count'[b] > 0
    BY <1>1 DEF CountOf, Allocated
<1> QED
    BY <1>2, <1>3, <1>4 DEF CountOf

\* A block with a count of one that flush_zone is not counting has one holder,
LEMMA HolderIs ==
    ASSUME IInv, NEW b \in Buf, count[b] = 1, ~Counting(b), NEW x \in Holders(b)
    PROVE  Holders(b) = {x}
BY LastHolder DEF Counting

\* and a block that is not allocated has none.
LEMMA HolderNone ==
    ASSUME IInv, NEW b \in Buf, ~Allocated(b), b # buffer
    PROVE  Holders(b) = {} /\ count[b] = 0
<1>1. CountOf(b) /\ count[b] = 0
    BY CountNow DEF CountOf
<1>2. IsFiniteSet(Holders(b)) /\ Cardinality(Holders(b)) = 0
    BY <1>1 DEF CountOf, Counting
<1> QED
    BY <1>1, <1>2, FS_EmptySet

LEMMA CountStep == IInv /\ [Next]_vars => CountInv'
<1> SUFFICES ASSUME IInv, [Next]_vars PROVE CountInv'
    OBVIOUS
<1> USE UnpackerConstants
<1>t. TypeOK /\ TypeOK'
    BY TypeStep DEF IInv
<1>l. LocalInv
    BY DEF IInv
<1>n. pc # "swap" => tmp = NULL
    BY <1>l DEF LocalInv
\* A step that gives nobody a block and takes none from anybody.
<1>u. ASSUME UNCHANGED <<buffer, tmp, fins, alloc, count>>,
             pc' = "incr" <=> pc = "incr"
      PROVE  CountInv'
    <2>1. ASSUME NEW b \in Buf PROVE CountOf(b)'
        <3>1. Holders(b)' = Holders(b)
            BY <1>u DEF Holders
        <3>2. Counting(b)' <=> Counting(b)
            BY <1>u DEF Counting
        <3> QED
            BY <1>u, <3>1, <3>2, CountKeep
    <2> QED
        BY <2>1, CountNext
<1> USE DEF mpac, ctx, expand, call, heap, zones
<1>1. ASSUME NEW n \in Request, Reserve(n) PROVE CountInv'
    BY <1>1, <1>u DEF Reserve
<1>2. ASSUME NEW n \in 1 .. MaxBytes, Feed(n) PROVE CountInv'
    BY <1>2, <1>u DEF Feed
<1>3. CASE Expand
    BY <1>3, <1>n, <1>u DEF Expand, Return
<1>4. CASE Grow
    BY <1>4, <1>u DEF Grow, Allocator
<1>5. ASSUME NEW b \in Buf, Realloc(b) PROVE CountInv'
    <2>1. /\ buffer \in Buf /\ count[buffer] = 1 /\ pc = "realloc" /\ pc' = "idle"
          /\ tmp' = NULL /\ tmp = NULL /\ buffer' = b /\ fins' = fins
          /\ nsize >= used + req /\ used \in Nat /\ req \in Nat /\ used >= COUNTER
        BY <1>5, <1>t, <1>l, <1>n, Live, HasBuffer, Numbers
           DEF Realloc, Return, IInv, LocalInv, BufferInv
    <2>2. alloc'[b] = nsize /\ nsize > 0 /\ count'[b] = 1
        <3>1. nsize > 0
            BY <1>t, <2>1, Numbers, SizeIs
        <3>2. alloc'[b] = nsize /\ count'[b] = 1
            BY <1>5, <1>t, <2>1 DEF Realloc, TypeOK
        <3> QED
            BY <3>1, <3>2
    <2>3. ASSUME NEW c \in Buf, c # b
          PROVE  /\ c # buffer => alloc'[c] = alloc[c] /\ count'[c] = count[c]
                 /\ c = buffer => alloc'[c] = 0 /\ count'[c] = 0
        BY <1>5, <1>t, <2>1, <2>3 DEF Realloc, TypeOK
    <2>4. ASSUME NEW c, NEW h PROVE Slot(c, h)' <=> Slot(c, h)
        BY <2>1 DEF Slot
    <2>5. ~Counting(buffer)
        BY <2>1 DEF Counting
    <2>6. Holders(buffer) = {<<NULL, 0>>}
        BY <2>1, <2>5, BufferHolds, HolderIs
    <2>7. ASSUME NEW h PROVE ~Slot(buffer, h)
        BY <2>6, HoldersNow, SlotIsZone
    <2>8. b # buffer => \A h : ~Slot(b, h)
        <3> SUFFICES ASSUME b # buffer, NEW h PROVE ~Slot(b, h)
            OBVIOUS
        <3>1. Holders(b) = {}
            BY <1>5, HolderNone DEF Realloc
        <3> QED
            BY <3>1, HoldersNow
    <2>9. ASSUME NEW c \in Buf PROVE CountOf(c)'
        <3>0. ~Counting(c)' /\ ~Counting(c)
            BY <2>1 DEF Counting
        <3>1. CASE c = b
            <4>1. Holders(c)' = {<<NULL, 0>>}
                <5>1. ASSUME NEW h PROVE h \in Holders(c)' <=> h = <<NULL, 0>>
                    BY <2>1, <2>4, <2>7, <2>8, <3>1, HoldersNext
                <5> QED
                    BY <5>1
            <4> QED
                BY <2>2, <3>0, <3>1, <4>1, CountOne
        <3>2. CASE c # b /\ c = buffer
            <4>1. Holders(c)' = {}
                <5>1. ASSUME NEW h PROVE h \notin Holders(c)'
                    BY <2>1, <2>4, <2>7, <3>2, HoldersNext
                <5> QED
                    BY <5>1
            <4> QED
                BY <2>3, <3>0, <3>2, <4>1, CountNone
        <3>3. CASE c # b /\ c # buffer
            <4>1. Holders(c)' = Holders(c)
                <5>1. ASSUME NEW h PROVE h \in Holders(c)' <=> h \in Holders(c)
                    BY <2>1, <2>4, <3>3, HoldersNext, HoldersNow
                <5> QED
                    BY <5>1
            <4> QED
                BY <2>3, <3>0, <3>3, <4>1, CountKeep
        <3> QED
            BY <3>1, <3>2, <3>3
    <2> QED
        BY <2>9, CountNext
<1>6. ASSUME NEW b \in Buf, Malloc(b) PROVE CountInv'
    <2>1. /\ buffer \in Buf /\ Allocated(buffer) /\ ~Allocated(b)
          /\ pc = "malloc" /\ pc' = "swap" /\ tmp' = b /\ tmp = NULL
          /\ UNCHANGED <<buffer, fins>>
          /\ nsize >= Pending + COUNTER + req /\ Pending \in Nat /\ req \in Nat
        <3>1. /\ pc = "malloc" /\ pc' = "swap" /\ tmp' = b /\ ~Allocated(b)
              /\ UNCHANGED <<buffer, fins>>
            BY <1>6 DEF Malloc
        <3>2. buffer # NULL /\ tmp = NULL
            BY <3>1, <1>n, HasBuffer
        <3>3. buffer \in Buf /\ Allocated(buffer) /\ Pending \in Nat
            BY <3>2, Live DEF Allocated
        <3>4. nsize >= Pending + COUNTER + req
            BY <3>1, <1>l DEF LocalInv
        <3>5. req \in Nat
            BY <1>t, Numbers
        <3> QED
            BY <3>1, <3>2, <3>3, <3>4, <3>5
    <2>2. alloc'[b] = nsize /\ nsize > 0 /\ count'[b] = 1
        BY <1>6, <1>t, <2>1, SizeIs, SMTT(30) DEF Malloc, TypeOK
    <2>3. ASSUME NEW c \in Buf, c # b PROVE alloc'[c] = alloc[c] /\ count'[c] = count[c]
        BY <1>6, <1>t, <2>3 DEF Malloc, TypeOK
    <2>4. ASSUME NEW c, NEW h PROVE Slot(c, h)' <=> Slot(c, h)
        BY <2>1 DEF Slot
    <2>5. ASSUME NEW h PROVE ~Slot(b, h)
        <3>1. Holders(b) = {}
            BY <2>1, HolderNone
        <3> QED
            BY <3>1, HoldersNow
    <2>6. ASSUME NEW c \in Buf PROVE CountOf(c)'
        <3>0. ~Counting(c)' /\ ~Counting(c)
            BY <2>1 DEF Counting
        <3>1. CASE c = b
            <4>1. Holders(c)' = {<<NULL, 1>>}
                <5>1. ASSUME NEW h PROVE h \in Holders(c)' <=> h = <<NULL, 1>>
                    BY <2>1, <2>4, <2>5, <3>1, HoldersNext
                <5> QED
                    BY <5>1
            <4> QED
                BY <2>2, <3>0, <3>1, <4>1, CountOne
        <3>2. CASE c # b
            <4>1. Holders(c)' = Holders(c)
                <5>1. ASSUME NEW h PROVE h \in Holders(c)' <=> h \in Holders(c)
                    BY <2>1, <2>4, <3>2, HoldersNext, HoldersNow
                <5> QED
                    BY <5>1
            <4> QED
                BY <2>3, <3>0, <3>2, <4>1, CountKeep
        <3> QED
            BY <3>1, <3>2
    <2> QED
        BY <2>6, CountNext
<1>7. CASE OutOfMemory
    BY <1>7, <1>n, <1>u DEF OutOfMemory, Return
<1>8. CASE Swap
    <2>1. /\ buffer \in Buf /\ tmp \in Buf /\ tmp # buffer /\ count[tmp] = 1 /\ count[buffer] > 0
          /\ alloc[tmp] > 0
          /\ pc = "swap" /\ pc' = "idle" /\ tmp' = NULL /\ buffer' = tmp
        <3>1. tmp \in Buf /\ tmp # buffer /\ count[tmp] = 1
            BY <1>8, <1>l DEF Swap, LocalInv
        <3>2. alloc[tmp] > 0
            BY <3>1, CountNow DEF CountOf, Allocated
        <3> QED
            BY <1>8, <3>1, <3>2, Live, HasBuffer DEF Swap, Return
    <2>a. PICK a \in Buf : a = buffer
        BY <2>1
    <2>b. PICK b \in Buf : b = tmp
        BY <2>1
    <2>2. Holders(b) = {<<NULL, 1>>}
        BY <2>1, <2>a, <2>b, TmpHolds, HolderIs DEF Counting
    <2>3. ASSUME NEW h PROVE ~Slot(b, h)
        BY <2>1, <2>a, <2>b, <2>2, HoldersNow, SlotIsZone
    <2>4. ASSUME NEW c \in Buf PROVE ~Counting(c)' /\ ~Counting(c)
        BY <2>1, <2>a, <2>b DEF Counting
    <2>5. CASE referenced
        <3>1. z \in Zone /\ PushFinalizer(z, a) /\ UNCHANGED <<alloc, count>>
            BY <1>8, <1>t, <2>a, <2>5 DEF Swap, IInv, ZoneInv, TypeOK
        <3> DEFINE x == <<z, Len(fins[z]) + 1>>
        <3>2. ASSUME NEW c, NEW h
              PROVE  /\ Slot(c, h)' <=> Slot(c, h) \/ (c = a /\ h = x)
                     /\ ~Slot(c, x)
            BY <1>t, <2>1, <2>a, <3>1, PushSlot
        <3>3. x # <<NULL, 0>> /\ x # <<NULL, 1>>
            BY <3>1
        <3> HIDE DEF x
        <3>4. CountOf(b)'
            <4>1. ASSUME NEW h PROVE h \in Holders(b)' <=> h = <<NULL, 0>>
                BY <2>1, <2>a, <2>b, <2>3, <3>2, HoldersNext
            <4>2. Holders(b)' = {<<NULL, 0>>}
                BY <4>1
            <4> QED
                BY <2>1, <2>a, <2>b, <2>4, <3>1, <4>2, CountOne
        <3>5. CountOf(a)'
            <4> DEFINE H == Holders(a)
                       K == H \ {<<NULL, 0>>}
            <4>1. <<NULL, 0>> \in H /\ x \notin K
                BY <2>1, <2>a, <2>b, <3>2, <3>3, HoldersNow
            <4>2. ASSUME NEW h PROVE h \in Holders(a)' <=> h \in K \cup {x}
                BY <2>1, <2>a, <2>b, <3>2, <3>3, HoldersNext, HoldersNow, SlotIsZone
            <4>3. CountOf(a) /\ count[a] \in Nat
                BY <2>1, <2>a, <2>b, CountNow
            <4>4. IsFiniteSet(H) /\ Cardinality(H) = count[a]
                BY <2>1, <2>a, <2>b, <2>4, <4>3 DEF CountOf
            <4> HIDE DEF H
            <4>5. IsFiniteSet(K) /\ Cardinality(K) = count[a] - 1
                BY <4>1, <4>4, FS_RemoveElement, ZenonT(60)
            <4> HIDE DEF K
            <4>6. IsFiniteSet(K \cup {x}) /\ Cardinality(K \cup {x}) = Cardinality(K) + 1
                BY <4>1, <4>5, FS_AddElement
            <4>7. Holders(a)' = K \cup {x}
                BY <4>2
            <4>8. Cardinality(K \cup {x}) = count[a]
                BY <4>3, <4>5, <4>6
            <4> QED
                BY <2>1, <2>a, <2>b, <2>4, <3>1, <4>3, <4>6, <4>7, <4>8 DEF CountOf, Allocated
        <3>6. ASSUME NEW c \in Buf, c # a, c # b PROVE CountOf(c)'
            <4>1. ASSUME NEW h PROVE h \in Holders(c)' <=> h \in Holders(c)
                BY <2>1, <2>a, <2>b, <3>2, <3>6, HoldersNext, HoldersNow
            <4>2. Holders(c)' = Holders(c)
                BY <4>1
            <4> QED
                BY <2>4, <3>1, <4>2, CountKeep
        <3> QED
            BY <3>4, <3>5, <3>6, CountNext
    <2>6. CASE ~referenced
        <3>1. Decr(a) /\ fins' = fins
            BY <1>8, <2>a, <2>6 DEF Swap
        <3>2. /\ \A c \in Buf : c # a => alloc'[c] = alloc[c] /\ count'[c] = count[c]
              /\ count'[a] = count[a] - 1
              /\ count[a] = 1 => alloc'[a] = 0
              /\ count[a] # 1 => alloc' = alloc
            BY <1>t, <2>1, <2>a, <3>1, DecrType
        <3>3. ASSUME NEW c, NEW h PROVE Slot(c, h)' <=> Slot(c, h)
            BY <3>1 DEF Slot
        <3>4. CountOf(b)'
            <4>1. ASSUME NEW h PROVE h \in Holders(b)' <=> h = <<NULL, 0>>
                BY <2>1, <2>a, <2>b, <2>3, <3>3, HoldersNext
            <4>2. Holders(b)' = {<<NULL, 0>>}
                BY <4>1
            <4> QED
                BY <2>1, <2>a, <2>b, <2>4, <3>2, <4>2, CountOne
        <3>5. CountOf(a)'
            <4>1. ASSUME NEW h
                  PROVE  h \in Holders(a)' <=> h \in Holders(a) \ {<<NULL, 0>>}
                BY <2>1, <2>a, <2>b, <3>3, HoldersNext, HoldersNow, SlotIsZone
            <4>2. Holders(a)' = Holders(a) \ {<<NULL, 0>>}
                BY <4>1
            <4> QED
                BY <2>1, <2>a, <2>b, <2>4, <3>2, <4>2, BufferHolds, CountDrop
        <3>6. ASSUME NEW c \in Buf, c # a, c # b PROVE CountOf(c)'
            <4>1. ASSUME NEW h PROVE h \in Holders(c)' <=> h \in Holders(c)
                BY <2>1, <2>a, <2>b, <3>3, <3>6, HoldersNext, HoldersNow
            <4>2. Holders(c)' = Holders(c)
                BY <4>1
            <4> QED
                BY <2>4, <3>2, <3>6, <4>2, CountKeep
        <3> QED
            BY <3>4, <3>5, <3>6, CountNext
    <2> QED
        BY <2>5, <2>6
<1>9. CASE SwapFails
    <2>1. /\ tmp \in Buf /\ tmp # buffer /\ count[tmp] = 1 /\ Free(tmp)
          /\ pc = "swap" /\ pc' = "idle" /\ tmp' = NULL /\ buffer' = buffer /\ fins' = fins
        BY <1>9, <1>l DEF SwapFails, LocalInv, Return
    <2>2. Holders(tmp) = {<<NULL, 1>>}
        BY <2>1, TmpHolds, HolderIs DEF Counting
    <2>3. ASSUME NEW c, NEW h PROVE Slot(c, h)' <=> Slot(c, h)
        BY <2>1 DEF Slot
    <2>4. ASSUME NEW h PROVE ~Slot(tmp, h)
        BY <2>1, <2>2, HoldersNow, SlotIsZone
    <2>5. /\ alloc'[tmp] = 0 /\ count'[tmp] = 0
          /\ \A c \in Buf : c # tmp => alloc'[c] = alloc[c] /\ count'[c] = count[c]
        BY <1>9, <1>t, <2>1, FreeType DEF SwapFails, TypeOK
    <2>6. ASSUME NEW c \in Buf PROVE CountOf(c)'
        <3>0. ~Counting(c)' /\ ~Counting(c)
            BY <2>1 DEF Counting
        <3>1. CASE c = tmp
            <4>1. ASSUME NEW h PROVE h \notin Holders(c)'
                BY <2>1, <2>3, <2>4, <3>1, HoldersNext
            <4>2. Holders(c)' = {}
                BY <4>1
            <4> QED
                BY <2>5, <3>0, <3>1, <4>2, CountNone
        <3>2. CASE c # tmp
            <4>1. ASSUME NEW h PROVE h \in Holders(c)' <=> h \in Holders(c)
                BY <2>1, <2>3, <3>2, HoldersNext, HoldersNow
            <4>2. Holders(c)' = Holders(c)
                BY <4>1
            <4> QED
                BY <2>5, <3>0, <3>2, <4>2, CountKeep
        <3> QED
            BY <3>1, <3>2
    <2> QED
        BY <2>6, CountNext
<1>11. ASSUME NEW n \in 0 .. MaxBytes, NEW ret \in Outcome, Execute(n, ret) PROVE CountInv'
    BY <1>11, <1>u DEF Execute, Parse
<1>12. ASSUME NEW n \in 0 .. MaxBytes, NEW ret \in Outcome, Next_Execute(n, ret) PROVE CountInv'
    BY <1>12, <1>u DEF Next_Execute, Parse
<1>13. CASE Next_Begin
    BY <1>13, <1>u DEF Next_Begin, BeginFinalizers
<1>14. ASSUME NEW d \in {"app", "unpacker"}, Flush_Begin(d) PROVE CountInv'
    BY <1>14, <1>u DEF Flush_Begin
<1>15. CASE Flush_Unreferenced
    BY <1>15, <1>u DEF Flush_Unreferenced, HandOver
<1>16. CASE Flush_Push
    <2>1. /\ z \in Zone /\ buffer \in Buf /\ PushFinalizer(z, buffer)
          /\ UNCHANGED <<buffer, tmp, alloc, count>> /\ pc = "flush" /\ pc' = "incr"
        BY <1>16, <1>t, Live, HasBuffer DEF Flush_Push, IInv, ZoneInv, TypeOK
    <2>a. PICK a \in Buf : a = buffer
        BY <2>1
    <2> DEFINE x == <<z, Len(fins[z]) + 1>>
    <2>2. ASSUME NEW c, NEW h
          PROVE  /\ Slot(c, h)' <=> Slot(c, h) \/ (c = a /\ h = x)
                 /\ ~Slot(c, x)
        BY <1>t, <2>1, <2>a, PushSlot
    <2>3. x # <<NULL, 0>> /\ x # <<NULL, 1>>
        BY <2>1, <2>a
    <2> HIDE DEF x
    <2>4. CountOf(a)'
        <3> DEFINE H == Holders(a)
        <3>1. x \notin H
            BY <2>2, <2>3, HoldersNow
        <3>2. ASSUME NEW h PROVE h \in Holders(a)' <=> h \in H \cup {x}
            BY <2>1, <2>a, <2>2, HoldersNext, HoldersNow
        <3>3. CountOf(a) /\ count[a] \in Nat /\ ~Counting(a)
            BY <2>1, <2>a, CountNow DEF Counting
        <3>4. IsFiniteSet(H) /\ Cardinality(H) = count[a]
            BY <3>3 DEF CountOf
        <3> HIDE DEF H
        <3>5. IsFiniteSet(H \cup {x}) /\ Cardinality(H \cup {x}) = Cardinality(H) + 1
            BY <3>1, <3>4, FS_AddElement
        <3>6. Holders(a)' = H \cup {x}
            BY <3>2
        <3>7. Counting(a)' /\ count'[a] = count[a] /\ alloc'[a] = alloc[a]
            BY <2>1, <2>a DEF Counting
        <3>8. Cardinality(Holders(a)') = count'[a] + 1
            BY <3>4, <3>5, <3>6, <3>7
        <3> QED
            BY <2>1, <2>a, <3>3, <3>5, <3>6, <3>7, <3>8 DEF CountOf, Allocated, Counting
    <2>5. ASSUME NEW c \in Buf, c # a PROVE CountOf(c)'
        <3>1. ASSUME NEW h PROVE h \in Holders(c)' <=> h \in Holders(c)
            BY <2>1, <2>a, <2>2, <2>5, HoldersNext, HoldersNow
        <3>2. Holders(c)' = Holders(c)
            BY <3>1
        <3>3. ~Counting(c) /\ ~Counting(c)'
            BY <2>1, <2>a, <2>5 DEF Counting
        <3> QED
            BY <2>1, <2>a, <3>2, <3>3, CountKeep
    <2> QED
        BY <2>4, <2>5, CountNext
<1>17. CASE Flush_Incr
    <2>1. /\ buffer \in Buf /\ UNCHANGED <<buffer, tmp, fins, alloc>>
          /\ pc = "incr" /\ pc' = "idle"
        BY <1>17, Live, HasBuffer DEF Flush_Incr, HandOver
    <2>2. ASSUME NEW c \in Buf
          PROVE  count'[c] = count[c] + (IF c = buffer THEN 1 ELSE 0) /\ count[c] \in Nat
        BY <1>17, <1>t DEF Flush_Incr, TypeOK
    <2>3. ASSUME NEW c \in Buf PROVE CountOf(c)'
        <3>1. Holders(c)' = Holders(c)
            BY <2>1 DEF Holders
        <3>2. CountOf(c) /\ alloc'[c] = alloc[c]
            BY <2>1, CountNow
        <3>3. (Counting(c) <=> c = buffer) /\ ~Counting(c)'
            BY <2>1 DEF Counting
        <3>4. count[c] > 0 <=> count'[c] > 0
            <4>1. c = buffer => count[c] > 0
                BY <1>17, Live, HasBuffer DEF Flush_Incr
            <4> QED
                BY <2>2, <4>1
        <3>5. Cardinality(Holders(c)') = count'[c]
            BY <2>2, <3>1, <3>2, <3>3 DEF CountOf
        <3> QED
            BY <2>2, <3>1, <3>2, <3>3, <3>4, <3>5 DEF CountOf, Allocated
    <2> QED
        BY <2>3, CountNext
<1>18. CASE Flush_Fails
    BY <1>18, <1>u DEF Flush_Fails
<1>19. CASE Unpacked_ReleaseZone
    BY <1>19, <1>u DEF Unpacked_ReleaseZone
<1>20. CASE Unpacked_Destroy
    BY <1>20, <1>u DEF Unpacked_Destroy, BeginFinalizers
<1>21. CASE ResetZone
    BY <1>21, <1>u DEF ResetZone, BeginFinalizers
<1>22. CASE Resume
    BY <1>22, <1>u DEF Resume
<1>23. CASE Destroy
    BY <1>23, <1>u DEF Destroy, BeginFinalizers
<1>24. CASE Destroy_End
    <2>1. /\ buffer \in Buf /\ count[buffer] > 0 /\ Decr(buffer)
          /\ buffer' = NULL /\ UNCHANGED <<tmp, fins>>
          /\ pc = "destroy_wait" /\ pc' = "gone" /\ tmp = NULL
        BY <1>24, <1>n, Live, HasBuffer DEF Destroy_End
    <2>2. /\ \A c \in Buf : c # buffer => alloc'[c] = alloc[c] /\ count'[c] = count[c]
          /\ count'[buffer] = count[buffer] - 1
          /\ count[buffer] = 1 => alloc'[buffer] = 0
          /\ count[buffer] # 1 => alloc' = alloc
        BY <1>t, <2>1, DecrType
    <2>3. ASSUME NEW c, NEW h PROVE Slot(c, h)' <=> Slot(c, h)
        BY <2>1 DEF Slot
    <2>4. ASSUME NEW c \in Buf PROVE CountOf(c)'
        <3>0. ~Counting(c)' /\ ~Counting(c)
            BY <2>1 DEF Counting
        <3>1. CASE c = buffer
            <4>1. ASSUME NEW h PROVE h \in Holders(c)' <=> h \in Holders(c) \ {<<NULL, 0>>}
                BY <2>1, <2>3, <3>1, HoldersNext, HoldersNow, SlotIsZone
            <4>2. Holders(c)' = Holders(c) \ {<<NULL, 0>>}
                BY <4>1
            <4> QED
                BY <2>1, <2>2, <3>0, <3>1, <4>2, BufferHolds, CountDrop
        <3>2. CASE c # buffer
            <4>1. ASSUME NEW h PROVE h \in Holders(c)' <=> h \in Holders(c)
                BY <2>1, <2>3, <3>2, HoldersNext, HoldersNow
            <4>2. Holders(c)' = Holders(c)
                BY <4>1
            <4> QED
                BY <2>2, <3>0, <3>2, <4>2, CountKeep
        <3> QED
            BY <3>1, <3>2
    <2> QED
        BY <2>4, CountNext
<1>25. ASSUME NEW zz \in Zone, App_FreeZone(zz) PROVE CountInv'
    BY <1>25, <1>u DEF App_FreeZone, BeginFinalizers
<1>26. ASSUME NEW zz \in Zone, EndFinalizers(zz) PROVE CountInv'
    BY <1>26, <1>u DEF EndFinalizers
<1>27. ASSUME NEW zz \in Zone, RunFinalizer(zz) PROVE CountInv'
    <2> DEFINE b == fins[zz][Len(fins[zz])]
               x == <<zz, Len(fins[zz])>>
    <2>1. /\ b \in Buf /\ Len(fins[zz]) \in DOMAIN fins[zz]
          /\ \A c \in Buf : c # b => alloc'[c] = alloc[c] /\ count'[c] = count[c]
          /\ count[b] > 0 /\ count'[b] = count[b] - 1
          /\ count[b] = 1 => alloc'[b] = 0
          /\ count[b] # 1 => alloc' = alloc
        BY <1>27, RunFinalizerEffect
    <2>2. UNCHANGED <<buffer, tmp, pc>>
        BY <1>27 DEF RunFinalizer
    <2>3. ASSUME NEW c, NEW h PROVE Slot(c, h)' <=> Slot(c, h) /\ h # x
        BY <1>27, PopSlot
    <2>4. x \in Holders(b) /\ x # <<NULL, 0>> /\ x # <<NULL, 1>>
        BY <2>1, FinalizerHolds
    <2>5. ASSUME NEW c, c # b PROVE ~Slot(c, x)
        BY <2>5 DEF Slot
    <2> HIDE DEF b, x
    <2>6. ASSUME NEW c \in Buf PROVE CountOf(c)'
        <3>0. Counting(c)' <=> Counting(c)
            BY <2>2 DEF Counting
        <3>1. CASE c = b
            <4>1. ASSUME NEW h PROVE h \in Holders(c)' <=> h \in Holders(c) \ {x}
                BY <2>2, <2>3, <2>4, <3>1, HoldersNext, HoldersNow
            <4>2. Holders(c)' = Holders(c) \ {x}
                BY <4>1
            <4> QED
                BY <2>1, <2>4, <3>0, <3>1, <4>2, CountDrop
        <3>2. CASE c # b
            <4>1. ASSUME NEW h PROVE h \in Holders(c)' <=> h \in Holders(c)
                BY <2>2, <2>3, <2>5, <3>2, HoldersNext, HoldersNow
            <4>2. Holders(c)' = Holders(c)
                BY <4>1
            <4> QED
                BY <2>1, <3>0, <3>2, <4>2, CountKeep
        <3> QED
            BY <3>1, <3>2
    <2> QED
        BY <2>6, CountNext
<1>28. CASE UNCHANGED vars
    BY <1>28, <1>u DEF vars
<1> QED
    BY <1>1, <1>2, <1>3, <1>4, <1>5, <1>6, <1>7, <1>8, <1>9, <1>11, <1>12, <1>13,
       <1>14, <1>15, <1>16, <1>17, <1>18, <1>19, <1>20, <1>21, <1>22, <1>23, <1>24,
       <1>25, <1>26, <1>27, <1>28 DEF Next, Call, Continue, Finalize
-----------------------------------------------------------------------------
(* The objects *)

LEMMA RefNow ==
    ASSUME IInv, NEW zz \in Zone, NEW r \in refs[zz]
    PROVE  /\ r[1] \in Buf /\ r[2] \in Nat
           /\ Read(r) = r[3]
           /\ r[1] = buffer => r[2] < off
           /\ Anchored(zz, r)
           /\ Allocated(r[1])
<1>1. r \in Buf \X Size \X Stream
    BY DEF IInv, TypeOK
<1>2. r[1] \in Buf /\ r[2] \in Nat
    BY <1>1, SizeIs
<1>3. Read(r) = r[3] /\ (r[1] = buffer => r[2] < off) /\ Anchored(zz, r)
    BY DEF IInv, RefInv
<1>4. Allocated(r[1])
    <2>1. CASE HasFinalizer(zz, r[1])
        <3>1. PICK i \in DOMAIN fins[zz] : fins[zz][i] = r[1]
            BY <2>1 DEF HasFinalizer
        <3>2. count[r[1]] > 0
            BY <1>2, <3>1, FinalizerCounted
        <3> QED
            BY <1>2, <3>2, CountNow DEF CountOf
    <2>2. CASE r[1] = buffer
        <3>1. buffer # NULL
            BY <1>2, <2>2, UnpackerConstants
        <3> QED
            BY <1>2, <2>2, <3>1, Live, CountNow DEF CountOf
    <2> QED
        BY <1>3, <2>1, <2>2 DEF Anchored
<1> QED
    BY <1>2, <1>3, <1>4

\* When the unpacker is the only one to hold its block, only the objects of the
\* current message can point into it.
LEMMA NoRefToBuffer ==
    ASSUME IInv, buffer # NULL, count[buffer] = 1, pc # "incr",
           NEW zz \in Zone, NEW r \in refs[zz], ~referenced \/ zz # z
    PROVE  r[1] # buffer
BY RefNow, SoleOwner DEF Anchored

\* What RefInv says of one object.
RefOf(zz, r) ==
    /\ Read(r) = r[3]
    /\ r[1] = buffer => r[2] < off
    /\ Anchored(zz, r)

LEMMA RefNext == ASSUME \A zz \in Zone : \A r \in refs'[zz] : RefOf(zz, r)' PROVE RefInv'
BY DEF RefInv, RefOf

LEMMA RefKeep ==
    ASSUME IInv, NEW zz \in Zone, NEW r \in refs[zz],
           alloc'[r[1]] = alloc[r[1]],
           r[2] \in 0 .. alloc[r[1]] - 1 => mem'[r[1]][r[2]] = mem[r[1]][r[2]],
           r[1] = buffer' => r[2] < off',
           Anchored(zz, r)'
    PROVE  RefOf(zz, r)'
BY RefNow DEF RefOf, Read

LEMMA RefStep == IInv /\ [Next]_vars => RefInv'
<1> SUFFICES ASSUME IInv, [Next]_vars PROVE RefInv'
    OBVIOUS
<1> USE UnpackerConstants
<1>t. TypeOK /\ TypeOK'
    BY TypeStep DEF IInv
<1>z. ZoneInv /\ LocalInv
    BY DEF IInv
<1>o. DOMAIN refs = Zone /\ z \in Zone \cup {NULL} /\ result \in Zone \cup {NULL}
    BY <1>t DEF TypeOK
\* A step that makes no object and leaves the blocks and the current message.
<1>u. ASSUME UNCHANGED <<buffer, off, referenced, alloc, mem, fins>>,
             \A zz \in Zone : refs'[zz] = refs[zz] \/ refs'[zz] = {},
             \A zz \in Zone : zz = z /\ refs'[zz] # {} /\ referenced => zz = z'
      PROVE  RefInv'
    <2>1. ASSUME NEW zz \in Zone, NEW r \in refs'[zz] PROVE RefOf(zz, r)'
        <3>1. r \in refs[zz] /\ refs'[zz] # {}
            BY <1>u, <2>1
        <3>2. Anchored(zz, r)'
            BY <1>u, <3>1, RefNow DEF Anchored, HasFinalizer
        <3>3. r[1] = buffer' => r[2] < off'
            BY <1>u, <3>1, RefNow
        <3> QED
            BY <1>u, <3>1, <3>2, <3>3, RefKeep
    <2> QED
        BY <2>1, RefNext
\* Objects anchored by a finalizer stay so while no finalizer is lost.
<1>f. ASSUME NEW zz \in Zone, NEW r \in refs[zz], HasFinalizer(zz, r[1]), fins' = fins
      PROVE  Anchored(zz, r)'
    BY <1>f DEF Anchored, HasFinalizer
<1> USE DEF mpac, ctx, expand, call, heap, zones
<1>1. ASSUME NEW n \in Request, Reserve(n) PROVE RefInv'
    BY <1>1, <1>u DEF Reserve
<1>2. ASSUME NEW n \in 1 .. MaxBytes, Feed(n) PROVE RefInv'
    <2>1. /\ buffer \in Buf /\ off <= used /\ off \in Nat /\ used \in Nat
          /\ UNCHANGED <<buffer, off, alloc, referenced, z, fins, refs>>
        BY <1>2, Live, HasBuffer DEF Feed
    <2>2. ASSUME NEW zz \in Zone, NEW r \in refs[zz] PROVE RefOf(zz, r)'
        <3>1. r[2] \in 0 .. alloc[r[1]] - 1 => mem'[r[1]][r[2]] = mem[r[1]][r[2]]
            <4> SUFFICES ASSUME r[2] \in 0 .. alloc[r[1]] - 1
                         PROVE  mem'[r[1]][r[2]] = mem[r[1]][r[2]]
                OBVIOUS
            <4>1. r[1] \in Buf /\ r[2] \in Nat /\ (r[1] = buffer => r[2] < off)
                BY RefNow
            <4>2. CASE r[1] # buffer
                BY <1>2, <1>t, <4>1, <4>2 DEF Feed, TypeOK
            <4>3. CASE r[1] = buffer
                <5>1. r[2] \notin used .. used + n - 1
                    BY <2>1, <4>1, <4>3
                <5>2. DOMAIN mem[buffer] = 0 .. alloc[buffer] - 1
                    BY <1>t, <2>1 DEF TypeOK
                <5>3. mem'[buffer] = [i \in DOMAIN mem[buffer] |->
                          IF i \in used .. used + n - 1 THEN received + i - used
                                                        ELSE mem[buffer][i]]
                    BY <1>2, <1>t, <2>1 DEF Feed, TypeOK
                <5> QED
                    BY <4>3, <5>1, <5>2, <5>3
            <4> QED
                BY <4>2, <4>3
        <3>2. Anchored(zz, r)' /\ (r[1] = buffer' => r[2] < off')
            BY <2>1, RefNow DEF Anchored, HasFinalizer
        <3> QED
            BY <2>1, <3>1, <3>2, RefKeep
    <2> QED
        BY <2>1, <2>2, RefNext
<1>3. CASE Expand
    <2>1. UNCHANGED <<buffer, alloc, mem, referenced, z, fins, refs>>
        BY <1>3 DEF Expand
    <2>2. CASE CanRewind
        <3>1. ASSUME NEW zz \in Zone, NEW r \in refs[zz] PROVE RefOf(zz, r)'
            <4>1. r[1] # buffer
                BY <1>3, <2>2, HasBuffer, NoRefToBuffer DEF Expand, CanRewind
            <4>2. Anchored(zz, r)'
                BY <2>1, RefNow DEF Anchored, HasFinalizer
            <4> QED
                BY <2>1, <4>1, <4>2, RefKeep
        <3> QED
            BY <2>1, <3>1, RefNext
    <2>3. CASE ~CanRewind
        BY <1>3, <1>u, <2>1, <2>3 DEF Expand
    <2> QED
        BY <2>2, <2>3
<1>4. CASE Grow
    BY <1>4, <1>u DEF Grow
\* Nothing points into a block that is not allocated.
<1>a. ASSUME NEW b \in Buf, ~Allocated(b), NEW zz \in Zone, NEW r \in refs[zz]
      PROVE  r[1] # b
    BY <1>a, RefNow
<1>5. ASSUME NEW b \in Buf, Realloc(b) PROVE RefInv'
    <2>1. /\ buffer \in Buf /\ buffer # NULL /\ count[buffer] = 1 /\ ~referenced
          /\ UNCHANGED <<z, referenced, fins, refs>> /\ buffer' = b
          /\ pc = "realloc"
        BY <1>5, Live, HasBuffer DEF Realloc, IInv, LocalInv, BufferInv
    <2>2. ASSUME NEW zz \in Zone, NEW r \in refs[zz] PROVE RefOf(zz, r)'
        <3>1. r[1] \in Buf /\ r[1] # buffer /\ HasFinalizer(zz, r[1])
            BY <2>1, RefNow, NoRefToBuffer DEF Anchored
        <3>2. r[1] # b
            BY <1>5, <1>a, <3>1 DEF Realloc
        <3>3. alloc'[r[1]] = alloc[r[1]] /\ mem'[r[1]] = mem[r[1]]
            BY <1>5, <1>t, <3>1, <3>2 DEF Realloc, TypeOK
        <3>4. Anchored(zz, r)'
            BY <1>f, <2>1, <3>1
        <3> QED
            BY <2>1, <3>2, <3>3, <3>4, RefKeep
    <2> QED
        BY <2>1, <2>2, RefNext
<1>6. ASSUME NEW b \in Buf, Malloc(b) PROVE RefInv'
    <2>1. UNCHANGED <<buffer, off, z, referenced, fins, refs>> /\ ~Allocated(b)
        BY <1>6 DEF Malloc
    <2>2. ASSUME NEW zz \in Zone, NEW r \in refs[zz] PROVE RefOf(zz, r)'
        <3>1. r[1] \in Buf /\ r[1] # b
            BY <1>a, <2>1, RefNow
        <3>2. alloc'[r[1]] = alloc[r[1]] /\ mem'[r[1]] = mem[r[1]]
            BY <1>6, <1>t, <3>1 DEF Malloc, TypeOK
        <3>3. Anchored(zz, r)' /\ (r[1] = buffer' => r[2] < off')
            BY <2>1, RefNow DEF Anchored, HasFinalizer
        <3> QED
            BY <3>2, <3>3, RefKeep
    <2> QED
        BY <2>1, <2>2, RefNext
<1>7. CASE OutOfMemory
    BY <1>7, <1>u DEF OutOfMemory
\* The unpacker lets go of a block whose objects all have finalizers for it.
<1>d. ASSUME buffer # NULL, pc # "incr", Decr(buffer),
             NEW zz \in Zone, NEW r \in refs[zz], HasFinalizer(zz, r[1])
      PROVE  alloc'[r[1]] = alloc[r[1]] /\ mem'[r[1]] = mem[r[1]]
    <2>1. /\ \A c \in Buf : c # buffer => alloc'[c] = alloc[c] /\ mem'[c] = mem[c]
          /\ count[buffer] # 1 => alloc' = alloc /\ mem' = mem
        BY <1>d, <1>t, Live, DecrType
    <2>2. count[buffer] = 1 => r[1] # buffer
        BY <1>d, SoleOwner
    <2> QED
        BY <2>1, <2>2, RefNow
<1>8. CASE Swap
    <2>1. /\ pc = "swap" /\ buffer # NULL /\ buffer \in Buf /\ tmp # buffer
          /\ buffer' = tmp /\ z' = z /\ refs' = refs
        BY <1>8, <1>z, Live, HasBuffer DEF Swap, LocalInv
    <2>2. ASSUME NEW zz \in Zone, NEW r \in refs[zz] PROVE r[1] # tmp
        BY <2>1, TmpUnknown, RefNow DEF Anchored
    <2>3. CASE referenced
        <3>1. z \in Zone /\ PushFinalizer(z, buffer) /\ UNCHANGED <<alloc, mem>>
            BY <1>8, <1>t, <1>z, <2>3 DEF Swap, ZoneInv, TypeOK
        <3>2. ASSUME NEW zz \in Zone, NEW r \in refs[zz] PROVE RefOf(zz, r)'
            <4>1. HasFinalizer(zz, r[1])'
                <5>1. CASE HasFinalizer(zz, r[1])
                    BY <1>t, <2>1, <3>1, <5>1, PushEffect DEF HasFinalizer
                <5>2. CASE zz = z /\ r[1] = buffer
                    BY <1>t, <2>1, <3>1, <5>2, PushEffect DEF HasFinalizer
                <5> QED
                    BY <5>1, <5>2, RefNow DEF Anchored
            <4>2. Anchored(zz, r)'
                BY <4>1 DEF Anchored
            <4> QED
                BY <2>1, <2>2, <3>1, <4>2, RefKeep
        <3> QED
            BY <2>1, <3>2, RefNext
    <2>4. CASE ~referenced
        <3>1. Decr(buffer) /\ fins' = fins
            BY <1>8, <2>4 DEF Swap
        <3>2. ASSUME NEW zz \in Zone, NEW r \in refs[zz] PROVE RefOf(zz, r)'
            <4>1. HasFinalizer(zz, r[1])
                BY <2>4, RefNow DEF Anchored
            <4>2. alloc'[r[1]] = alloc[r[1]] /\ mem'[r[1]] = mem[r[1]]
                BY <1>d, <2>1, <3>1, <4>1
            <4>3. Anchored(zz, r)'
                BY <1>f, <3>1, <4>1
            <4> QED
                BY <2>1, <2>2, <4>2, <4>3, RefKeep
        <3> QED
            BY <2>1, <3>2, RefNext
    <2> QED
        BY <2>3, <2>4
<1>9. CASE SwapFails
    <2>1. /\ pc = "swap" /\ tmp \in Buf /\ tmp # buffer /\ Free(tmp)
          /\ UNCHANGED <<buffer, off, z, referenced, fins, refs>>
        BY <1>9, <1>z DEF SwapFails, LocalInv
    <2>2. ASSUME NEW zz \in Zone, NEW r \in refs[zz] PROVE RefOf(zz, r)'
        <3>1. r[1] \in Buf /\ r[1] # tmp
            BY <2>1, TmpUnknown, RefNow DEF Anchored
        <3>2. alloc'[r[1]] = alloc[r[1]] /\ mem'[r[1]] = mem[r[1]]
            BY <1>t, <2>1, <3>1, FreeType
        <3>3. Anchored(zz, r)' /\ (r[1] = buffer' => r[2] < off')
            BY <2>1, RefNow DEF Anchored, HasFinalizer
        <3> QED
            BY <3>2, <3>3, RefKeep
    <2> QED
        BY <2>1, <2>2, RefNext
<1>10. ASSUME NEW n \in 0 .. MaxBytes, NEW ret \in Outcome, Parse(n, ret), pc \in {"idle", "next_execute"}
       PROVE  RefInv'
    <2>1. /\ buffer \in Buf /\ off \in Nat /\ Pending \in Nat /\ off + Pending = used
          /\ used + free = alloc[buffer] /\ free \in Nat /\ used \in Nat
        BY <1>10, Live, HasBuffer
    <2>2. n <= Pending /\ off' = off + n /\ UNCHANGED <<buffer, alloc, mem, fins>>
        BY <1>10 DEF Parse
    <2>3. z # NULL => z' = z
        BY <1>10 DEF Parse
    <2>4. referenced => referenced'
        BY <1>10 DEF Parse
    <2>5. ASSUME NEW zz \in Zone, NEW r \in refs[zz] PROVE RefOf(zz, r)'
        <3>1. r[1] = buffer' => r[2] < off'
            BY <2>1, <2>2, RefNow
        <3>2. Anchored(zz, r)'
            BY <2>2, <2>3, <2>4, RefNow DEF Anchored, HasFinalizer
        <3> QED
            BY <2>2, <3>1, <3>2, RefKeep
    <2>6. ASSUME NEW zz \in Zone, NEW r \in refs'[zz], r \notin refs[zz] PROVE RefOf(zz, r)'
        <3>1. ~UNCHANGED refs
            BY <2>6
        <3>2. PICK y \in Zone :
                  /\ z' = y /\ referenced' = TRUE
                  /\ \E P \in SUBSET (off .. off + n - 1) :
                        refs' = [refs EXCEPT ![y] =
                                    @ \cup {<<buffer, p, Read(<<buffer, p>>)>> : p \in P}]
            BY <1>10, <3>1 DEF Parse
        <3>3. PICK P \in SUBSET (off .. off + n - 1) :
                  refs' = [refs EXCEPT ![y] = @ \cup {<<buffer, p, Read(<<buffer, p>>)>> : p \in P}]
            BY <3>2
        <3>4. zz = y /\ r \in {<<buffer, p, Read(<<buffer, p>>)>> : p \in P}
            BY <1>o, <2>6, <3>3
        <3>5. PICK p \in P : r = <<buffer, p, Read(<<buffer, p>>)>>
            BY <3>4
        <3>6. p \in 0 .. alloc[buffer] - 1 /\ p < off'
            BY <2>1, <2>2, <3>3, <3>5
        <3>7. Read(r)' = r[3]
            BY <2>1, <2>2, <3>5, <3>6 DEF Read
        <3> QED
            BY <2>2, <3>2, <3>4, <3>5, <3>6, <3>7 DEF RefOf, Anchored
    <2> QED
        BY <2>5, <2>6, RefNext
<1>11. ASSUME NEW n \in 0 .. MaxBytes, NEW ret \in Outcome, Execute(n, ret) PROVE RefInv'
    BY <1>10, <1>11 DEF Execute
<1>12. ASSUME NEW n \in 0 .. MaxBytes, NEW ret \in Outcome, Next_Execute(n, ret) PROVE RefInv'
    BY <1>10, <1>12 DEF Next_Execute
<1>b. ASSUME NEW zz \in Zone, BeginFinalizers(zz)
      PROVE  /\ fins' = fins
             /\ refs'[zz] = {} /\ \A y \in Zone : y # zz => refs'[y] = refs[y]
    BY <1>b, <1>o DEF BeginFinalizers
<1>13. CASE Next_Begin
    BY <1>13, <1>b, <1>o, <1>u DEF Next_Begin
<1>14. ASSUME NEW d \in {"app", "unpacker"}, Flush_Begin(d) PROVE RefInv'
    BY <1>14, <1>u DEF Flush_Begin
<1>15. CASE Flush_Unreferenced
    BY <1>15, <1>u DEF Flush_Unreferenced
<1>16. CASE Flush_Push
    <2>1. /\ z \in Zone /\ buffer \in Buf /\ PushFinalizer(z, buffer)
          /\ UNCHANGED <<buffer, off, alloc, mem, refs>>
        BY <1>16, <1>t, <1>z, Live, HasBuffer DEF Flush_Push, ZoneInv, TypeOK
    <2>2. ASSUME NEW zz \in Zone, NEW r \in refs[zz] PROVE RefOf(zz, r)'
        <3>1. HasFinalizer(zz, r[1])'
            <4>1. CASE HasFinalizer(zz, r[1])
                BY <1>t, <2>1, <4>1, PushEffect DEF HasFinalizer
            <4>2. CASE zz = z /\ r[1] = buffer
                BY <1>t, <2>1, <4>2, PushEffect DEF HasFinalizer
            <4> QED
                BY <4>1, <4>2, RefNow DEF Anchored
        <3>2. Anchored(zz, r)' /\ (r[1] = buffer' => r[2] < off')
            BY <2>1, <3>1, RefNow DEF Anchored
        <3> QED
            BY <2>1, <3>2, RefKeep
    <2> QED
        BY <2>1, <2>2, RefNext
<1>17. CASE Flush_Incr
    <2>1. ~referenced
        BY <1>17, <1>z DEF Flush_Incr, LocalInv
    <2> QED
        BY <1>17, <1>u, <2>1 DEF Flush_Incr
<1>18. CASE Flush_Fails
    BY <1>18, <1>u DEF Flush_Fails
<1>19. CASE Unpacked_ReleaseZone
    BY <1>19, <1>u DEF Unpacked_ReleaseZone
<1>20. CASE Unpacked_Destroy
    BY <1>20, <1>b, <1>o, <1>u DEF Unpacked_Destroy
<1>21. CASE ResetZone
    BY <1>21, <1>b, <1>o, <1>u DEF ResetZone
<1>22. CASE Resume
    BY <1>22, <1>u DEF Resume
<1>23. CASE Destroy
    BY <1>23, <1>b, <1>o, <1>u DEF Destroy
<1>24. CASE Destroy_End
    <2>1. /\ buffer # NULL /\ pc # "incr" /\ Decr(buffer) /\ buffer' = NULL
          /\ UNCHANGED <<fins, refs>> /\ z = NULL
        BY <1>24, <1>z, HasBuffer DEF Destroy_End, ZoneInv
    <2>2. ASSUME NEW zz \in Zone, NEW r \in refs[zz] PROVE RefOf(zz, r)'
        <3>1. HasFinalizer(zz, r[1]) /\ r[1] # NULL
            BY <2>1, RefNow DEF Anchored
        <3>2. alloc'[r[1]] = alloc[r[1]] /\ mem'[r[1]] = mem[r[1]]
            BY <1>d, <2>1, <3>1
        <3>3. Anchored(zz, r)'
            BY <1>f, <2>1, <3>1
        <3> QED
            BY <2>1, <3>1, <3>2, <3>3, RefKeep
    <2> QED
        BY <2>1, <2>2, RefNext
<1>25. ASSUME NEW zz \in Zone, App_FreeZone(zz) PROVE RefInv'
    <2>1. zz # z
        BY <1>25, <1>z DEF App_FreeZone, ZoneInv
    <2> QED
        BY <1>25, <1>b, <1>o, <1>u, <2>1 DEF App_FreeZone
<1>26. ASSUME NEW zz \in Zone, EndFinalizers(zz) PROVE RefInv'
    BY <1>26, <1>u DEF EndFinalizers
<1>27. ASSUME NEW zz \in Zone, RunFinalizer(zz) PROVE RefInv'
    <2> DEFINE b == fins[zz][Len(fins[zz])]
    <2>1. /\ b \in Buf /\ Len(fins[zz]) \in DOMAIN fins[zz] /\ owner[zz] = "dying"
          /\ \A y \in Zone : y # zz => fins'[y] = fins[y]
          /\ \A c \in Buf : c # b => alloc'[c] = alloc[c] /\ mem'[c] = mem[c]
          /\ count[b] # 1 => alloc' = alloc /\ mem' = mem
          /\ UNCHANGED <<buffer, off, z, referenced, refs>>
        BY <1>27, RunFinalizerEffect, ZenonT(60) DEF RunFinalizer
    <2>2. refs[zz] = {}
        BY <1>z, <2>1 DEF ZoneInv
    <2>3. ASSUME NEW y \in Zone, NEW r \in refs[y] PROVE RefOf(y, r)'
        <3>1. y # zz
            BY <2>2
        <3>2. Anchored(y, r)' /\ (r[1] = buffer' => r[2] < off')
            BY <2>1, <3>1, RefNow DEF Anchored, HasFinalizer
        <3>3. count[b] = 1 => r[1] # b
            BY <2>1, <3>1, LastFinalizer, RefNow DEF Anchored
        <3>4. alloc'[r[1]] = alloc[r[1]] /\ mem'[r[1]] = mem[r[1]]
            BY <2>1, <3>3, RefNow
        <3> QED
            BY <3>2, <3>4, RefKeep
    <2> QED
        BY <2>1, <2>3, RefNext
<1>28. CASE UNCHANGED vars
    BY <1>28, <1>u DEF vars
<1> QED
    BY <1>1, <1>2, <1>3, <1>4, <1>5, <1>6, <1>7, <1>8, <1>9, <1>11, <1>12, <1>13,
       <1>14, <1>15, <1>16, <1>17, <1>18, <1>19, <1>20, <1>21, <1>22, <1>23, <1>24,
       <1>25, <1>26, <1>27, <1>28 DEF Next, Call, Continue, Finalize
-----------------------------------------------------------------------------
(* The room that was promised *)

LEMMA GrantStep == IInv /\ [Next]_vars => GrantKept'
<1> SUFFICES ASSUME IInv, [Next]_vars PROVE GrantKept'
    OBVIOUS
<1> USE UnpackerConstants
<1>t. TypeOK /\ GrantKept /\ LocalInv
    BY DEF IInv
<1>n. granted \in Nat /\ free \in Nat
    BY <1>t, SizeIs DEF TypeOK
<1>u. ASSUME UNCHANGED <<granted, free>> PROVE GrantKept'
    BY <1>t, <1>u DEF GrantKept
<1> USE DEF mpac, ctx, expand, call, heap, zones
<1>1. ASSUME NEW n \in Request, Reserve(n) PROVE GrantKept'
    BY <1>1, <1>n DEF Reserve, GrantKept
<1>2. ASSUME NEW n \in 1 .. MaxBytes, Feed(n) PROVE GrantKept'
    BY <1>2, <1>n DEF Feed, GrantKept
<1>3. CASE Expand
    <2>1. used \in Nat /\ used >= COUNTER /\ COUNTER \in Nat /\ req \in Nat
        BY <1>3, <1>t, Live, HasBuffer, Numbers, SizeIs DEF Expand
    <2>2. free' \in Nat /\ free' >= free
        BY <1>3, <1>n, <2>1 DEF Expand
    <2> QED
        BY <1>3, <1>t, <1>n, <2>1, <2>2 DEF Expand, GrantKept
<1>4. CASE Grow
    BY <1>4, <1>u DEF Grow
<1>5. ASSUME NEW b \in Buf, Realloc(b) PROVE GrantKept'
    <2>1. nsize >= used + req /\ used \in Nat /\ req \in Nat /\ nsize \in Nat
        BY <1>5, <1>t, Numbers DEF Realloc, LocalInv
    <2>2. nsize - used \in Size
        BY <1>t, <2>1, Numbers, SizeIs
    <2> QED
        BY <1>5, <2>1, <2>2, WrapSmall DEF Realloc, GrantKept
<1>6. ASSUME NEW b \in Buf, Malloc(b) PROVE GrantKept'
    BY <1>6, <1>u DEF Malloc
<1>7. CASE OutOfMemory
    BY <1>7, <1>u DEF OutOfMemory
<1>8. CASE Swap
    <2>1. /\ nsize >= Pending + COUNTER + req /\ Pending \in Nat /\ COUNTER \in Nat
          /\ req \in Nat /\ nsize \in Nat
        BY <1>8, <1>t, Live, HasBuffer, Numbers, SizeIs DEF Swap, LocalInv
    <2>2. nsize - (Pending + COUNTER) \in Size
        BY <1>t, <2>1, Numbers, SizeIs
    <2> QED
        BY <1>8, <2>1, <2>2, WrapSmall DEF Swap, GrantKept
<1>9. CASE SwapFails
    BY <1>9, <1>u DEF SwapFails
<1>11. ASSUME NEW n \in 0 .. MaxBytes, NEW ret \in Outcome, Execute(n, ret) PROVE GrantKept'
    BY <1>11, <1>u DEF Execute, Parse
<1>12. ASSUME NEW n \in 0 .. MaxBytes, NEW ret \in Outcome, Next_Execute(n, ret) PROVE GrantKept'
    BY <1>12, <1>u DEF Next_Execute, Parse
<1>13. CASE Next_Begin
    BY <1>13, <1>u DEF Next_Begin
<1>14. ASSUME NEW d \in {"app", "unpacker"}, Flush_Begin(d) PROVE GrantKept'
    BY <1>14, <1>u DEF Flush_Begin
<1>15. CASE Flush_Unreferenced \/ Flush_Push \/ Flush_Incr \/ Flush_Fails
    BY <1>15, <1>u DEF Flush_Unreferenced, Flush_Push, Flush_Incr, Flush_Fails
<1>19. CASE Unpacked_ReleaseZone \/ Unpacked_Destroy
    BY <1>19, <1>u DEF Unpacked_ReleaseZone, Unpacked_Destroy
<1>21. CASE ResetZone \/ Resume \/ Destroy \/ Destroy_End
    BY <1>21, <1>u DEF ResetZone, Resume, Destroy, Destroy_End
<1>25. ASSUME NEW zz \in Zone, App_FreeZone(zz) \/ Finalize(zz) PROVE GrantKept'
    BY <1>25, <1>u DEF App_FreeZone, Finalize, RunFinalizer, EndFinalizers
<1>28. CASE UNCHANGED vars
    BY <1>28, <1>u DEF vars
<1> QED
    BY <1>1, <1>2, <1>3, <1>4, <1>5, <1>6, <1>7, <1>8, <1>9, <1>11, <1>12, <1>13,
       <1>14, <1>15, <1>19, <1>21, <1>25, <1>28 DEF Next, Call, Continue
-----------------------------------------------------------------------------
(* The theorems *)

LEMMA StepInv == IInv /\ [Next]_vars => IInv'
BY TypeStep, LocalStep, ZoneStep, BufferStep, CountStep, RefStep, GrantStep DEF IInv

LEMMA Invariance == Spec => []IInv
BY InitInv, StepInv, PTL DEF Spec

\* Every field, size and counter stays in its type: no size_t wraps in a field,
\* no counter goes below zero.
THEOREM UnpackerTypeOK == Spec => []TypeOK
BY Invariance, PTL DEF IInv

\* An object of a zone that is not freed reads the bytes its message had, under
\* every interleaving of the unpacker, the application and the finalizers.
THEOREM UnpackerObjectsIntact == Spec => []ObjectsIntact
<1>1. IInv => ObjectsIntact
    BY DEF IInv, RefInv, ObjectsIntact
<1> QED
    BY <1>1, Invariance, PTL

\* The counter of a block is the number of those who will decrement it.
THEOREM UnpackerCountExact == Spec => []CountExact
<1>1. IInv => CountExact
    BY DEF IInv, CountInv
<1> QED
    BY <1>1, Invariance, PTL

\* A block is allocated exactly as long as somebody holds it.
THEOREM UnpackerHeldIffAllocated == Spec => []HeldIffAllocated
<1>1. ASSUME IInv, NEW b \in Buf PROVE Allocated(b) <=> Holders(b) # {}
    <2>1. CountOf(b) /\ count[b] \in Nat
        BY <1>1, CountNow
    <2>2. Counting(b) => count[b] > 0
        BY <1>1, Live, UnpackerConstants DEF Counting
    <2>3. Holders(b) = {} <=> Cardinality(Holders(b)) = 0
        BY <2>1, FS_EmptySet DEF CountOf
    <2> QED
        BY <2>1, <2>2, <2>3 DEF CountOf
<1>2. IInv => HeldIffAllocated
    BY <1>1 DEF HeldIffAllocated
<1> QED
    BY <1>2, Invariance, PTL

\* The bytes received and not parsed are in the block, in the order of arrival.
THEOREM UnpackerStreamIntact == Spec => []StreamIntact
<1>1. IInv => StreamIntact
    BY DEF IInv, BufferInv
<1> QED
    BY <1>1, Invariance, PTL

\* The fields used, free and off describe the block the unpacker has.
THEOREM UnpackerSpaceAccounted == Spec => []SpaceAccounted
<1>1. IInv => SpaceAccounted
    BY DEF IInv, BufferInv
<1> QED
    BY <1>1, Invariance, PTL

\* Room that reserve_buffer promised is there, for requests that do not make the
\* size computations wrap.
THEOREM UnpackerGrantKept == Spec => []GrantKept
<1>1. IInv => GrantKept
    BY DEF IInv
<1> QED
    BY <1>1, Invariance, PTL

\* realloc is called on a block only the unpacker knows.
THEOREM UnpackerReallocSafe == Spec => []ReallocSafe
<1>1. ASSUME IInv, pc \in {"grow_realloc", "realloc"}
      PROVE  /\ count[buffer] = 1
             /\ \A zz \in Zone : \A r \in refs[zz] : r[1] # buffer
    <2>1. buffer # NULL /\ count[buffer] = 1 /\ ~referenced
        BY <1>1, HasBuffer DEF IInv, LocalInv, BufferInv
    <2> QED
        BY <1>1, <2>1, NoRefToBuffer
<1>2. IInv => ReallocSafe
    BY <1>1 DEF ReallocSafe
<1> QED
    BY <1>2, Invariance, PTL

\* The unpacker's zone is in mpac->z and the zone next handed out in the result.
THEOREM UnpackerZoneOwned == Spec => []ZoneOwned
<1>1. IInv => ZoneOwned
    BY DEF IInv, ZoneInv
<1> QED
    BY <1>1, Invariance, PTL

\* msgpack_zone_push_finalizer is called on a zone that exists.
THEOREM UnpackerFinalizerHasZone == Spec => []FinalizerHasZone
<1>1. IInv => FinalizerHasZone
    BY DEF IInv, ZoneInv, FinalizerHasZone
<1> QED
    BY <1>1, Invariance, PTL
-----------------------------------------------------------------------------
(* The unpacker implements ObjectStream *)

\* The bytes the objects of each zone were made of.
MadeOf == [zz \in Zone |-> {r[3] : r \in refs[zz]}]

\* What the objects read is what they were made of, now and after a step.
LEMMA HeldNow ==
    ASSUME IInv PROVE [zz \in Zone |-> {Read(r) : r \in refs[zz]}] = MadeOf
<1>1. \A zz \in Zone : \A r \in refs[zz] : Read(r) = r[3]
    BY DEF IInv, RefInv
<1>2. \A zz \in Zone : {Read(r) : r \in refs[zz]} = {r[3] : r \in refs[zz]}
    BY <1>1
<1> QED
    BY <1>2 DEF MadeOf

LEMMA HeldNext ==
    ASSUME IInv' PROVE [zz \in Zone |-> {Read(r) : r \in refs[zz]}]' = MadeOf'
<1>1. \A zz \in Zone : \A r \in refs'[zz] : Read(r)' = r[3]
    BY DEF IInv, RefInv
<1>2. \A zz \in Zone : {Read(r)' : r \in refs'[zz]} = {r[3] : r \in refs'[zz]}
    BY <1>1
<1> QED
    BY <1>2 DEF MadeOf

LEMMA InitImplements == Init => Objects!Init
<1> SUFFICES ASSUME Init PROVE Objects!Init
    OBVIOUS
<1>1. received = 0 /\ consumed = 0
    BY UnpackerConstants DEF Init, received, Pending
<1>2. [zz \in Zone |-> {Read(r) : r \in refs[zz]}] = [zz \in Zone |-> {}]
    BY DEF Init
<1> QED
    BY <1>1, <1>2 DEF Objects!Init

LEMMA StepImplements == IInv /\ IInv' /\ [Next]_vars => [Objects!Next]_(Objects!vars)
<1> SUFFICES ASSUME IInv, IInv', [Next]_vars PROVE [Objects!Next]_(Objects!vars)
    OBVIOUS
<1> USE UnpackerConstants
<1>t. TypeOK /\ TypeOK'
    BY DEF IInv
<1>h. /\ [zz \in Zone |-> {Read(r) : r \in refs[zz]}] = MadeOf
      /\ [zz \in Zone |-> {Read(r) : r \in refs[zz]}]' = MadeOf'
    BY HeldNow, HeldNext
<1>o. DOMAIN refs = Zone /\ DOMAIN refs' = Zone /\ z \in Zone \cup {NULL} /\ result \in Zone \cup {NULL}
    BY <1>t DEF TypeOK
\* Steps the application does not see.
<1>u. ASSUME received' = received, consumed' = consumed, refs' = refs
      PROVE  UNCHANGED Objects!vars
    <2>1. MadeOf' = MadeOf
        BY <1>u DEF MadeOf
    <2> QED
        BY <1>h, <1>u, <2>1 DEF Objects!vars
\* Steps that begin to free or clear a zone.
<1>b. ASSUME NEW zz \in Zone, BeginFinalizers(zz), received' = received, consumed' = consumed
      PROVE  Objects!Drop(zz)
    <2>1. refs'[zz] = {} /\ \A y \in Zone : y # zz => refs'[y] = refs[y]
        BY <1>b, <1>o DEF BeginFinalizers
    <2>2. \A y \in Zone : MadeOf'[y] = IF y = zz THEN {} ELSE MadeOf[y]
        BY <2>1 DEF MadeOf
    <2>3. MadeOf' = [MadeOf EXCEPT ![zz] = {}]
        BY <2>2 DEF MadeOf
    <2> QED
        BY <1>b, <1>h, <2>3 DEF Objects!Drop
<1>k. UNCHANGED <<used, off, consumed>> => received' = received
    BY DEF received, Pending
<1> USE DEF mpac, ctx, expand, call, heap, zones
<1>1. ASSUME NEW n \in Request, Reserve(n) PROVE UNCHANGED Objects!vars
    BY <1>1, <1>u, <1>k DEF Reserve
<1>2. ASSUME NEW n \in 1 .. MaxBytes, Feed(n) PROVE Objects!Receive
    <2>1. used \in Nat /\ off \in Nat /\ Pending \in Nat /\ consumed \in Nat /\ received \in Nat
        BY <1>2, <1>t, Live, HasBuffer, Numbers DEF Feed
    <2>2. used' = used + n /\ UNCHANGED <<off, consumed, refs>> /\ received + n <= MaxBytes
        BY <1>2 DEF Feed
    <2>3. received' = received + n
        BY <2>1, <2>2 DEF received, Pending
    <2>4. MadeOf' = MadeOf
        BY <2>2 DEF MadeOf
    <2>5. received' \in received + 1 .. MaxBytes
        BY <2>1, <2>2, <2>3
    <2> QED
        BY <1>h, <2>2, <2>4, <2>5 DEF Objects!Receive
<1>3. CASE Expand
    <2>1. UNCHANGED <<consumed, refs>>
        BY <1>3 DEF Expand
    <2>2. used' - off' = used - off
        BY <1>3, <1>t, Numbers, SizeIs DEF Expand, CanRewind
    <2>3. received' = received
        BY <2>1, <2>2 DEF received, Pending
    <2> QED
        BY <1>u, <2>1, <2>3
<1>4. CASE Grow
    BY <1>4, <1>u, <1>k DEF Grow
<1>5. ASSUME NEW b \in Buf, Realloc(b) PROVE UNCHANGED Objects!vars
    BY <1>5, <1>u, <1>k DEF Realloc
<1>6. ASSUME NEW b \in Buf, Malloc(b) PROVE UNCHANGED Objects!vars
    BY <1>6, <1>u, <1>k DEF Malloc
<1>7. CASE OutOfMemory
    BY <1>7, <1>u, <1>k DEF OutOfMemory
<1>8. CASE Swap
    <2>1. UNCHANGED <<consumed, refs>> /\ used' = Pending + COUNTER /\ off' = COUNTER
        BY <1>8 DEF Swap
    <2>2. received' = received
        BY <1>8, <2>1, Live, HasBuffer, SizeIs DEF Swap, received, Pending
    <2> QED
        BY <1>u, <2>1, <2>2
<1>9. CASE SwapFails
    BY <1>9, <1>u, <1>k DEF SwapFails
<1>10. ASSUME NEW n \in 0 .. MaxBytes, NEW ret \in Outcome, Parse(n, ret), pc \in {"idle", "next_execute"}
       PROVE  Objects!Consume
    <2>1. /\ buffer # NULL /\ used \in Nat /\ off \in Nat /\ Pending \in Nat /\ off + Pending = used
          /\ consumed \in Nat /\ received = consumed + Pending
        BY <1>10, <1>t, Live, HasBuffer, Numbers
    <2>2. n <= Pending /\ off' = off + n /\ consumed' = consumed + n /\ used' = used
        BY <1>10 DEF Parse
    <2>3. received' = received /\ consumed' \in consumed .. received
        BY <2>1, <2>2 DEF received, Pending
    <2>4. CASE refs' = refs
        <3>1. MadeOf' = MadeOf
            BY <2>4 DEF MadeOf
        <3> QED
            BY <1>h, <2>3, <3>1 DEF Objects!Consume
    <2>5. CASE refs' # refs
        <3>1. PICK y \in Zone : \E P \in SUBSET (off .. off + n - 1) :
                  refs' = [refs EXCEPT ![y] = @ \cup {<<buffer, p, Read(<<buffer, p>>)>> : p \in P}]
            BY <1>10, <2>5 DEF Parse
        <3>2. PICK P \in SUBSET (off .. off + n - 1) :
                  refs' = [refs EXCEPT ![y] = @ \cup {<<buffer, p, Read(<<buffer, p>>)>> : p \in P}]
            BY <3>1
        <3> DEFINE New == {<<buffer, p, Read(<<buffer, p>>)>> : p \in P}
                   S == {r[3] : r \in New}
        <3>3. S \subseteq consumed .. consumed' - 1
            <4>1. ASSUME NEW p \in P PROVE Read(<<buffer, p>>) \in consumed .. consumed' - 1
                <5>1. p - off \in 0 .. Pending - 1 /\ p - off < n
                    BY <2>1, <2>2
                <5>2. Read(<<buffer, p>>) = consumed + (p - off)
                    BY <2>1, <5>1, ParsedByte
                <5> QED
                    BY <2>1, <2>2, <5>1, <5>2
            <4>2. ASSUME NEW r \in New PROVE r[3] \in consumed .. consumed' - 1
                <5>1. PICK p \in P : r = <<buffer, p, Read(<<buffer, p>>)>>
                    OBVIOUS
                <5> QED
                    BY <4>1, <5>1
            <4> HIDE DEF New
            <4> QED
                BY <4>2
        <3>4. refs'[y] = refs[y] \cup New /\ \A x \in Zone : x # y => refs'[x] = refs[x]
            BY <1>o, <3>2
        <3> HIDE DEF New
        <3>5. \A x \in Zone : MadeOf'[x] = IF x = y THEN MadeOf[x] \cup S ELSE MadeOf[x]
            <4>1. MadeOf'[y] = MadeOf[y] \cup S
                <5>1. {r[3] : r \in refs[y] \cup New} = {r[3] : r \in refs[y]} \cup S
                    OBVIOUS
                <5> QED
                    BY <3>4, <5>1 DEF MadeOf
            <4>2. \A x \in Zone : x # y => MadeOf'[x] = MadeOf[x]
                BY <3>4 DEF MadeOf
            <4> QED
                BY <4>1, <4>2
        <3> HIDE DEF S
        <3>6. MadeOf' = [MadeOf EXCEPT ![y] = @ \cup S]
            BY <3>5 DEF MadeOf
        <3> QED
            BY <1>h, <2>3, <3>3, <3>6 DEF Objects!Consume
    <2> QED
        BY <2>4, <2>5
<1>11. ASSUME NEW n \in 0 .. MaxBytes, NEW ret \in Outcome, Execute(n, ret) PROVE Objects!Consume
    BY <1>10, <1>11 DEF Execute
<1>12. ASSUME NEW n \in 0 .. MaxBytes, NEW ret \in Outcome, Next_Execute(n, ret) PROVE Objects!Consume
    BY <1>10, <1>12 DEF Next_Execute
<1>13. CASE Next_Begin
    <2>1. CASE result = NULL
        BY <1>13, <1>u, <1>k, <2>1 DEF Next_Begin
    <2>2. CASE result # NULL
        BY <1>13, <1>b, <1>k, <1>o, <2>2 DEF Next_Begin, Objects!Next
    <2> QED
        BY <2>1, <2>2
<1>14. ASSUME NEW d \in {"app", "unpacker"}, Flush_Begin(d) PROVE UNCHANGED Objects!vars
    BY <1>14, <1>u, <1>k DEF Flush_Begin
<1>15. CASE Flush_Unreferenced \/ Flush_Push \/ Flush_Incr \/ Flush_Fails
    BY <1>15, <1>u, <1>k DEF Flush_Unreferenced, Flush_Push, Flush_Incr, Flush_Fails
<1>19. CASE Unpacked_ReleaseZone
    BY <1>19, <1>u, <1>k DEF Unpacked_ReleaseZone
<1>20. CASE Unpacked_Destroy
    BY <1>20, <1>b, <1>k, <1>o DEF Unpacked_Destroy, Objects!Next
<1>21. CASE ResetZone
    BY <1>21, <1>b, <1>k, <1>o DEF ResetZone, Objects!Next
<1>22. CASE Resume \/ Destroy_End
    BY <1>22, <1>u, <1>k DEF Resume, Destroy_End
<1>23. CASE Destroy
    <2>1. CASE z = NULL
        BY <1>23, <1>u, <1>k, <2>1 DEF Destroy
    <2>2. CASE z # NULL
        BY <1>23, <1>b, <1>k, <1>o, <2>2 DEF Destroy, Objects!Next
    <2> QED
        BY <2>1, <2>2
<1>25. ASSUME NEW zz \in Zone, App_FreeZone(zz) PROVE Objects!Next
    BY <1>25, <1>b, <1>k DEF App_FreeZone, Objects!Next
<1>26. ASSUME NEW zz \in Zone, Finalize(zz) PROVE UNCHANGED Objects!vars
    BY <1>26, <1>u, <1>k DEF Finalize, RunFinalizer, EndFinalizers
<1>28. CASE UNCHANGED vars
    BY <1>28, <1>u, <1>k DEF vars
<1> QED
    BY <1>1, <1>2, <1>3, <1>4, <1>5, <1>6, <1>7, <1>8, <1>9, <1>11, <1>12, <1>13,
       <1>14, <1>15, <1>19, <1>20, <1>21, <1>22, <1>23, <1>25, <1>26, <1>28
    DEF Next, Call, Continue, Objects!Next

\* The buffer management is invisible: to the application the unpacker behaves
\* like ObjectStream, whose objects are snapshots of the stream.
THEOREM UnpackerRefinesObjectStream == Spec => RefinesObjectStream
BY InitImplements, StepImplements, Invariance, PTL
   DEF RefinesObjectStream, Objects!Spec, Spec
-----------------------------------------------------------------------------
\* Counters, holders and blocks agree at every step of every interleaving.
THEOREM UnpackerBlocksCounted == Spec => []BlocksCounted
BY UnpackerCountExact, UnpackerHeldIffAllocated, UnpackerReallocSafe, PTL DEF BlocksCounted

\* The bytes not parsed, and the numbers that describe them, survive every rewinding,
\* enlarging and replacing of the block.
THEOREM UnpackerBufferExact == Spec => []BufferExact
BY UnpackerSpaceAccounted, UnpackerStreamIntact, PTL DEF BufferExact

\* A zone is freed by somebody, and no finalizer is pushed to one given away.
THEOREM UnpackerZonesOwned == Spec => []ZonesOwned
BY UnpackerZoneOwned, UnpackerFinalizerHasZone, PTL DEF ZonesOwned
=============================================================================
