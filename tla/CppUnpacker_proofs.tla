------------------------- MODULE CppUnpacker_proofs -------------------------
(***************************************************************************)
(* The unpacker of the C++ library keeps a block as long as an object points  *)
(* into it, counts exactly and leaks nothing, wherever it is moved and         *)
(* whatever throws: for any number of places, blocks, zones and bytes, when    *)
(* an unpacker that was moved does not have its buffer replaced.              *)
(***************************************************************************)
EXTENDS CppUnpacker, FiniteSetTheorems, SequenceTheorems, FunctionTheorems,
        WellFoundedInduction, TLAPS

\* The calls that look at the block while they prepare to replace it.
Expanding == {"expand", "realloc", "malloc", "swap"}

HasFinalizer(zz, b) == \E i \in DOMAIN fins[zz] : fins[zz][i] = b

\* Where the unpacker is, and what the local variables of expand_buffer and
\* flush_zone satisfy.
LocalInv ==
    /\ self = NULL => m_buffer = NULL /\ m_z = NULL /\ ~m_referenced /\ pc = "idle"
    /\ self # NULL => m_buffer # NULL /\ m_z # NULL /\ finalizer[self] = m_z
    /\ pc \in Expanding => hook = self /\ m_used + req \in Size
    /\ pc = "realloc" => m_off = COUNTER /\ nsize >= m_used + req
    /\ pc \in {"malloc", "swap"} => nsize >= Pending + COUNTER + req
    /\ pc = "swap" => /\ tmp \in Buf \ {m_buffer}
                      /\ alloc[tmp] = nsize
                      /\ count[tmp] = 1
                      /\ \A i \in 0 .. Pending - 1 : mem[tmp][COUNTER + i] = consumed + i
    /\ pc # "swap" => tmp = NULL
    /\ pc = "flush" /\ m_referenced => m_off # COUNTER
    /\ pc = "incr" => HasFinalizer(m_z, m_buffer) /\ m_off # COUNTER
    /\ pc \in {"incr", "release"} => ~m_referenced
    /\ pc = "release" => dest # "unpacker"

\* Who owns which zone.
ZoneInv ==
    /\ self # NULL => owner[m_z] = "unpacker"
    /\ result # NULL => owner[result] = "result"
    /\ old # NULL => owner[old] = "old" /\ pc = "deliver"

\* The block the unpacker has.  A block whose first byte is not parsed is fresh
\* or rewound: nobody else knows it.
BufferInv ==
    /\ SpaceAccounted
    /\ StreamIntact
    /\ SizeExact
    /\ self # NULL /\ m_off = COUNTER => count[m_buffer] = 1
    /\ self # NULL => received <= MaxBytes

CountInv ==
    /\ CountExact
    /\ \A b \in Buf : IsFiniteSet(Holders(b))
    /\ \A b \in Buf : Allocated(b) <=> count[b] > 0

\* Why an object's bytes are still there: its zone holds the block by a finalizer,
\* or it is the unpacker's zone, the block is the current one, and the referenced
\* flag remembers to add the finalizer before the block is let go.
Anchored(zz, r) ==
    \/ HasFinalizer(zz, r[1])
    \/ zz = m_z /\ r[1] = m_buffer /\ m_referenced

RefInv ==
    \A zz \in Zone : \A r \in refs[zz] :
        /\ Read(r) = r[3]
        /\ COUNTER <= r[2]
        /\ r[1] = m_buffer => r[2] < m_off
        /\ Anchored(zz, r)

IInv ==
    /\ TypeOK
    /\ LocalInv
    /\ ZoneInv
    /\ BufferInv
    /\ CountInv
    /\ RefInv
    /\ ReserveKept
-----------------------------------------------------------------------------
(* Sizes *)

LEMMA SizeIs == /\ Word \in Nat \ {0}
                /\ \A n : n \in Size <=> n \in Nat /\ n < Word
                /\ COUNTER \in Nat /\ COUNTER > 0 /\ COUNTER \in Size /\ 0 \in Size
                /\ INITIAL \in Nat
BY CppUnpackerConstants DEF Size

LEMMA WrapInSize == ASSUME NEW n \in Int PROVE Wrap(n) \in Size
BY SizeIs DEF Wrap, Size

LEMMA WrapSmall == ASSUME NEW n \in Size PROVE Wrap(n) = n
BY SizeIs DEF Wrap, Size

LEMMA Numbers ==
    ASSUME TypeOK
    PROVE  /\ m_used \in Nat /\ m_free \in Nat /\ m_off \in Nat /\ m_parsed \in Nat
           /\ req \in Nat /\ nsize \in Nat /\ granted \in Nat
           /\ m_used < Word /\ m_free < Word /\ m_off < Word /\ req < Word /\ nsize < Word
           /\ consumed \in Nat /\ start \in Nat
BY SizeIs DEF TypeOK

\* A set of natural numbers has a least one.
LEMMA Least ==
    ASSUME NEW S, S \subseteq Nat, S # {}
    PROVE  \E k \in S : \A l \in S : k <= l
<1>1. \E k \in S : \A l \in S : ~(<<l, k>> \in OpToRel(<, Nat))
    BY NatLessThanWellFounded, WFMin
<1>2. \A k, l \in Nat : ~(<<l, k>> \in OpToRel(<, Nat)) => k <= l
    BY DEF OpToRel
<1> QED
    BY <1>1, <1>2

\* The loop that doubles a size ends with one that is large enough and fits.
LEMMA DoubledEnough ==
    ASSUME NEW from \in Int, NEW need \in Size
    PROVE  Doubled(from, need) \in Size /\ Doubled(from, need) >= need
<1> DEFINE reach == {k \in need .. Word - 1 : \E e \in 0 .. need : k = Wrap(from) * 2 ^ e}
<1>1. \A k \in reach : k \in Nat /\ k \in Size /\ k >= need
    BY SizeIs
<1>2. Doubled(from, need) = IF reach = {} THEN need
                            ELSE CHOOSE k \in reach : \A l \in reach : k <= l
    BY DEF Doubled
<1>3. CASE reach = {}
    BY <1>2, <1>3, SizeIs
<1>4. CASE reach # {}
    <2> HIDE DEF reach
    <2>1. \E k \in reach : \A l \in reach : k <= l
        BY <1>1, <1>4, Least
    <2> QED
        BY <1>1, <1>2, <1>4, <2>1
<1> QED
    BY <1>3, <1>4
-----------------------------------------------------------------------------
(* The holders of a block *)

\* h is a finalizer that will decrement the counter of b.
Slot(b, h) == \E zz \in Zone : \E i \in DOMAIN fins[zz] : h = <<zz, i>> /\ fins[zz][i] = b

LEMMA HoldersNow ==
    ASSUME NEW b, NEW h
    PROVE  h \in Holders(b) <=> \/ h = <<NULL, 0>> /\ b = m_buffer
                                \/ h = <<NULL, 1>> /\ b = tmp
                                \/ Slot(b, h)
<1> DEFINE Slots(zz) == {<<zz, i>> : i \in {j \in DOMAIN fins[zz] : fins[zz][j] = b}}
<1>1. Holders(b) = {k \in {<<NULL, 0>>} : b = m_buffer} \cup {k \in {<<NULL, 1>>} : b = tmp}
                     \cup UNION {Slots(zz) : zz \in Zone}
    BY DEF Holders
<1>2. h \in UNION {Slots(zz) : zz \in Zone} <=> \E zz \in Zone : h \in Slots(zz)
    <2> HIDE DEF Slots
    <2> QED
        OBVIOUS
<1>3. \A zz \in Zone : h \in Slots(zz) <=>
          \E i \in DOMAIN fins[zz] : h = <<zz, i>> /\ fins[zz][i] = b
    OBVIOUS
<1> HIDE DEF Slots
<1> QED
    BY <1>1, <1>2, <1>3 DEF Slot

\* The same of the state after a step.
LEMMA HoldersNext ==
    ASSUME NEW b, NEW h
    PROVE  h \in Holders(b)' <=> \/ h = <<NULL, 0>> /\ b = m_buffer'
                                 \/ h = <<NULL, 1>> /\ b = tmp'
                                 \/ Slot(b, h)'
<1> DEFINE Slots(zz) == {<<zz, i>> : i \in {j \in DOMAIN fins'[zz] : fins'[zz][j] = b}}
<1>1. Holders(b)' = {k \in {<<NULL, 0>>} : b = m_buffer'} \cup {k \in {<<NULL, 1>>} : b = tmp'}
                      \cup UNION {Slots(zz) : zz \in Zone}
    BY DEF Holders
<1>2. h \in UNION {Slots(zz) : zz \in Zone} <=> \E zz \in Zone : h \in Slots(zz)
    <2> HIDE DEF Slots
    <2> QED
        OBVIOUS
<1>3. \A zz \in Zone : h \in Slots(zz) <=>
          \E i \in DOMAIN fins'[zz] : h = <<zz, i>> /\ fins'[zz][i] = b
    OBVIOUS
<1> HIDE DEF Slots
<1> QED
    BY <1>1, <1>2, <1>3 DEF Slot

LEMMA SlotIsZone ==
    ASSUME NEW b, NEW h, Slot(b, h) PROVE h # <<NULL, 0>> /\ h # <<NULL, 1>>
BY CppUnpackerConstants DEF Slot

\* flush_zone has pushed a finalizer for the block and not counted it yet.
Counting(b) == pc = "incr" /\ b = m_buffer
Ahead(b) == IF Counting(b) THEN 1 ELSE 0

LEMMA CountNow ==
    ASSUME IInv, NEW b \in Buf
    PROVE  /\ IsFiniteSet(Holders(b)) /\ Cardinality(Holders(b)) = count[b] + Ahead(b)
           /\ Allocated(b) <=> count[b] > 0
           /\ count[b] \in Nat /\ alloc[b] \in Nat
BY SizeIs DEF IInv, CountInv, CountExact, Ahead, Counting, TypeOK

LEMMA CountNext ==
    ASSUME \A b \in Buf : /\ IsFiniteSet(Holders(b)')
                          /\ Cardinality(Holders(b)') = count'[b] + Ahead(b)'
                          /\ Allocated(b)' <=> count'[b] > 0
    PROVE  CountInv'
BY DEF CountInv, CountExact, Ahead, Counting

LEMMA OneHolder ==
    ASSUME NEW x PROVE IsFiniteSet({x}) /\ Cardinality({x}) = 1
BY FS_Singleton

LEMMA TwoHolders ==
    ASSUME NEW x, NEW y, x # y PROVE IsFiniteSet({x, y}) /\ Cardinality({x, y}) = 2
<1>1. {x, y} = {x} \cup {y} /\ y \notin {x}
    OBVIOUS
<1>2. IsFiniteSet({x}) /\ Cardinality({x}) = 1
    BY OneHolder
<1>3. /\ IsFiniteSet({x} \cup {y})
      /\ Cardinality({x} \cup {y}) = IF y \in {x} THEN Cardinality({x}) ELSE Cardinality({x}) + 1
    BY <1>2, FS_AddElement
<1> QED
    BY <1>1, <1>2, <1>3

\* A block has at least as many counts as any set of its holders, less the one
\* that flush_zone has still to add.
LEMMA HoldersBound ==
    ASSUME IInv, NEW b \in Buf, NEW S, S \subseteq Holders(b)
    PROVE  IsFiniteSet(S) /\ Cardinality(S) \in Nat /\ Cardinality(S) <= count[b] + Ahead(b)
<1>1. IsFiniteSet(Holders(b)) /\ count[b] + Ahead(b) = Cardinality(Holders(b))
    BY CountNow
<1>2. IsFiniteSet(S) /\ Cardinality(S) <= Cardinality(Holders(b))
    BY <1>1, FS_Subset
<1>3. Cardinality(S) \in Nat
    BY <1>2, FS_CardinalityType
<1> QED
    BY <1>1, <1>2, <1>3

\* A block with a count of one that flush_zone is not counting has one holder,
LEMMA LastHolder ==
    ASSUME IInv, NEW b \in Buf, count[b] = 1, ~Counting(b),
           NEW x \in Holders(b), NEW y \in Holders(b)
    PROVE  x = y
<1> SUFFICES ASSUME x # y PROVE FALSE
    OBVIOUS
<1>1. Cardinality({x, y}) = 2
    BY TwoHolders
<1>2. {x, y} \subseteq Holders(b)
    OBVIOUS
<1>3. Cardinality({x, y}) <= count[b] + Ahead(b)
    BY <1>2, HoldersBound
<1> QED
    BY <1>1, <1>3 DEF Ahead

\* and a block that is not allocated has none.
LEMMA HolderNone ==
    ASSUME IInv, NEW b \in Buf, ~Allocated(b), b # m_buffer
    PROVE  Holders(b) = {} /\ count[b] = 0
<1>1. count[b] = 0 /\ IsFiniteSet(Holders(b)) /\ Cardinality(Holders(b)) = count[b] + Ahead(b)
    BY CountNow
<1>2. Ahead(b) = 0
    BY DEF Ahead, Counting
<1> QED
    BY <1>1, <1>2, FS_EmptySet

LEMMA FinalizerHolds ==
    ASSUME NEW zz \in Zone, NEW i \in DOMAIN fins[zz]
    PROVE  <<zz, i>> \in Holders(fins[zz][i])
BY HoldersNow DEF Slot
-----------------------------------------------------------------------------
(* What the steps do to blocks, counters and finalizers *)

\* The types of the blocks and their counters.
HeapOK ==
    /\ alloc \in [Buf -> Size] /\ count \in [Buf -> Nat] /\ DOMAIN mem = Buf
    /\ \A b \in Buf : mem[b] \in [0 .. alloc[b] - 1 -> Stream \cup {Garbage}]

\* The types of the rest.
RestOK ==
    /\ self \in Object \cup {NULL} /\ shells \subseteq Object \ {self}
    /\ hook \in Object /\ finalizer \in [Object -> Zone \cup {NULL}]
    /\ m_buffer \in Buf \cup {NULL} /\ m_z \in Zone \cup {NULL}
    /\ m_used \in Size /\ m_free \in Size /\ m_off \in Size /\ m_parsed \in Size
    /\ req \in Size /\ nsize \in Size /\ granted \in Size
    /\ m_referenced \in BOOLEAN /\ thrown \in BOOLEAN
    /\ pc \in {"idle", "expand", "realloc", "malloc", "swap", "flush", "incr",
               "release", "deliver", "empty"}
    /\ tmp \in Buf \cup {NULL} /\ old \in Zone \cup {NULL} /\ result \in Zone \cup {NULL}
    /\ dest \in {"unpacker", "result", "app"}
    /\ owner \in [Zone -> {"none", "unpacker", "old", "result", "app"}]
    /\ fins \in [Zone -> Seq(Buf)]
    /\ refs \in [Zone -> SUBSET (Buf \X Size \X Stream)]
    /\ consumed \in Nat /\ start \in Nat

\* A step leaves the block as it is, and at most lowers its counter.
Kept(b) == /\ alloc'[b] = alloc[b] /\ mem'[b] = mem[b]
           /\ count'[b] \in Nat /\ 0 < count'[b] /\ count'[b] <= count[b]

\* The counter of the block is right when S is the set of its holders.
Counted(b, S) ==
    /\ IsFiniteSet(S)
    /\ Cardinality(S) = count'[b] + Ahead(b)
    /\ alloc'[b] > 0 <=> count'[b] > 0

LEMMA TypeIs == TypeOK <=> RestOK /\ HeapOK
BY DEF TypeOK, RestOK, HeapOK

LEMMA TypeNext == ASSUME RestOK', HeapOK' PROVE TypeOK'
BY DEF TypeOK, RestOK, HeapOK

\* Of each block some holders, D[b], let go, as many as bs[b] says; a block that
\* flush_zone is counting keeps two.
LEMMA DecrAllEffect ==
    ASSUME IInv, NEW bs, NEW D, DecrAll(bs),
           \A b \in Buf : /\ D[b] \subseteq Holders(b)
                          /\ bs[b] = Cardinality(D[b])
                          /\ Counting(b) => Cardinality(D[b]) + 2 <= Cardinality(Holders(b))
    PROVE  /\ HeapOK'
           /\ \A b \in Buf : Counted(b, Holders(b) \ D[b])
           /\ \A b \in Buf : Holders(b) \ D[b] # {} => Kept(b)
<1> DEFINE left(b) == count[b] - bs[b]
           freed == {b \in Buf : bs[b] > 0 /\ left(b) = 0}
<1>t. HeapOK /\ 0 \in Size
    BY TypeIs, SizeIs DEF IInv
<1>1. /\ count' = [b \in Buf |-> left(b)]
      /\ alloc' = [b \in Buf |-> IF b \in freed THEN 0 ELSE alloc[b]]
      /\ mem' = [b \in Buf |-> IF b \in freed THEN Nothing ELSE mem[b]]
    BY DEF DecrAll
<1>2. ASSUME NEW b \in Buf
      PROVE  /\ IsFiniteSet(Holders(b) \ D[b])
             /\ Cardinality(Holders(b) \ D[b]) = left(b) + Ahead(b)
             /\ bs[b] \in Nat /\ left(b) \in Nat
             /\ Counting(b) => left(b) > 0
             /\ count[b] \in Nat
             /\ Allocated(b) <=> count[b] > 0
    <2>1. /\ D[b] \subseteq Holders(b) /\ bs[b] = Cardinality(D[b])
          /\ Counting(b) => Cardinality(D[b]) + 2 <= Cardinality(Holders(b))
        OBVIOUS
    <2>2. /\ IsFiniteSet(Holders(b)) /\ Cardinality(Holders(b)) = count[b] + Ahead(b)
          /\ count[b] \in Nat /\ (Allocated(b) <=> count[b] > 0)
        BY CountNow
    <2>3. IsFiniteSet(D[b]) /\ Cardinality(D[b]) \in Nat
        BY <2>1, HoldersBound
    <2> DEFINE H == Holders(b)
               E == D[b]
    <2>4. H \cap E = E
        BY <2>1
    <2> HIDE DEF H, E
    <2>5. IsFiniteSet(H \ E) /\ Cardinality(H \ E) = Cardinality(H) - Cardinality(H \cap E)
        BY <2>2, FS_Difference DEF H
    <2>6. Cardinality(H \ E) \in Nat
        BY <2>5, FS_CardinalityType
    <2>7. Cardinality(H \ E) = count[b] + Ahead(b) - bs[b]
        <3>1. bs[b] = Cardinality(E) /\ Cardinality(H) = count[b] + Ahead(b)
            BY <2>1, <2>2 DEF H, E
        <3>2. Cardinality(H \cap E) = Cardinality(E)
            BY <2>4
        <3>3. Cardinality(E) \in Nat /\ count[b] \in Nat /\ Ahead(b) \in Nat
            BY <2>2, <2>3 DEF E, Ahead
        <3> QED
            BY <2>5, <3>1, <3>2, <3>3
    <2>8. CASE Counting(b)
        BY <2>1, <2>2, <2>3, <2>5, <2>7, <2>8 DEF Ahead, H, E
    <2>9. CASE ~Counting(b)
        BY <2>1, <2>2, <2>3, <2>5, <2>6, <2>7, <2>9 DEF Ahead, H, E
    <2> QED
        BY <2>8, <2>9
<1>3. ASSUME NEW b \in Buf
      PROVE  /\ count'[b] = left(b)
             /\ b \in freed => alloc'[b] = 0 /\ mem'[b] = Nothing
             /\ b \notin freed => alloc'[b] = alloc[b] /\ mem'[b] = mem[b]
    BY <1>1
<1>4. HeapOK'
    <2>1. count' \in [Buf -> Nat]
        BY <1>1, <1>2
    <2>2. alloc' \in [Buf -> Size] /\ DOMAIN mem' = Buf
        BY <1>1, <1>t DEF HeapOK
    <2>3. Nothing \in [0 .. 0 - 1 -> Stream \cup {Garbage}]
        BY DEF Nothing
    <2>4. ASSUME NEW b \in Buf PROVE mem'[b] \in [0 .. alloc'[b] - 1 -> Stream \cup {Garbage}]
        BY <1>3, <1>t, <2>3 DEF HeapOK
    <2> QED
        BY <2>1, <2>2, <2>4 DEF HeapOK
<1>5. ASSUME NEW b \in Buf PROVE Counted(b, Holders(b) \ D[b])
    <2>1. Allocated(b)' <=> count'[b] > 0
        <3>1. CASE b \in freed
            BY <1>3, <3>1 DEF Allocated
        <3>2. CASE b \notin freed
            <4>1. ~(bs[b] > 0 /\ left(b) = 0)
                BY <3>2
            <4>2. alloc'[b] = alloc[b] /\ count'[b] = left(b)
                BY <1>3, <3>2
            <4>3. /\ bs[b] \in Nat /\ count[b] \in Nat /\ left(b) = count[b] - bs[b]
                  /\ left(b) \in Nat /\ (Allocated(b) <=> count[b] > 0)
                BY <1>2
            <4> HIDE DEF freed, left
            <4>4. count[b] > 0 <=> left(b) > 0
                BY <4>1, <4>3
            <4>5. Allocated(b)' <=> Allocated(b)
                BY <4>2 DEF Allocated
            <4> QED
                BY <4>2, <4>3, <4>4, <4>5
        <3> QED
            BY <3>1, <3>2
    <2> QED
        BY <1>2, <1>3, <2>1 DEF Counted, Allocated
<1>6. ASSUME NEW b \in Buf, Holders(b) \ D[b] # {} PROVE Kept(b)
    <2>1. Cardinality(Holders(b) \ D[b]) # 0 /\ IsFiniteSet(Holders(b) \ D[b])
        <3> DEFINE S == Holders(b) \ D[b]
        <3>1. S # {} /\ IsFiniteSet(S)
            BY <1>2, <1>6
        <3> HIDE DEF S
        <3>2. Cardinality(S) # 0
            BY <3>1, FS_EmptySet
        <3> QED
            BY <3>1, <3>2 DEF S
    <2>2. left(b) > 0
        BY <1>2, <2>1 DEF Ahead
    <2>3. b \notin freed
        BY <2>2
    <2>4. left(b) \in Nat /\ left(b) <= count[b]
        <3>1. bs[b] \in Nat /\ count[b] \in Nat /\ left(b) \in Nat /\ left(b) = count[b] - bs[b]
            BY <1>2
        <3> HIDE DEF left
        <3> QED
            BY <3>1
    <2> QED
        BY <1>3, <2>2, <2>3, <2>4 DEF Kept
<1> QED
    BY <1>4, <1>5, <1>6

\* What the calls assume of the unpacker's block and zone is there.
LEMMA Live ==
    ASSUME IInv, self # NULL
    PROVE  /\ m_buffer \in Buf /\ m_buffer # NULL /\ m_z \in Zone /\ m_z # NULL
           /\ owner[m_z] = "unpacker" /\ finalizer[self] = m_z
           /\ COUNTER \in Nat /\ COUNTER > 0
           /\ m_used \in Nat /\ m_free \in Nat /\ m_off \in Nat
           /\ COUNTER <= m_off /\ m_off <= m_used
           /\ Pending \in Nat /\ m_off + Pending = m_used
           /\ m_used + m_free <= alloc[m_buffer]
           /\ alloc[m_buffer] \in Size /\ alloc[m_buffer] \in Nat
           /\ count[m_buffer] > 0
           /\ consumed \in Nat /\ received = consumed + Pending /\ received \in Nat
           /\ received <= MaxBytes
<1> USE DEF IInv
<1>1. /\ m_buffer \in Buf /\ m_buffer # NULL /\ m_z \in Zone /\ m_z # NULL /\ finalizer[self] = m_z
      /\ owner[m_z] = "unpacker"
    BY DEF LocalInv, ZoneInv, TypeOK
<1>2. /\ m_used \in Nat /\ m_free \in Nat /\ m_off \in Nat /\ consumed \in Nat
      /\ COUNTER \in Nat /\ COUNTER > 0
    BY Numbers, SizeIs
<1>3. /\ COUNTER <= m_off /\ m_off <= m_used /\ m_used + m_free <= alloc[m_buffer]
      /\ received <= MaxBytes
    BY DEF BufferInv, SpaceAccounted
<1>4. alloc[m_buffer] \in Size /\ alloc[m_buffer] \in Nat
    BY <1>1, SizeIs DEF TypeOK
<1>5. count[m_buffer] > 0
    BY <1>1, <1>2, <1>3, <1>4 DEF CountInv, Allocated
<1> QED
    BY <1>1, <1>2, <1>3, <1>4, <1>5 DEF Pending, received

\* A call in progress has an unpacker.
LEMMA Busy == ASSUME IInv, pc # "idle" PROVE self # NULL
BY DEF IInv, LocalInv

LEMMA BufferHolds == ASSUME IInv, self # NULL PROVE <<NULL, 0>> \in Holders(m_buffer)
BY Live, HoldersNow

LEMMA TmpHolds == ASSUME IInv, tmp # NULL PROVE tmp \in Buf /\ <<NULL, 1>> \in Holders(tmp)
BY HoldersNow DEF IInv, TypeOK

\* A block whose count is one, and that flush_zone is not about to count, is the
\* unpacker's alone,
LEMMA SoleOwner ==
    ASSUME IInv, self # NULL, count[m_buffer] = 1, pc # "incr", NEW zz \in Zone
    PROVE  ~HasFinalizer(zz, m_buffer)
<1> SUFFICES ASSUME NEW i \in DOMAIN fins[zz], fins[zz][i] = m_buffer PROVE FALSE
    BY DEF HasFinalizer
<1>1. <<zz, i>> \in Holders(m_buffer) /\ <<NULL, 0>> \in Holders(m_buffer) /\ m_buffer \in Buf
    BY FinalizerHolds, BufferHolds, Live
<1>2. <<NULL, 0>> = <<zz, i>>
    BY <1>1, LastHolder DEF Counting
<1> QED
    BY <1>2, CppUnpackerConstants

\* and nobody but expand_buffer knows the block it has just allocated.
LEMMA TmpUnknown ==
    ASSUME IInv, tmp # NULL, NEW zz \in Zone
    PROVE  ~HasFinalizer(zz, tmp) /\ count[tmp] = 1 /\ tmp # m_buffer /\ tmp \in Buf
<1>1. pc = "swap" /\ tmp \in Buf /\ count[tmp] = 1 /\ tmp # m_buffer
    BY DEF IInv, LocalInv
<1> SUFFICES ASSUME NEW i \in DOMAIN fins[zz], fins[zz][i] = tmp PROVE FALSE
    BY <1>1 DEF HasFinalizer
<1>2. <<zz, i>> \in Holders(tmp) /\ <<NULL, 1>> \in Holders(tmp)
    BY FinalizerHolds, TmpHolds
<1>3. <<NULL, 1>> = <<zz, i>>
    BY <1>1, <1>2, LastHolder DEF Counting
<1> QED
    BY <1>3, CppUnpackerConstants

\* One more finalizer is pushed.
LEMMA PushEffect ==
    ASSUME TypeOK, NEW zz \in Zone, NEW b \in Buf, PushFinalizer(zz, b)
    PROVE  /\ fins' \in [Zone -> Seq(Buf)]
           /\ \A y \in Zone : y # zz => fins'[y] = fins[y]
           /\ Len(fins[zz]) + 1 \notin DOMAIN fins[zz]
           /\ DOMAIN fins'[zz] = DOMAIN fins[zz] \cup {Len(fins[zz]) + 1}
           /\ \A i \in DOMAIN fins[zz] : fins'[zz][i] = fins[zz][i]
           /\ fins'[zz][Len(fins[zz]) + 1] = b
           /\ \A y \in Zone, c \in Buf : HasFinalizer(y, c) => HasFinalizer(y, c)'
           /\ HasFinalizer(zz, b)'
<1>1. /\ fins' \in [Zone -> Seq(Buf)]
      /\ \A y \in Zone : y # zz => fins'[y] = fins[y]
      /\ fins'[zz] = Append(fins[zz], b)
    BY DEF TypeOK, PushFinalizer
<1>2. fins[zz] \in Seq(Buf)
    BY DEF TypeOK
<1>3. /\ Len(fins[zz]) \in Nat
      /\ DOMAIN fins[zz] = 1 .. Len(fins[zz])
      /\ DOMAIN Append(fins[zz], b) = 1 .. Len(fins[zz]) + 1
      /\ \A i \in 1 .. Len(fins[zz]) : Append(fins[zz], b)[i] = fins[zz][i]
      /\ Append(fins[zz], b)[Len(fins[zz]) + 1] = b
    BY <1>2
<1>4. /\ Len(fins[zz]) + 1 \notin DOMAIN fins[zz]
      /\ DOMAIN fins'[zz] = DOMAIN fins[zz] \cup {Len(fins[zz]) + 1}
      /\ \A i \in DOMAIN fins[zz] : fins'[zz][i] = fins[zz][i]
      /\ fins'[zz][Len(fins[zz]) + 1] = b
    BY <1>1, <1>3
<1>5. ASSUME NEW y \in Zone, NEW c \in Buf, HasFinalizer(y, c) PROVE HasFinalizer(y, c)'
    BY <1>1, <1>4, <1>5 DEF HasFinalizer
<1>6. HasFinalizer(zz, b)'
    BY <1>4 DEF HasFinalizer
<1> QED
    BY <1>1, <1>4, <1>5, <1>6

LEMMA PushSlot ==
    ASSUME TypeOK, NEW zz \in Zone, NEW b \in Buf, PushFinalizer(zz, b), NEW c, NEW h
    PROVE  /\ Slot(c, h)' <=> Slot(c, h) \/ (c = b /\ h = <<zz, Len(fins[zz]) + 1>>)
           /\ ~Slot(c, <<zz, Len(fins[zz]) + 1>>)
<1>1. /\ \A y \in Zone : y # zz => fins'[y] = fins[y]
      /\ Len(fins[zz]) + 1 \notin DOMAIN fins[zz]
      /\ DOMAIN fins'[zz] = DOMAIN fins[zz] \cup {Len(fins[zz]) + 1}
      /\ \A i \in DOMAIN fins[zz] : fins'[zz][i] = fins[zz][i]
      /\ fins'[zz][Len(fins[zz]) + 1] = b
    BY PushEffect
<1>2. ~Slot(c, <<zz, Len(fins[zz]) + 1>>)
    BY <1>1 DEF Slot
<1>3. ASSUME Slot(c, h)'
      PROVE  Slot(c, h) \/ (c = b /\ h = <<zz, Len(fins[zz]) + 1>>)
    <2>1. PICK y \in Zone : \E i \in DOMAIN fins'[y] : h = <<y, i>> /\ fins'[y][i] = c
        BY <1>3 DEF Slot
    <2>2. CASE y # zz
        BY <1>1, <2>1, <2>2 DEF Slot
    <2>3. CASE y = zz
        BY <1>1, <2>1, <2>3 DEF Slot
    <2> QED
        BY <2>2, <2>3
<1>4. ASSUME Slot(c, h) PROVE Slot(c, h)'
    <2>1. PICK y \in Zone : \E i \in DOMAIN fins[y] : h = <<y, i>> /\ fins[y][i] = c
        BY <1>4 DEF Slot
    <2>2. CASE y # zz
        BY <1>1, <2>1, <2>2 DEF Slot
    <2>3. CASE y = zz
        BY <1>1, <2>1, <2>3 DEF Slot
    <2> QED
        BY <2>2, <2>3
<1>5. ASSUME c = b, h = <<zz, Len(fins[zz]) + 1>> PROVE Slot(c, h)'
    BY <1>1, <1>5 DEF Slot
<1> QED
    BY <1>2, <1>3, <1>4, <1>5

\* The finalizers of a zone that decrement b.
SlotsOf(zz, b) == {<<zz, i>> : i \in {j \in DOMAIN fins[zz] : fins[zz][j] = b}}

LEMMA OfCounts ==
    ASSUME TypeOK, NEW zz \in Zone, NEW b \in Buf
    PROVE  /\ SlotsOf(zz, b) \subseteq Holders(b)
           /\ Of(zz)[b] = Cardinality(SlotsOf(zz, b))
           /\ \A h : h \in SlotsOf(zz, b) <=> \E i \in DOMAIN fins[zz] : h = <<zz, i>> /\ fins[zz][i] = b
           /\ <<NULL, 0>> \notin SlotsOf(zz, b) /\ <<NULL, 1>> \notin SlotsOf(zz, b)
<1>1. \A h : h \in SlotsOf(zz, b) <=> \E i \in DOMAIN fins[zz] : h = <<zz, i>> /\ fins[zz][i] = b
    BY DEF SlotsOf
<1>2. SlotsOf(zz, b) \subseteq Holders(b)
    <2>1. ASSUME NEW h \in SlotsOf(zz, b) PROVE h \in Holders(b)
        BY <1>1, HoldersNow DEF Slot
    <2> QED
        BY <2>1
<1> DEFINE I == {i \in DOMAIN fins[zz] : fins[zz][i] = b}
           f == [i \in I |-> <<zz, i>>]
<1>3. IsFiniteSet(I)
    <2>1. Len(fins[zz]) \in Nat /\ I \subseteq 1 .. Len(fins[zz])
        BY DEF TypeOK
    <2>2. IsFiniteSet(1 .. Len(fins[zz]))
        BY <2>1, FS_Interval
    <2> QED
        BY <2>1, <2>2, FS_Subset
<1>4. f \in Bijection(I, SlotsOf(zz, b))
    <2>1. f \in [I -> SlotsOf(zz, b)] /\ \A i, j \in I : f[i] = f[j] => i = j
        BY DEF SlotsOf
    <2>2. \A h \in SlotsOf(zz, b) : \E i \in I : f[i] = h
        BY DEF SlotsOf
    <2> HIDE DEF f, I
    <2> QED
        BY <2>1, <2>2, Fun_IsBij
<1>5. Cardinality(SlotsOf(zz, b)) = Cardinality(I)
    <2>1. ExistsBijection(I, SlotsOf(zz, b))
        BY <1>4 DEF ExistsBijection
    <2> HIDE DEF I
    <2> QED
        BY <1>3, <2>1, FS_Bijection
<1>6. Of(zz)[b] = Cardinality(I)
    BY DEF Of
<1>7. <<NULL, 0>> \notin SlotsOf(zz, b) /\ <<NULL, 1>> \notin SlotsOf(zz, b)
    BY <1>1, CppUnpackerConstants
<1> QED
    BY <1>1, <1>2, <1>5, <1>6, <1>7

\* The finalizers of a zone are taken from it.
LEMMA ClearEffect ==
    ASSUME TypeOK, NEW zz \in Zone, fins' = [fins EXCEPT ![zz] = << >>]
    PROVE  /\ fins' \in [Zone -> Seq(Buf)]
           /\ fins'[zz] = << >> /\ \A y \in Zone : y # zz => fins'[y] = fins[y]
           /\ \A b \in Buf : \A h : Slot(b, h)' <=> Slot(b, h) /\ h \notin SlotsOf(zz, b)
<1>1. /\ fins' \in [Zone -> Seq(Buf)]
      /\ fins'[zz] = << >> /\ \A y \in Zone : y # zz => fins'[y] = fins[y]
    <2>1. << >> \in Seq(Buf)
        OBVIOUS
    <2> QED
        BY <2>1 DEF TypeOK
<1>2. ASSUME NEW b \in Buf, NEW h PROVE Slot(b, h)' <=> Slot(b, h) /\ h \notin SlotsOf(zz, b)
    <2>1. DOMAIN fins'[zz] = {}
        BY <1>1
    <2>2. ASSUME Slot(b, h)' PROVE Slot(b, h) /\ h \notin SlotsOf(zz, b)
        <3>1. PICK y \in Zone : \E i \in DOMAIN fins'[y] : h = <<y, i>> /\ fins'[y][i] = b
            BY <2>2 DEF Slot
        <3>2. y # zz
            BY <2>1, <3>1
        <3> QED
            BY <1>1, <3>1, <3>2, OfCounts DEF Slot
    <2>3. ASSUME Slot(b, h), h \notin SlotsOf(zz, b) PROVE Slot(b, h)'
        <3>1. PICK y \in Zone : \E i \in DOMAIN fins[y] : h = <<y, i>> /\ fins[y][i] = b
            BY <2>3 DEF Slot
        <3>2. y # zz
            BY <2>3, <3>1, OfCounts
        <3> QED
            BY <1>1, <3>1, <3>2 DEF Slot
    <2> QED
        BY <2>2, <2>3
<1> QED
    BY <1>1, <1>2

\* All finalizers of a zone run, and its objects are gone.
LEMMA EmptyEffect ==
    ASSUME IInv, NEW zz \in Zone, Empty(zz), pc = "incr" => zz # m_z
    PROVE  /\ HeapOK'
           /\ fins' \in [Zone -> Seq(Buf)] /\ refs' \in [Zone -> SUBSET (Buf \X Size \X Stream)]
           /\ fins'[zz] = << >> /\ \A y \in Zone : y # zz => fins'[y] = fins[y]
           /\ refs'[zz] = {} /\ \A y \in Zone : y # zz => refs'[y] = refs[y]
           /\ \A b \in Buf : Counted(b, Holders(b) \ SlotsOf(zz, b))
           /\ \A b \in Buf : \A h : Slot(b, h)' <=> Slot(b, h) /\ h \notin SlotsOf(zz, b)
           /\ \A y \in Zone, b \in Buf : y # zz /\ HasFinalizer(y, b) => Kept(b) /\ HasFinalizer(y, b)'
           /\ self # NULL => Kept(m_buffer)
           /\ tmp # NULL => Kept(tmp)
<1>t. TypeOK
    BY DEF IInv
<1>1. /\ DecrAll(Of(zz))
      /\ fins' = [fins EXCEPT ![zz] = << >>] /\ refs' = [refs EXCEPT ![zz] = {}]
    BY DEF Empty
<1>2. /\ fins' \in [Zone -> Seq(Buf)] /\ refs' \in [Zone -> SUBSET (Buf \X Size \X Stream)]
      /\ fins'[zz] = << >> /\ \A y \in Zone : y # zz => fins'[y] = fins[y]
      /\ refs'[zz] = {} /\ \A y \in Zone : y # zz => refs'[y] = refs[y]
    BY <1>t, <1>1, ClearEffect DEF TypeOK
<1> DEFINE D == [b \in Buf |-> SlotsOf(zz, b)]
           bs == Of(zz)
<1>3. ASSUME NEW b \in Buf
      PROVE  /\ D[b] \subseteq Holders(b) /\ bs[b] = Cardinality(D[b])
             /\ Counting(b) => Cardinality(D[b]) + 2 <= Cardinality(Holders(b))
    <2>1. D[b] = SlotsOf(zz, b)
        OBVIOUS
    <2>2. D[b] \subseteq Holders(b) /\ bs[b] = Cardinality(D[b])
        BY <1>t, <2>1, OfCounts
    <2>3. ASSUME Counting(b) PROVE Cardinality(D[b]) + 2 <= Cardinality(Holders(b))
        <3>1. self # NULL /\ b = m_buffer /\ m_z # zz /\ m_z \in Zone /\ HasFinalizer(m_z, b)
            BY <2>3, Busy, Live DEF Counting, IInv, LocalInv
        <3>2. PICK j \in DOMAIN fins[m_z] : fins[m_z][j] = b
            BY <3>1 DEF HasFinalizer
        <3> DEFINE x == <<m_z, j>>
                   y == <<NULL, 0>>
                   H == Holders(b)
                   E == D[b]
        <3>3. x \in H /\ y \in H /\ x # y
            BY <3>1, <3>2, BufferHolds, FinalizerHolds, CppUnpackerConstants
        <3>4. x \notin E /\ y \notin E
            BY <1>t, <2>1, <3>1, OfCounts
        <3>5. IsFiniteSet(H) /\ IsFiniteSet(E) /\ E \subseteq H
            BY <2>2, CountNow, HoldersBound
        <3> HIDE DEF x, y, H, E
        <3>6. IsFiniteSet({x, y}) /\ Cardinality({x, y}) = 2
            BY <3>3, TwoHolders
        <3>7. /\ IsFiniteSet(E \cup {x, y})
              /\ Cardinality(E \cup {x, y}) = Cardinality(E) + 2 - Cardinality(E \cap {x, y})
            BY <3>5, <3>6, FS_Union
        <3>8. Cardinality(E \cap {x, y}) = 0
            <4>1. E \cap {x, y} = {}
                BY <3>4
            <4> QED
                BY <4>1, FS_EmptySet
        <3>9. E \cup {x, y} \subseteq H
            BY <3>3, <3>5
        <3>10. Cardinality(E \cup {x, y}) <= Cardinality(H)
            BY <3>5, <3>9, FS_Subset
        <3>11. Cardinality(E) \in Nat /\ Cardinality(H) \in Nat
            BY <3>5, FS_CardinalityType
        <3>12. Cardinality(E) + 2 <= Cardinality(H)
            BY <3>7, <3>8, <3>10, <3>11
        <3> QED
            BY <3>12 DEF E, H
    <2> QED
        BY <2>2, <2>3
<1>4. /\ HeapOK'
      /\ \A b \in Buf : Counted(b, Holders(b) \ D[b])
      /\ \A b \in Buf : Holders(b) \ D[b] # {} => Kept(b)
    <2> HIDE DEF D, bs
    <2>1. DecrAll(bs)
        BY <1>1 DEF bs
    <2> QED
        BY <1>3, <2>1, DecrAllEffect
<1>5. \A b \in Buf : D[b] = SlotsOf(zz, b)
    OBVIOUS
<1> HIDE DEF D, bs
<1>6. \A b \in Buf : \A h : Slot(b, h)' <=> Slot(b, h) /\ h \notin SlotsOf(zz, b)
    BY <1>t, <1>1, ClearEffect
<1>7. ASSUME NEW y \in Zone, NEW b \in Buf, y # zz, HasFinalizer(y, b)
      PROVE  Kept(b) /\ HasFinalizer(y, b)'
    <2>1. PICK j \in DOMAIN fins[y] : fins[y][j] = b
        BY <1>7 DEF HasFinalizer
    <2>2. <<y, j>> \in Holders(b) /\ <<y, j>> \notin SlotsOf(zz, b)
        BY <1>t, <1>7, <2>1, FinalizerHolds, OfCounts
    <2>3. Kept(b)
        BY <1>4, <1>5, <2>2
    <2> QED
        BY <1>2, <1>7, <2>1, <2>3 DEF HasFinalizer
<1>8. ASSUME self # NULL PROVE Kept(m_buffer)
    BY <1>t, <1>4, <1>5, <1>8, Live, BufferHolds, OfCounts
<1>9. ASSUME tmp # NULL PROVE Kept(tmp)
    BY <1>t, <1>4, <1>5, <1>9, TmpHolds, OfCounts
<1> QED
    BY <1>2, <1>4, <1>5, <1>6, <1>7, <1>8, <1>9

\* One holder lets go of its block.
LEMMA OnceEffect ==
    ASSUME IInv, NEW b \in Buf, NEW x \in Holders(b), DecrAll(Once(b)), pc # "incr"
    PROVE  /\ HeapOK'
           /\ Counted(b, Holders(b) \ {x})
           /\ \A c \in Buf : c # b => /\ alloc'[c] = alloc[c] /\ mem'[c] = mem[c]
                                      /\ count'[c] = count[c]
           /\ \A zz \in Zone : HasFinalizer(zz, b) /\ x[1] = NULL => Kept(b)
<1> DEFINE D == [c \in Buf |-> IF c = b THEN {x} ELSE {}]
           bs == Once(b)
<1>1. ASSUME NEW c \in Buf
      PROVE  /\ D[c] \subseteq Holders(c) /\ bs[c] = Cardinality(D[c])
             /\ Counting(c) => Cardinality(D[c]) + 2 <= Cardinality(Holders(c))
    <2>1. IsFiniteSet({}) /\ Cardinality({}) = 0 /\ Cardinality({x}) = 1
        BY FS_EmptySet, FS_Singleton
    <2>2. CASE c = b
        <3>1. D[c] = {x} /\ bs[c] = 1
            BY <2>2 DEF Once
        <3> QED
            BY <2>1, <2>2, <3>1 DEF Counting
    <2>3. CASE c # b
        <3>1. D[c] = {} /\ bs[c] = 0
            BY <2>3 DEF Once
        <3> QED
            BY <2>1, <3>1 DEF Counting
    <2> QED
        BY <2>2, <2>3
<1>2. D[b] = {x}
    OBVIOUS
<1>3. DecrAll(bs)
    OBVIOUS
<1>4. \A c \in Buf : c # b => bs[c] = 0
    BY DEF Once
<1> HIDE DEF D, bs
<1>5. /\ HeapOK'
      /\ \A c \in Buf : Counted(c, Holders(c) \ D[c])
      /\ \A c \in Buf : Holders(c) \ D[c] # {} => Kept(c)
    BY <1>1, <1>3, DecrAllEffect
<1>6. ASSUME NEW c \in Buf, c # b
      PROVE  alloc'[c] = alloc[c] /\ mem'[c] = mem[c] /\ count'[c] = count[c]
    <2>1. bs[c] = 0 /\ count[c] \in Nat
        BY <1>4, <1>6, CountNow
    <2> QED
        BY <1>3, <2>1 DEF DecrAll
<1>7. ASSUME NEW zz \in Zone, HasFinalizer(zz, b), x[1] = NULL PROVE Kept(b)
    <2>1. PICK i \in DOMAIN fins[zz] : fins[zz][i] = b
        BY <1>7 DEF HasFinalizer
    <2>2. <<zz, i>> \in Holders(b) /\ <<zz, i>> # x
        BY <1>7, <2>1, FinalizerHolds, CppUnpackerConstants
    <2> QED
        BY <1>2, <1>5, <2>2
<1> QED
    BY <1>2, <1>5, <1>6, <1>7

\* The unpacker's zone and its block are let go at once.
LEMMA DestroyEffect ==
    ASSUME IInv, Destroy
    PROVE  /\ HeapOK'
           /\ fins' \in [Zone -> Seq(Buf)] /\ refs' \in [Zone -> SUBSET (Buf \X Size \X Stream)]
           /\ refs'[m_z] = {} /\ \A y \in Zone : y # m_z => refs'[y] = refs[y]
           /\ \A b \in Buf : Counted(b, (Holders(b) \ SlotsOf(m_z, b)) \ {<<NULL, 0>>})
           /\ \A b \in Buf : \A h : Slot(b, h)' <=> Slot(b, h) /\ h \notin SlotsOf(m_z, b)
           /\ \A y \in Zone, b \in Buf : y # m_z /\ HasFinalizer(y, b) => Kept(b) /\ HasFinalizer(y, b)'
<1>t. TypeOK
    BY DEF IInv
<1>1. /\ DecrAll(Plus(Of(m_z), Once(m_buffer))) /\ pc = "idle" /\ self # NULL
      /\ fins' = [fins EXCEPT ![m_z] = << >>] /\ refs' = [refs EXCEPT ![m_z] = {}]
      /\ m_z \in Zone /\ m_buffer \in Buf
    BY Live DEF Destroy
<1>2. /\ fins' \in [Zone -> Seq(Buf)]
      /\ \A y \in Zone : y # m_z => fins'[y] = fins[y]
      /\ \A b \in Buf : \A h : Slot(b, h)' <=> Slot(b, h) /\ h \notin SlotsOf(m_z, b)
    BY <1>t, <1>1, ClearEffect
<1>3. /\ refs' \in [Zone -> SUBSET (Buf \X Size \X Stream)]
      /\ refs'[m_z] = {} /\ \A y \in Zone : y # m_z => refs'[y] = refs[y]
    BY <1>t, <1>1 DEF TypeOK
<1> DEFINE Mine(b) == IF b = m_buffer THEN {<<NULL, 0>>} ELSE {}
           D == [b \in Buf |-> SlotsOf(m_z, b) \cup Mine(b)]
           bs == Plus(Of(m_z), Once(m_buffer))
<1>4. ASSUME NEW b \in Buf
      PROVE  /\ D[b] \subseteq Holders(b) /\ bs[b] = Cardinality(D[b])
             /\ ~Counting(b)
    <2> DEFINE E == SlotsOf(m_z, b)
    <2>1. /\ E \subseteq Holders(b) /\ Of(m_z)[b] = Cardinality(E) /\ <<NULL, 0>> \notin E
        BY <1>t, <1>1, OfCounts
    <2>2. IsFiniteSet(E) /\ Cardinality(E) \in Nat
        BY <2>1, HoldersBound
    <2>3. bs[b] = Of(m_z)[b] + Once(m_buffer)[b]
        BY DEF Plus
    <2>4. CASE b = m_buffer
        <3>1. D[b] = E \cup {<<NULL, 0>>} /\ Once(m_buffer)[b] = 1
            BY <2>4 DEF Once
        <3> HIDE DEF E, D, bs
        <3>2. Cardinality(E \cup {<<NULL, 0>>}) = Cardinality(E) + 1
            BY <2>1, <2>2, FS_AddElement
        <3>3. <<NULL, 0>> \in Holders(b)
            BY <1>1, <2>4, BufferHolds
        <3> QED
            BY <1>1, <2>1, <2>2, <2>3, <3>1, <3>2, <3>3 DEF Counting
    <2>5. CASE b # m_buffer
        <3>1. D[b] = E /\ Once(m_buffer)[b] = 0
            BY <2>5 DEF Once
        <3> HIDE DEF E, D, bs
        <3> QED
            BY <1>1, <2>1, <2>2, <2>3, <3>1 DEF Counting
    <2> QED
        BY <2>4, <2>5
<1>5. ASSUME NEW b \in Buf PROVE Holders(b) \ D[b] = (Holders(b) \ SlotsOf(m_z, b)) \ {<<NULL, 0>>}
    <2>1. b # m_buffer => <<NULL, 0>> \notin Holders(b)
        <3>1. ~Slot(b, <<NULL, 0>>) /\ <<NULL, 0>> # <<NULL, 1>>
            BY SlotIsZone
        <3> QED
            BY <3>1, HoldersNow
    <2>2. D[b] = SlotsOf(m_z, b) \cup Mine(b)
        OBVIOUS
    <2> HIDE DEF D
    <2> QED
        BY <2>1, <2>2
<1>6. \A b \in Buf : D[b] = SlotsOf(m_z, b) \cup Mine(b)
    OBVIOUS
<1> HIDE DEF D, bs
<1>7. /\ HeapOK'
      /\ \A b \in Buf : Counted(b, Holders(b) \ D[b])
      /\ \A b \in Buf : Holders(b) \ D[b] # {} => Kept(b)
    <2>1. DecrAll(bs)
        BY <1>1 DEF bs
    <2> QED
        BY <1>4, <2>1, DecrAllEffect
<1>8. ASSUME NEW y \in Zone, NEW b \in Buf, y # m_z, HasFinalizer(y, b)
      PROVE  Kept(b) /\ HasFinalizer(y, b)'
    <2>1. PICK j \in DOMAIN fins[y] : fins[y][j] = b
        BY <1>8 DEF HasFinalizer
    <2>2. <<y, j>> \in Holders(b) /\ <<y, j>> \notin SlotsOf(m_z, b) /\ <<y, j>> # <<NULL, 0>>
        BY <1>t, <1>1, <1>8, <2>1, FinalizerHolds, OfCounts, CppUnpackerConstants
    <2>3. Kept(b)
        BY <1>5, <1>7, <2>2
    <2> QED
        BY <1>2, <1>8, <2>1, <2>3 DEF HasFinalizer
<1> QED
    BY <1>2, <1>3, <1>5, <1>7, <1>8

\* What an object made of a byte that was received reads.
LEMMA ParsedByte ==
    ASSUME IInv, self # NULL, NEW i \in m_off .. m_off + Pending - 1
    PROVE  /\ i \in Nat /\ i \in Size /\ COUNTER <= i /\ i < alloc[m_buffer]
           /\ Read(<<m_buffer, i>>) = consumed + (i - m_off)
           /\ Read(<<m_buffer, i>>) \in Stream
<1>1. /\ m_off \in Nat /\ m_used \in Nat /\ m_free \in Nat /\ Pending \in Nat
      /\ m_off + Pending = m_used /\ m_used + m_free <= alloc[m_buffer]
      /\ alloc[m_buffer] \in Size /\ alloc[m_buffer] \in Nat /\ consumed \in Nat
      /\ COUNTER \in Nat /\ COUNTER <= m_off /\ consumed + Pending <= MaxBytes
    BY Live
<1>2. i \in Nat /\ i - m_off \in 0 .. Pending - 1 /\ m_off + (i - m_off) = i
      /\ i \in 0 .. alloc[m_buffer] - 1
    BY <1>1
<1>3. mem[m_buffer][m_off + (i - m_off)] = consumed + (i - m_off)
    BY <1>2 DEF IInv, BufferInv, StreamIntact
<1>4. Read(<<m_buffer, i>>) = consumed + (i - m_off)
    BY <1>2, <1>3 DEF Read
<1>5. consumed + (i - m_off) \in Stream
    BY <1>1, <1>2, CppUnpackerConstants DEF Stream
<1> QED
    BY <1>1, <1>2, <1>4, <1>5, SizeIs
-----------------------------------------------------------------------------
(* The initial states *)

LEMMA InitInv == Init => IInv
<1> SUFFICES ASSUME Init PROVE IInv
    OBVIOUS
<1> USE CppUnpackerConstants
<1>1. PICK o \in Object, b \in Buf, zz \in Zone :
          /\ self = o /\ hook = o
          /\ finalizer = [x \in Object |-> IF x = o THEN zz ELSE NULL]
          /\ m_buffer = b /\ m_z = zz
          /\ alloc = [c \in Buf |-> IF c = b THEN INITIAL ELSE 0]
          /\ count = [c \in Buf |-> IF c = b THEN 1 ELSE 0]
          /\ mem = [c \in Buf |-> [i \in 0 .. (IF c = b THEN INITIAL ELSE 0) - 1 |-> Garbage]]
          /\ owner = [x \in Zone |-> IF x = zz THEN "unpacker" ELSE "none"]
    BY DEF Init
<1>n. 0 \in Size /\ INITIAL \in Size /\ COUNTER \in Size /\ INITIAL - COUNTER \in Size
      /\ INITIAL \in Nat /\ COUNTER \in Nat /\ INITIAL > 0
    BY DEF Size
<1>2. TypeOK
    <2>1. << >> \in Seq(Buf)
        OBVIOUS
    <2>2. \A c \in Buf : mem[c] \in [0 .. alloc[c] - 1 -> Stream \cup {Garbage}]
        BY <1>1
    <2>3. alloc \in [Buf -> Size] /\ count \in [Buf -> Nat] /\ DOMAIN mem = Buf
        BY <1>1, <1>n
    <2>4. /\ owner \in [Zone -> {"none", "unpacker", "old", "result", "app"}]
          /\ fins \in [Zone -> Seq(Buf)]
          /\ refs \in [Zone -> SUBSET (Buf \X Size \X Stream)]
          /\ finalizer \in [Object -> Zone \cup {NULL}]
        BY <1>1, <2>1 DEF Init
    <2>5. HeapOK
        BY <2>2, <2>3 DEF HeapOK
    <2>6. RestOK
        BY <1>1, <1>n, <2>4 DEF Init, RestOK
    <2> QED
        BY <2>5, <2>6, TypeIs
<1>3. \A c \in Buf : Holders(c) = IF c = b THEN {<<NULL, 0>>} ELSE {}
    <2>1. \A c, h : ~Slot(c, h)
        BY DEF Init, Slot
    <2>2. tmp \notin Buf
        BY DEF Init
    <2> QED
        BY <1>1, <2>1, <2>2, HoldersNow
<1>4. CountInv
    <2>1. pc # "incr"
        BY DEF Init
    <2>2. \A c \in Buf : /\ IsFiniteSet(Holders(c))
                        /\ Cardinality(Holders(c)) = count[c]
        <3>1. ASSUME NEW c \in Buf, c = b
              PROVE  IsFiniteSet(Holders(c)) /\ Cardinality(Holders(c)) = count[c]
            <4>1. Holders(c) = {<<NULL, 0>>} /\ count[c] = 1
                BY <1>1, <1>3, <3>1
            <4>2. IsFiniteSet({<<NULL, 0>>}) /\ Cardinality({<<NULL, 0>>}) = 1
                BY FS_Singleton
            <4> QED
                BY <4>1, <4>2
        <3>2. ASSUME NEW c \in Buf, c # b
              PROVE  IsFiniteSet(Holders(c)) /\ Cardinality(Holders(c)) = count[c]
            <4>1. Holders(c) = {} /\ count[c] = 0
                BY <1>1, <1>3, <3>2
            <4> QED
                BY <4>1, FS_EmptySet
        <3> QED
            BY <3>1, <3>2
    <2>3. \A c \in Buf : Allocated(c) <=> count[c] > 0
        BY <1>1, <1>n DEF Allocated
    <2> QED
        BY <1>1, <2>1, <2>2, <2>3 DEF CountInv, CountExact
<1>5. LocalInv
    BY <1>1 DEF Init, LocalInv, Expanding
<1>6. ZoneInv
    BY <1>1 DEF Init, ZoneInv
<1>7. BufferInv
    BY <1>1, <1>n DEF Init, BufferInv, SpaceAccounted, StreamIntact, SizeExact, Pending, received
<1>8. RefInv /\ ReserveKept
    BY <1>n DEF Init, RefInv, ReserveKept, Size
<1> QED
    BY <1>2, <1>4, <1>5, <1>6, <1>7, <1>8 DEF IInv
-----------------------------------------------------------------------------
(* Types *)

LEMMA TypeStep == IInv /\ [Next]_vars => TypeOK'
<1> SUFFICES ASSUME IInv, [Next]_vars PROVE TypeOK'
    OBVIOUS
<1> USE CppUnpackerConstants
<1>t. TypeOK /\ RestOK /\ HeapOK
    BY TypeIs DEF IInv
<1>n. /\ m_used \in Nat /\ m_free \in Nat /\ m_off \in Nat /\ m_parsed \in Nat
      /\ req \in Nat /\ nsize \in Nat /\ granted \in Nat
      /\ consumed \in Nat /\ start \in Nat /\ 0 \in Size /\ COUNTER \in Size /\ COUNTER \in Nat
    BY <1>t, Numbers, SizeIs
<1> USE DEF place, buffer, past, expand, heap, zones, next
\* A step that leaves the blocks and the zones alone.
<1>u. ASSUME UNCHANGED <<heap, zones>>,
             self' \in Object \cup {NULL} /\ shells' \subseteq Object \ {self'} /\ hook' = hook,
             finalizer' \in [Object -> Zone \cup {NULL}],
             UNCHANGED <<m_buffer, m_z, old, result>>,
             {m_used', m_free', m_off', m_parsed', req', nsize', granted'} \subseteq Size,
             m_referenced' \in BOOLEAN /\ thrown' \in BOOLEAN,
             pc' \in {"idle", "expand", "realloc", "malloc", "swap", "flush", "incr",
                      "release", "deliver", "empty"},
             tmp' \in {tmp, NULL}, dest' \in {"unpacker", "result", "app"},
             consumed' \in Nat /\ start' \in Nat
      PROVE  TypeOK'
    BY <1>u, <1>t DEF TypeOK
<1>1. ASSUME NEW n \in Request, Reserve(n) PROVE TypeOK'
    <2>1. n \in Size
        OBVIOUS
    <2> QED
        BY <1>1, <1>t, <1>n, <2>1, SMTT(30) DEF Reserve, TypeOK
<1>2. CASE Expand
    <2>1. /\ self # NULL /\ m_used + req \in Size
          /\ COUNTER <= m_off /\ m_off <= m_used /\ m_used + m_free <= alloc[m_buffer]
          /\ alloc[m_buffer] \in Size /\ Pending \in Nat /\ m_off + Pending = m_used
        BY <1>2, Busy, Live DEF Expand, IInv, LocalInv, Expanding
    <2>2. /\ m_used' \in Nat /\ m_free' \in Nat /\ m_off' \in Nat
          /\ m_used' <= m_used /\ m_off' <= m_off
          /\ m_used' + m_free' = m_used + m_free /\ m_free' <= m_used + m_free
        BY <1>2, <1>n, <2>1 DEF Expand
    <2>3. m_used' \in Size /\ m_free' \in Size /\ m_off' \in Size
        <3>1. alloc[m_buffer] \in Nat /\ alloc[m_buffer] < Word /\ m_used < Word /\ m_off < Word
            BY <1>t, <2>1, SizeIs, Numbers
        <3>2. m_used' < Word /\ m_free' < Word /\ m_off' < Word
            BY <1>n, <2>1, <2>2, <3>1, SizeIs
        <3> QED
            BY <2>2, <3>2, SizeIs
    <2>4. nsize' \in Size
        <3>1. CASE CanRewind /\ m_free' >= req
            BY <1>2, <1>n, <3>1 DEF Expand, Return
        <3>2. CASE ~(CanRewind /\ m_free' >= req) /\ m_off' = COUNTER
            <4>1. nsize' = Doubled((m_used' + m_free') * 2, Wrap(req + m_used'))
                BY <1>2, <3>2 DEF Expand
            <4>2. (m_used' + m_free') * 2 \in Int /\ Wrap(req + m_used') \in Size
                BY <1>n, <2>2, WrapInSize
            <4> QED
                BY <4>1, <4>2, DoubledEnough
        <3>3. CASE ~(CanRewind /\ m_free' >= req) /\ m_off' # COUNTER
            <4>1. nsize' = Doubled(INITIAL, Wrap(req + Pending + COUNTER))
                BY <1>2, <3>3 DEF Expand
            <4>2. INITIAL \in Int /\ Wrap(req + Pending + COUNTER) \in Size
                BY <1>n, <2>1, WrapInSize, SizeIs
            <4> QED
                BY <4>1, <4>2, DoubledEnough
        <3> QED
            BY <3>1, <3>2, <3>3
    <2>5. /\ granted' \in Size /\ req' \in Size /\ tmp' \in {tmp, NULL}
          /\ pc' \in {"idle", "realloc", "malloc"}
        BY <1>2, <1>t, <1>n DEF Expand, Return, TypeOK
    <2>6. UNCHANGED <<place, m_buffer, m_parsed, m_z, m_referenced, next, thrown, heap, zones, past>>
        BY <1>2 DEF Expand
    <2> QED
        BY <1>t, <2>3, <2>4, <2>5, <2>6 DEF TypeOK
<1>3. ASSUME NEW b \in Buf, Realloc(b) PROVE TypeOK'
    <2>1. m_buffer \in Buf /\ nsize \in Size
        BY <1>3, <1>t, Busy, Live DEF Realloc, TypeOK
    <2> DEFINE w == [i \in 0 .. nsize - 1 |-> IF i < alloc[m_buffer] THEN mem[m_buffer][i] ELSE Garbage]
    <2>2. /\ alloc' = [alloc EXCEPT ![m_buffer] = 0, ![b] = nsize]
          /\ count' = [count EXCEPT ![m_buffer] = 0, ![b] = count[m_buffer]]
          /\ mem' = [mem EXCEPT ![m_buffer] = Nothing, ![b] = w]
        BY <1>3 DEF Realloc, Bytes
    <2>3. w \in [0 .. nsize - 1 -> Stream \cup {Garbage}]
        <3>1. ASSUME NEW i \in 0 .. nsize - 1, i < alloc[m_buffer]
              PROVE  mem[m_buffer][i] \in Stream \cup {Garbage}
            <4>1. mem[m_buffer] \in [0 .. alloc[m_buffer] - 1 -> Stream \cup {Garbage}]
                  /\ alloc[m_buffer] \in Nat
                BY <1>t, <2>1, SizeIs DEF HeapOK
            <4>2. i \in 0 .. alloc[m_buffer] - 1
                BY <1>n, <3>1, <4>1
            <4> QED
                BY <4>1, <4>2
        <3> QED
            BY <3>1
    <2>4. Nothing \in [0 .. 0 - 1 -> Stream \cup {Garbage}]
        BY DEF Nothing
    <2> HIDE DEF w
    <2>5. HeapOK'
        <3>1. alloc' \in [Buf -> Size] /\ count' \in [Buf -> Nat] /\ DOMAIN mem' = Buf
            BY <1>t, <1>n, <2>1, <2>2 DEF HeapOK
        <3>2. ASSUME NEW c \in Buf PROVE mem'[c] \in [0 .. alloc'[c] - 1 -> Stream \cup {Garbage}]
            BY <1>t, <2>1, <2>2, <2>3, <2>4 DEF HeapOK
        <3> QED
            BY <3>1, <3>2 DEF HeapOK
    <2>6. m_free' \in Size
        BY <1>3, <1>n, WrapInSize DEF Realloc
    <2>7. b \in Buf /\ nsize' = 0 /\ pc' = "idle" /\ tmp' = NULL /\ req' = 0
        BY <1>3 DEF Realloc, Return
    <2>8. RestOK'
        BY <1>3, <1>t, <1>n, <2>6, <2>7 DEF Realloc, RestOK
    <2> QED
        BY <2>5, <2>8, TypeNext
<1>4. ASSUME NEW b \in Buf, Malloc(b) PROVE TypeOK'
    <2>0. /\ self # NULL /\ m_buffer \in Buf /\ Pending \in Nat /\ m_off + Pending = m_used
          /\ alloc[m_buffer] \in Nat /\ m_used + m_free <= alloc[m_buffer]
        BY <1>4, Busy, Live DEF Malloc
    <2>1. /\ m_buffer \in Buf /\ nsize \in Size /\ Pending \in Nat /\ m_off + Pending = m_used
          /\ alloc[m_buffer] \in Nat /\ m_used <= alloc[m_buffer]
          /\ mem[m_buffer] \in [0 .. alloc[m_buffer] - 1 -> Stream \cup {Garbage}]
        <3>1. m_used <= alloc[m_buffer] /\ nsize \in Size
            BY <1>t, <1>n, <2>0 DEF RestOK
        <3>2. mem[m_buffer] \in [0 .. alloc[m_buffer] - 1 -> Stream \cup {Garbage}]
            BY <1>t, <2>0 DEF HeapOK
        <3> QED
            BY <2>0, <3>1, <3>2
    <2> DEFINE w == [i \in 0 .. nsize - 1 |->
                       IF i \in COUNTER .. COUNTER + Pending - 1
                       THEN mem[m_buffer][m_off + i - COUNTER] ELSE Garbage]
    <2>2. /\ alloc' = [alloc EXCEPT ![b] = nsize]
          /\ count' = [count EXCEPT ![b] = 1]
          /\ mem' = [mem EXCEPT ![b] = w]
        BY <1>4 DEF Malloc, Bytes
    <2>3. w \in [0 .. nsize - 1 -> Stream \cup {Garbage}]
        <3>1. ASSUME NEW i \in COUNTER .. COUNTER + Pending - 1
              PROVE  mem[m_buffer][m_off + i - COUNTER] \in Stream \cup {Garbage}
            <4>1. Pending \in Nat /\ m_off + Pending = m_used /\ m_used <= alloc[m_buffer]
                  /\ alloc[m_buffer] \in Nat
                BY <2>1
            <4>2. m_off + i - COUNTER \in Nat /\ m_off + i - COUNTER < m_used
                BY <1>n, <4>1
            <4>3. m_off + i - COUNTER \in 0 .. alloc[m_buffer] - 1
                BY <1>n, <4>1, <4>2
            <4> QED
                BY <2>1, <4>3
        <3> QED
            BY <3>1
    <2> HIDE DEF w
    <2>4. HeapOK'
        BY <1>t, <2>1, <2>2, <2>3 DEF HeapOK
    <2>5. RestOK'
        BY <1>4, <1>t DEF Malloc, RestOK
    <2> QED
        BY <2>4, <2>5, TypeNext
<1>5. CASE OutOfMemory
    BY <1>5, <1>t, <1>n, ZenonT(60) DEF OutOfMemory, Return, TypeOK
<1>6. CASE Swap
    <2>1. /\ pc = "swap" /\ self # NULL /\ Pending \in Nat /\ m_off + Pending = m_used
          /\ COUNTER <= m_off /\ m_z \in Zone /\ m_buffer \in Buf /\ tmp \in Buf
          /\ finalizer[hook] = m_z
        BY <1>6, Busy, Live DEF Swap, IInv, LocalInv, Expanding
    <2>2. Pending + COUNTER \in Size /\ Wrap(nsize - (Pending + COUNTER)) \in Size
        <3>1. Pending + COUNTER \in Nat /\ Pending + COUNTER <= m_used
            BY <1>n, <2>1
        <3>2. m_used < Word /\ nsize - (Pending + COUNTER) \in Int
            BY <1>t, <1>n, <3>1, Numbers
        <3>3. Wrap(nsize - (Pending + COUNTER)) \in Size
            BY <3>2, WrapInSize
        <3>4. Pending + COUNTER < Word
            BY <1>n, <3>1, <3>2, SizeIs
        <3> QED
            BY <3>1, <3>3, <3>4, SizeIs
    <2>3. HeapOK' /\ fins' \in [Zone -> Seq(Buf)]
        <3>1. CASE m_referenced
            <4>1. PushFinalizer(m_z, m_buffer) /\ UNCHANGED heap
                BY <1>6, <2>1, <3>1 DEF Swap
            <4> QED
                BY <1>t, <2>1, <4>1, PushEffect DEF HeapOK
        <3>2. CASE ~m_referenced
            <4>1. DecrAll(Once(m_buffer)) /\ UNCHANGED fins
                BY <1>6, <3>2 DEF Swap
            <4>2. HeapOK'
                BY <2>1, <4>1, BufferHolds, OnceEffect
            <4> QED
                BY <1>t, <4>1, <4>2 DEF TypeOK
        <3> QED
            BY <3>1, <3>2
    <2>4. RestOK'
        BY <1>6, <1>t, <1>n, <2>1, <2>2, <2>3 DEF Swap, Return, RestOK
    <2> QED
        BY <2>3, <2>4, TypeNext
<1>7. CASE SwapThrows
    <2>1. tmp \in Buf /\ tmp # NULL /\ pc # "incr" /\ DecrAll(Once(tmp))
        BY <1>7 DEF SwapThrows, IInv, LocalInv
    <2>2. HeapOK'
        BY <2>1, TmpHolds, OnceEffect
    <2>3. RestOK'
        BY <1>7, <1>t, <1>n DEF SwapThrows, Return, RestOK
    <2> QED
        BY <2>2, <2>3, TypeNext
<1>8. ASSUME NEW n \in 1 .. MaxBytes, Feed(n) PROVE TypeOK'
    <2>1. /\ m_buffer \in Buf /\ m_used + m_free <= alloc[m_buffer] /\ alloc[m_buffer] \in Size
          /\ received \in Nat /\ n <= m_free /\ received + n <= MaxBytes
          /\ alloc[m_buffer] \in Nat
        BY <1>8, Live DEF Feed
    <2>2. m_used + n \in Size /\ m_free - n \in Size
        BY <1>n, <2>1, SizeIs
    <2> DEFINE w == [i \in DOMAIN mem[m_buffer] |->
                       IF i \in m_used .. m_used + n - 1 THEN received + i - m_used
                                                         ELSE mem[m_buffer][i]]
    <2>3. w \in [0 .. alloc[m_buffer] - 1 -> Stream \cup {Garbage}]
        <3>1. ASSUME NEW i \in m_used .. m_used + n - 1 PROVE received + i - m_used \in Stream
            BY <1>n, <2>1 DEF Stream
        <3>2. mem[m_buffer] \in [0 .. alloc[m_buffer] - 1 -> Stream \cup {Garbage}]
            BY <1>t, <2>1 DEF HeapOK
        <3> QED
            BY <3>1, <3>2
    <2>4. mem' = [mem EXCEPT ![m_buffer] = w] /\ UNCHANGED <<alloc, count>>
        BY <1>8 DEF Feed
    <2> HIDE DEF w
    <2>5. HeapOK'
        BY <1>t, <2>1, <2>3, <2>4 DEF HeapOK
    <2>6. RestOK'
        BY <1>8, <1>t, <1>n, <2>2, ZenonT(60) DEF Feed, RestOK
    <2> QED
        BY <2>5, <2>6, TypeNext
<1>9. ASSUME NEW n \in 1 .. MaxBytes, Skip(n) PROVE TypeOK'
    <2>1. m_off + n \in Size
        <3>1. m_off + Pending = m_used /\ Pending \in Nat /\ n <= Pending /\ m_used < Word
            BY <1>9, <1>t, Numbers, Live DEF Skip
        <3> QED
            BY <1>n, <3>1, SizeIs
    <2>2. consumed + n \in Nat /\ start + n \in Nat
        BY <1>n
    <2> QED
        BY <1>9, <1>t, <2>1, <2>2 DEF Skip, TypeOK
<1>10. CASE Remove
    <2>1. consumed + Pending \in Nat /\ start + Pending \in Nat
        BY <1>10, <1>n, Live DEF Remove
    <2> QED
        BY <1>10, <1>t, <2>1, SMTT(30) DEF Remove, TypeOK
\* The objects of n bytes read.
<1>o. ASSUME self # NULL, NEW n \in Nat, n <= Pending, Objects(n)
      PROVE  m_referenced' \in BOOLEAN /\ refs' \in [Zone -> SUBSET (Buf \X Size \X Stream)]
    <2>1. CASE UNCHANGED <<m_referenced, refs>>
        BY <1>t, <2>1 DEF TypeOK
    <2>2. ASSUME NEW i \in m_off .. m_off + n - 1, m_referenced' = TRUE,
                 refs' = [refs EXCEPT ![m_z] = @ \cup {<<m_buffer, i, Read(<<m_buffer, i>>)>>}]
          PROVE  m_referenced' \in BOOLEAN /\ refs' \in [Zone -> SUBSET (Buf \X Size \X Stream)]
        <3>1. m_buffer \in Buf /\ i \in m_off .. m_off + Pending - 1
            BY <1>n, <1>o, Live
        <3>2. i \in Size /\ Read(<<m_buffer, i>>) \in Stream
            BY <1>o, <3>1, ParsedByte
        <3> DEFINE r == <<m_buffer, i, Read(<<m_buffer, i>>)>>
        <3>3. r \in Buf \X Size \X Stream
            BY <3>1, <3>2
        <3> HIDE DEF r
        <3>4. refs' = [refs EXCEPT ![m_z] = @ \cup {r}]
            BY <2>2 DEF r
        <3>5. m_z \in Zone /\ refs \in [Zone -> SUBSET (Buf \X Size \X Stream)]
            BY <1>o, <1>t, Live DEF RestOK
        <3> DEFINE T == Buf \X Size \X Stream
        <3> HIDE DEF T
        <3>6. refs' \in [Zone -> SUBSET T]
            BY <3>3, <3>4, <3>5 DEF T
        <3> QED
            BY <2>2, <3>6 DEF T
    <2> QED
        BY <1>o, <2>1, <2>2 DEF Objects
<1>p. ASSUME self # NULL, NEW n \in Nat, n <= Pending
      PROVE  m_off + n \in Size /\ consumed + n \in Nat
    <2>1. m_off + Pending = m_used /\ Pending \in Nat /\ m_used < Word
        BY <1>p, <1>t, Numbers, Live
    <2> QED
        BY <1>n, <1>p, <2>1, SizeIs
<1>11. ASSUME NEW n \in 0 .. MaxBytes, NEW c \in BOOLEAN, Next_Parse(n, c) PROVE TypeOK'
    <2>1. n \in Nat /\ n <= Pending /\ self # NULL /\ Objects(n) /\ m_parsed + n \in Size
        BY <1>11 DEF Next_Parse
    <2>2. /\ m_referenced' \in BOOLEAN /\ refs' \in [Zone -> SUBSET (Buf \X Size \X Stream)]
          /\ m_off + n \in Size /\ consumed + n \in Nat
        BY <1>o, <1>p, <2>1
    <2>3. /\ pc' \in {"flush", "empty"} /\ dest' \in {"result", "unpacker"}
          /\ m_off' = m_off + n /\ m_parsed' = m_parsed + n /\ consumed' = consumed + n
          /\ granted' = 0
          /\ UNCHANGED <<place, m_buffer, m_used, m_free, m_z, req, nsize, tmp, old, thrown,
                         result, heap, owner, fins, start>>
        BY <1>11 DEF Next_Parse
    <2>4. HeapOK'
        BY <1>t, <2>3 DEF HeapOK
    <2>5. RestOK'
        BY <1>t, <1>n, <2>1, <2>2, <2>3 DEF RestOK
    <2> QED
        BY <2>4, <2>5, TypeNext
<1>12. ASSUME NEW n \in 0 .. MaxBytes, NEW e \in BOOLEAN, Next_Throws(n, e) PROVE TypeOK'
    <2>1. n \in Nat /\ n <= Pending /\ self # NULL
        BY <1>12 DEF Next_Throws
    <2>2. /\ m_referenced' \in BOOLEAN /\ refs' \in [Zone -> SUBSET (Buf \X Size \X Stream)]
          /\ m_off' \in Size /\ consumed' \in Nat
        <3>1. CASE e
            BY <1>12, <1>o, <1>p, <2>1, <3>1 DEF Next_Throws
        <3>2. CASE ~e
            BY <1>12, <1>t, <3>2 DEF Next_Throws, TypeOK
        <3> QED
            BY <3>1, <3>2
    <2> QED
        BY <1>12, <1>t, <1>n, <2>2, ZenonT(60) DEF Next_Throws, TypeOK
<1>13. ASSUME NEW d \in {"unpacker", "app"}, Flush(d) PROVE TypeOK'
    BY <1>13, <1>t DEF Flush, TypeOK
<1>14. CASE Flush_Unreferenced
    BY <1>14, <1>t DEF Flush_Unreferenced, AfterFlush, TypeOK
<1>15. CASE Flush_Push
    <2>1. fins' \in [Zone -> Seq(Buf)]
        BY <1>15, <1>t, Busy, Live, PushEffect DEF Flush_Push
    <2> QED
        BY <1>15, <1>t, <2>1 DEF Flush_Push, TypeOK
<1>16. CASE Flush_Incr
    <2>1. m_buffer \in Buf
        BY <1>16, Busy, Live DEF Flush_Incr
    <2>2. count' \in [Buf -> Nat]
        BY <1>16, <1>t, <2>1 DEF Flush_Incr, TypeOK
    <2> QED
        BY <1>16, <1>t, <2>2 DEF Flush_Incr, AfterFlush, TypeOK
<1>17. CASE Flush_Fails
    BY <1>17, <1>t DEF Flush_Fails, TypeOK
<1>18. ASSUME NEW zz \in Zone, Release(zz) PROVE TypeOK'
    <2>1. m_z \in Zone /\ self \in Object
        BY <1>18, <1>t, Busy, Live DEF Release, TypeOK
    <2>2. /\ finalizer' \in [Object -> Zone \cup {NULL}]
          /\ owner' \in [Zone -> {"none", "unpacker", "old", "result", "app"}]
        BY <1>18, <1>t, <2>1 DEF Release, TypeOK
    <2> QED
        BY <1>18, <1>t, <2>1, <2>2 DEF Release, TypeOK
<1>19. CASE Release_Throws
    BY <1>19, <1>t DEF Release_Throws, TypeOK
\* The zone of the result is replaced.
<1>r. ASSUME SetResult, pc # "incr"
      PROVE  /\ HeapOK' /\ fins' \in [Zone -> Seq(Buf)]
             /\ refs' \in [Zone -> SUBSET (Buf \X Size \X Stream)]
             /\ owner' \in [Zone -> {"none", "unpacker", "old", "result", "app"}]
             /\ result' \in Zone \cup {NULL} /\ old' \in Zone \cup {NULL}
    <2>1. owner' \in [Zone -> {"none", "unpacker", "old", "result", "app"}]
        BY <1>r, <1>t DEF SetResult, TypeOK
    <2>2. result' \in Zone \cup {NULL} /\ old' \in Zone \cup {NULL}
        BY <1>r, <1>t DEF SetResult, TypeOK
    <2>3. CASE result = NULL
        BY <1>r, <1>t, <2>1, <2>2, <2>3 DEF SetResult, TypeOK, HeapOK
    <2>4. CASE result # NULL
        <3>1. Empty(result) /\ result \in Zone
            BY <1>r, <1>t, <2>4 DEF SetResult, TypeOK
        <3> QED
            BY <1>r, <2>1, <2>2, <3>1, EmptyEffect
    <2> QED
        BY <2>3, <2>4
<1>20. CASE Deliver \/ Deliver_Nothing
    <2>1. /\ SetResult /\ pc # "incr" /\ pc' = "idle"
          /\ m_parsed' \in {0, m_parsed} /\ start' \in {start, consumed}
          /\ UNCHANGED <<place, buffer, m_z, m_referenced, expand, dest, thrown, consumed>>
        BY <1>20 DEF Deliver, Deliver_Nothing
    <2>2. /\ HeapOK' /\ fins' \in [Zone -> Seq(Buf)]
          /\ refs' \in [Zone -> SUBSET (Buf \X Size \X Stream)]
          /\ owner' \in [Zone -> {"none", "unpacker", "old", "result", "app"}]
          /\ result' \in Zone \cup {NULL} /\ old' \in Zone \cup {NULL}
        BY <1>r, <2>1
    <2>3. RestOK'
        BY <1>t, <1>n, <2>1, <2>2, ZenonT(60) DEF RestOK
    <2> QED
        BY <2>2, <2>3, TypeNext
<1>21. CASE Reset
    BY <1>21, <1>t, <1>n, ZenonT(60) DEF Reset, TypeOK
<1>22. CASE ResetZone
    <2>1. m_z \in Zone /\ Empty(m_z) /\ pc = "idle"
        BY <1>22, Live DEF ResetZone
    <2>2. /\ HeapOK' /\ fins' \in [Zone -> Seq(Buf)]
          /\ refs' \in [Zone -> SUBSET (Buf \X Size \X Stream)]
        BY <2>1, EmptyEffect
    <2>3. RestOK'
        BY <1>22, <1>t, <2>2 DEF ResetZone, RestOK
    <2> QED
        BY <2>2, <2>3, TypeNext
<1>23. CASE Result_Take
    <2>1. result \in Zone
        BY <1>23, <1>t DEF Result_Take, TypeOK
    <2> QED
        BY <1>23, <1>t, <2>1 DEF Result_Take, TypeOK
<1>24. CASE Result_Drop
    <2>1. result \in Zone /\ Empty(result) /\ pc = "idle"
        BY <1>24, <1>t DEF Result_Drop, TypeOK
    <2>2. /\ HeapOK' /\ fins' \in [Zone -> Seq(Buf)]
          /\ refs' \in [Zone -> SUBSET (Buf \X Size \X Stream)]
        BY <2>1, EmptyEffect
    <2>3. RestOK'
        BY <1>24, <1>t, <2>1, <2>2 DEF Result_Drop, RestOK
    <2> QED
        BY <2>2, <2>3, TypeNext
<1>25. ASSUME NEW zz \in Zone, App_FreeZone(zz) PROVE TypeOK'
    <2>1. Empty(zz) /\ (pc = "incr" => zz # m_z)
        BY <1>25, Busy, Live DEF App_FreeZone
    <2>2. /\ HeapOK' /\ fins' \in [Zone -> Seq(Buf)]
          /\ refs' \in [Zone -> SUBSET (Buf \X Size \X Stream)]
        BY <2>1, EmptyEffect
    <2>3. RestOK'
        BY <1>25, <1>t, <2>2 DEF App_FreeZone, RestOK
    <2> QED
        BY <2>2, <2>3, TypeNext
<1>26. ASSUME NEW o \in Object, Move(o) PROVE TypeOK'
    <2>1. self \in Object /\ shells \subseteq Object
        BY <1>26, <1>t DEF Move, TypeOK
    <2>2. finalizer' \in [Object -> Zone \cup {NULL}]
        BY <1>26, <1>t, <2>1 DEF Move, TypeOK
    <2>3. self' \in Object /\ shells' \subseteq Object \ {self'}
        BY <1>26, <2>1 DEF Move
    <2> QED
        BY <1>26, <1>t, <2>2, <2>3 DEF Move, TypeOK
<1>27. ASSUME NEW o \in Object, DestroyShell(o) PROVE TypeOK'
    BY <1>27, <1>t DEF DestroyShell, TypeOK
<1>28. CASE Destroy
    <2>1. self \in Object /\ m_z \in Zone
        BY <1>28, <1>t, Live DEF Destroy, TypeOK
    <2>2. /\ HeapOK' /\ fins' \in [Zone -> Seq(Buf)]
          /\ refs' \in [Zone -> SUBSET (Buf \X Size \X Stream)]
        BY <1>28, DestroyEffect
    <2>3. RestOK'
        BY <1>28, <1>t, <1>n, <2>1, <2>2 DEF Destroy, RestOK
    <2> QED
        BY <2>2, <2>3, TypeNext
<1>29. CASE UNCHANGED vars
    BY <1>29, <1>t DEF vars, TypeOK
<1> QED
    BY <1>1, <1>2, <1>3, <1>4, <1>5, <1>6, <1>7, <1>8, <1>9, <1>10, <1>11, <1>12, <1>13,
       <1>14, <1>15, <1>16, <1>17, <1>18, <1>19, <1>20, <1>21, <1>22, <1>23, <1>24,
       <1>25, <1>26, <1>27, <1>28, <1>29 DEF Next
-----------------------------------------------------------------------------
(* The local variables of the calls *)

LEMMA LocalStep ==
    ASSUME IInv, [Next]_vars, ~MoveFreely PROVE LocalInv'
<1> USE CppUnpackerConstants
<1>t. TypeOK /\ LocalInv
    BY DEF IInv
<1>n. /\ m_used \in Nat /\ m_free \in Nat /\ m_off \in Nat /\ req \in Nat /\ nsize \in Nat
      /\ COUNTER \in Nat /\ consumed \in Nat
    BY <1>t, Numbers, SizeIs
<1> USE DEF place, buffer, past, expand, heap, zones, next
\* A step of an unpacker after which no call is about to use what it found.
<1>i. ASSUME self' # NULL => m_buffer' # NULL /\ m_z' # NULL /\ finalizer'[self'] = m_z',
             self' = NULL => m_buffer' = NULL /\ m_z' = NULL /\ ~m_referenced' /\ pc' = "idle",
             pc' \in {"idle", "empty", "deliver"}, tmp' = NULL
      PROVE  LocalInv'
    BY <1>i DEF LocalInv, Expanding
<1>1. ASSUME NEW n \in Request, Fits(n), Reserve(n) PROVE LocalInv'
    BY <1>1, <1>t DEF Fits, Reserve, LocalInv, Expanding, HasFinalizer, Pending
<1>2. CASE Expand
    <2>1. /\ pc = "expand" /\ self # NULL /\ hook = self /\ m_used + req \in Size /\ tmp = NULL
          /\ COUNTER <= m_off /\ m_off <= m_used /\ Pending \in Nat /\ m_off + Pending = m_used
          /\ m_buffer # NULL /\ m_z # NULL /\ finalizer[self] = m_z
        BY <1>2, <1>t, Busy, Live DEF Expand, LocalInv, Expanding
    <2>2. UNCHANGED <<self, hook, finalizer, m_buffer, m_z>>
        BY <1>2 DEF Expand
    <2>3. CASE CanRewind /\ m_free' >= req
        <3>1. pc' = "idle" /\ tmp' = NULL
            BY <1>2, <2>3 DEF Expand, Return
        <3> QED
            BY <1>i, <2>1, <2>2, <3>1
    <2>4. CASE ~(CanRewind /\ m_free' >= req)
        <3>1. UNCHANGED <<req, tmp>>
            BY <1>2, <2>4 DEF Expand
        <3>2. m_used' \in Nat /\ m_used' <= m_used
            BY <1>2, <1>n, <2>1 DEF Expand
        <3>3. m_used' + req' \in Size
            BY <1>n, <2>1, <3>1, <3>2, SizeIs
        <3>4. CASE m_off' = COUNTER
            <4>1. /\ nsize' = Doubled((m_used' + m_free') * 2, Wrap(req + m_used'))
                  /\ pc' = "realloc"
                BY <1>2, <2>4, <3>4 DEF Expand
            <4>2. (m_used' + m_free') * 2 \in Int
                BY <1>2, <1>n, <2>1 DEF Expand
            <4>3. Wrap(req + m_used') = req + m_used' /\ req + m_used' \in Size
                BY <1>n, <3>1, <3>2, <3>3, WrapSmall
            <4>4. nsize' >= m_used' + req'
                BY <1>n, <3>1, <3>2, <4>1, <4>2, <4>3, DoubledEnough
            <4> QED
                BY <2>1, <2>2, <3>1, <3>3, <3>4, <4>1, <4>4 DEF LocalInv, Expanding
        <3>5. CASE m_off' # COUNTER
            <4>1. nsize' = Doubled(INITIAL, Wrap(req + Pending + COUNTER)) /\ pc' = "malloc"
                BY <1>2, <2>4, <3>5 DEF Expand
            <4>2. UNCHANGED <<m_used, m_off>>
                BY <1>2, <3>5 DEF Expand
            <4>3. req + Pending + COUNTER \in Size
                BY <1>n, <2>1, SizeIs
            <4>4. nsize' >= req + Pending + COUNTER
                BY <4>1, <4>3, WrapSmall, DoubledEnough, SizeIs
            <4>5. nsize' >= Pending' + COUNTER + req'
                BY <1>n, <2>1, <3>1, <4>2, <4>4 DEF Pending
            <4> QED
                BY <2>1, <2>2, <3>1, <3>3, <4>1, <4>5 DEF LocalInv, Expanding
        <3> QED
            BY <3>4, <3>5
    <2> QED
        BY <2>3, <2>4
<1>3. ASSUME NEW b \in Buf, Realloc(b) PROVE LocalInv'
    BY <1>3, <1>t, <1>i, Busy, Live DEF Realloc, Return
<1>4. ASSUME NEW b \in Buf, Malloc(b) PROVE LocalInv'
    <2>1. /\ pc = "malloc" /\ self # NULL /\ hook = self /\ m_used + req \in Size
          /\ nsize >= Pending + COUNTER + req
          /\ m_buffer \in Buf /\ m_buffer # NULL /\ m_z # NULL /\ finalizer[self] = m_z
          /\ Pending \in Nat /\ m_off + Pending = m_used
        BY <1>4, <1>t, Busy, Live DEF Malloc, LocalInv, Expanding
    <2>2. b # m_buffer
        BY <1>4, <1>n, <2>1, Live, SizeIs DEF Malloc, Allocated
    <2> DEFINE w == [i \in 0 .. nsize - 1 |->
                       IF i \in COUNTER .. COUNTER + Pending - 1
                       THEN mem[m_buffer][m_off + i - COUNTER] ELSE Garbage]
    <2>3. /\ alloc' = [alloc EXCEPT ![b] = nsize] /\ count' = [count EXCEPT ![b] = 1]
          /\ mem' = [mem EXCEPT ![b] = w] /\ tmp' = b /\ pc' = "swap"
          /\ UNCHANGED <<self, hook, finalizer, buffer, m_z, m_referenced, req, nsize, past>>
        BY <1>4 DEF Malloc, Bytes
    <2>4. ASSUME NEW i \in 0 .. Pending - 1 PROVE w[COUNTER + i] = consumed + i
        <3>1. COUNTER + i \in 0 .. nsize - 1 /\ COUNTER + i \in COUNTER .. COUNTER + Pending - 1
              /\ m_off + (COUNTER + i) - COUNTER = m_off + i
            BY <1>n, <2>1
        <3>2. mem[m_buffer][m_off + i] = consumed + i
            BY <2>1 DEF IInv, BufferInv, StreamIntact
        <3> QED
            BY <3>1, <3>2
    <2> HIDE DEF w
    <2>5. alloc'[b] = nsize /\ count'[b] = 1 /\ mem'[b] = w
        BY <1>t, <2>3 DEF TypeOK
    <2>6. Pending' = Pending
        BY <2>3 DEF Pending
    <2> QED
        BY <2>1, <2>2, <2>3, <2>4, <2>5, <2>6 DEF LocalInv, Expanding
<1>5. CASE OutOfMemory
    BY <1>5, <1>i, Busy, Live DEF OutOfMemory, Return
<1>6. CASE Swap
    <2>1. self # NULL /\ m_z # NULL /\ finalizer[self] = m_z /\ tmp \in Buf
        BY <1>6, <1>t, Busy, Live DEF Swap, LocalInv
    <2> QED
        BY <1>6, <1>i, <2>1 DEF Swap, Return
<1>7. CASE SwapThrows
    BY <1>7, <1>i, Busy, Live DEF SwapThrows, Return
<1>8. ASSUME NEW n \in 1 .. MaxBytes, Feed(n) PROVE LocalInv'
    BY <1>8, <1>t, <1>i, Live DEF Feed, LocalInv
<1>9. ASSUME NEW n \in 1 .. MaxBytes, Skip(n) PROVE LocalInv'
    BY <1>9, <1>t, <1>i, Live DEF Skip, LocalInv
<1>10. CASE Remove
    BY <1>10, <1>t, <1>i, Live DEF Remove, LocalInv
<1>11. ASSUME NEW n \in 0 .. MaxBytes, NEW c \in BOOLEAN, Next_Parse(n, c) PROVE LocalInv'
    <2>1. /\ self # NULL /\ m_buffer # NULL /\ m_z # NULL /\ finalizer[self] = m_z /\ tmp = NULL
          /\ COUNTER <= m_off
        BY <1>11, <1>t, Live DEF Next_Parse, LocalInv
    <2>2. /\ UNCHANGED <<self, finalizer, m_buffer, m_z, tmp>>
          /\ m_off' = m_off + n /\ pc' = IF c THEN "flush" ELSE "empty"
        BY <1>11 DEF Next_Parse
    <2>3. CASE c
        <3>1. pc' = "flush" /\ m_off' # COUNTER
            BY <1>11, <1>n, <2>1, <2>2, <2>3 DEF Next_Parse
        <3> QED
            BY <2>1, <2>2, <3>1 DEF LocalInv, Expanding
    <2>4. CASE ~c
        BY <1>i, <2>1, <2>2, <2>4
    <2> QED
        BY <2>3, <2>4
<1>12. ASSUME NEW n \in 0 .. MaxBytes, NEW e \in BOOLEAN, Next_Throws(n, e) PROVE LocalInv'
    BY <1>12, <1>t, <1>i, Live DEF Next_Throws, LocalInv
<1>13. ASSUME NEW d \in {"unpacker", "app"}, Flush(d) PROVE LocalInv'
    <2>1. m_referenced => m_off # COUNTER
        BY <1>13, <1>n DEF Flush
    <2> QED
        BY <1>13, <1>t, <2>1 DEF Flush, LocalInv, Expanding
<1>14. CASE Flush_Unreferenced
    <2>1. /\ pc = "flush" /\ ~m_referenced /\ pc' = AfterFlush
          /\ UNCHANGED <<self, finalizer, m_buffer, m_z, m_referenced, tmp, dest>>
        BY <1>14 DEF Flush_Unreferenced
    <2> QED
        BY <1>t, <2>1 DEF LocalInv, Expanding, AfterFlush
<1>15. CASE Flush_Push
    <2>1. self # NULL /\ m_z \in Zone /\ m_buffer \in Buf
        BY <1>15, Busy, Live DEF Flush_Push
    <2>2. HasFinalizer(m_z, m_buffer)'
        <3>1. \E i \in DOMAIN fins'[m_z] : fins'[m_z][i] = m_buffer
            BY <1>15, <1>t, <2>1, PushEffect DEF Flush_Push, HasFinalizer
        <3> QED
            BY <1>15, <3>1 DEF Flush_Push, HasFinalizer
    <2>3. /\ pc = "flush" /\ m_referenced /\ ~m_referenced' /\ pc' = "incr"
          /\ UNCHANGED <<self, finalizer, m_buffer, m_off, m_z, tmp, dest>>
        BY <1>15 DEF Flush_Push
    <2> QED
        BY <1>t, <2>1, <2>2, <2>3 DEF LocalInv, Expanding
<1>16. CASE Flush_Incr
    <2>1. /\ pc = "incr" /\ pc' = AfterFlush
          /\ UNCHANGED <<self, finalizer, m_buffer, m_z, m_referenced, tmp, dest>>
        BY <1>16 DEF Flush_Incr
    <2> QED
        BY <1>t, <2>1 DEF LocalInv, Expanding, AfterFlush
<1>17. CASE Flush_Fails
    BY <1>17, <1>t, <1>i, Busy, Live DEF Flush_Fails, LocalInv
<1>18. ASSUME NEW zz \in Zone, Release(zz) PROVE LocalInv'
    <2>1. self # NULL /\ self \in Object /\ zz # NULL /\ m_buffer # NULL /\ tmp = NULL
        BY <1>18, <1>t, Busy, Live DEF Release, LocalInv, TypeOK
    <2>2. finalizer'[self] = zz
        BY <1>18, <1>t, <2>1 DEF Release, TypeOK
    <2> QED
        BY <1>18, <1>i, <2>1, <2>2 DEF Release
<1>19. CASE Release_Throws
    BY <1>19, <1>t, <1>i, Busy, Live DEF Release_Throws, LocalInv
<1>20. CASE Deliver \/ Deliver_Nothing
    BY <1>20, <1>t, <1>i, Busy, Live DEF Deliver, Deliver_Nothing, LocalInv
<1>21. CASE Reset
    BY <1>21, <1>t, <1>i, Live DEF Reset, LocalInv
<1>22. CASE ResetZone
    BY <1>22, <1>t, <1>i, Live DEF ResetZone, LocalInv
\* The application's zones are not the unpacker's business.
<1>23. CASE Result_Take \/ Result_Drop
    BY <1>23, <1>t, <1>i DEF Result_Take, Result_Drop, LocalInv
<1>25. ASSUME NEW zz \in Zone, App_FreeZone(zz) PROVE LocalInv'
    <2>1. /\ Empty(zz) /\ (pc = "incr" => zz # m_z)
          /\ UNCHANGED <<self, hook, finalizer, buffer, m_z, m_referenced, pc, expand, dest, past>>
        BY <1>25, Busy, Live DEF App_FreeZone
    <2>2. ASSUME pc = "incr" PROVE HasFinalizer(m_z, m_buffer)'
        <3>1. m_z \in Zone /\ m_buffer \in Buf /\ zz # m_z /\ HasFinalizer(m_z, m_buffer)
            BY <1>t, <2>1, <2>2, Busy, Live DEF LocalInv
        <3>2. fins'[m_z] = fins[m_z]
            BY <2>1, <3>1, EmptyEffect
        <3> QED
            BY <2>1, <3>1, <3>2 DEF HasFinalizer
    <2>3. ASSUME pc = "swap" PROVE alloc'[tmp] = alloc[tmp] /\ mem'[tmp] = mem[tmp] /\ count'[tmp] = 1
        <3>1. tmp \in Buf /\ tmp # NULL /\ count[tmp] = 1
            BY <1>t, <2>3 DEF LocalInv
        <3>2. Kept(tmp)
            BY <2>1, <3>1, EmptyEffect
        <3> QED
            BY <3>1, <3>2 DEF Kept
    <2>4. Pending' = Pending
        BY <2>1 DEF Pending
    <2> QED
        BY <1>t, <2>1, <2>2, <2>3, <2>4 DEF LocalInv, Expanding
<1>26. ASSUME NEW o \in Object, Move(o) PROVE LocalInv'
    <2>1. finalizer'[o] = finalizer[self]
        BY <1>26, <1>t DEF Move, TypeOK
    <2> QED
        BY <1>26, <1>t, <1>i, <2>1, Live DEF Move, LocalInv
<1>27. ASSUME NEW o \in Object, DestroyShell(o) PROVE LocalInv'
    <2>1. finalizer'[self] = finalizer[self] \/ self = NULL
        BY <1>27, <1>t DEF DestroyShell, TypeOK
    <2> QED
        BY <1>27, <1>t, <1>i, <2>1 DEF DestroyShell, LocalInv
<1>28. CASE Destroy
    BY <1>28, <1>t, <1>i DEF Destroy, LocalInv
<1>29. CASE UNCHANGED vars
    BY <1>29, <1>t DEF vars, LocalInv, Expanding, HasFinalizer, Pending
<1> QED
    BY <1>1, <1>2, <1>3, <1>4, <1>5, <1>6, <1>7, <1>8, <1>9, <1>10, <1>11, <1>12, <1>13,
       <1>14, <1>15, <1>16, <1>17, <1>18, <1>19, <1>20, <1>21, <1>22, <1>23,
       <1>25, <1>26, <1>27, <1>28, <1>29 DEF Next
-----------------------------------------------------------------------------
(* Who owns which zone *)

LEMMA ZoneStep == IInv /\ [Next]_vars => ZoneInv'
<1> SUFFICES ASSUME IInv, [Next]_vars PROVE ZoneInv'
    OBVIOUS
<1> USE CppUnpackerConstants
<1>t. TypeOK /\ ZoneInv
    BY DEF IInv
<1> USE DEF place, buffer, past, expand, heap, zones, next
\* A step that changes the zones of nobody.
<1>u. ASSUME UNCHANGED <<owner, m_z, result, old>>, self' # NULL => self # NULL, pc # "deliver"
      PROVE  ZoneInv'
    BY <1>t, <1>u DEF ZoneInv
<1>1. ASSUME NEW n \in Request, Reserve(n) PROVE ZoneInv'
    BY <1>1, <1>u DEF Reserve
<1>2. CASE Expand
    BY <1>2, <1>u DEF Expand
<1>3. ASSUME NEW b \in Buf, Realloc(b) \/ Malloc(b) PROVE ZoneInv'
    BY <1>3, <1>u DEF Realloc, Malloc
<1>4. CASE OutOfMemory
    BY <1>4, <1>u DEF OutOfMemory
<1>5. CASE Swap \/ SwapThrows
    BY <1>5, <1>u DEF Swap, SwapThrows
<1>6. ASSUME NEW n \in 1 .. MaxBytes, Feed(n) \/ Skip(n) PROVE ZoneInv'
    BY <1>6, <1>u DEF Feed, Skip
<1>7. CASE Remove
    BY <1>7, <1>u DEF Remove
<1>8. ASSUME NEW n \in 0 .. MaxBytes, NEW c \in BOOLEAN, Next_Parse(n, c) \/ Next_Throws(n, c)
      PROVE  ZoneInv'
    BY <1>8, <1>u DEF Next_Parse, Next_Throws
<1>9. ASSUME NEW d \in {"unpacker", "app"}, Flush(d) PROVE ZoneInv'
    BY <1>9, <1>u DEF Flush
<1>10. CASE Flush_Unreferenced \/ Flush_Push
    BY <1>10, <1>u DEF Flush_Unreferenced, Flush_Push
<1>11. CASE Flush_Incr \/ Flush_Fails
    BY <1>11, <1>u DEF Flush_Incr, Flush_Fails
<1>12. ASSUME NEW zz \in Zone, Release(zz) PROVE ZoneInv'
    <2>1. /\ self # NULL /\ m_z \in Zone /\ owner[m_z] = "unpacker" /\ owner[zz] = "none"
          /\ zz # m_z /\ old = NULL /\ zz # NULL /\ pc = "release"
        BY <1>12, <1>t, Busy, Live DEF Release, ZoneInv
    <2>2. m_z' = zz /\ UNCHANGED <<self, result>>
        BY <1>12 DEF Release
    <2>3. result # NULL => result \in Zone /\ owner[result] = "result"
        BY <1>t DEF ZoneInv, TypeOK
    <2>4. CASE dest = "app"
        <3>1. owner' = [owner EXCEPT ![zz] = "unpacker", ![m_z] = "app"] /\ old' = NULL
            BY <1>12, <2>1, <2>4 DEF Release
        <3>2. owner'[zz] = "unpacker" /\ (result # NULL => owner'[result] = "result")
            BY <1>t, <2>1, <2>3, <3>1 DEF TypeOK
        <3> QED
            BY <2>2, <3>1, <3>2 DEF ZoneInv
    <2>5. CASE dest # "app"
        <3>1. owner' = [owner EXCEPT ![zz] = "unpacker", ![m_z] = "old"] /\ old' = m_z
              /\ pc' = "deliver"
            BY <1>12, <2>5 DEF Release
        <3>2. owner'[zz] = "unpacker" /\ owner'[m_z] = "old"
              /\ (result # NULL => owner'[result] = "result")
            BY <1>t, <2>1, <2>3, <3>1 DEF TypeOK
        <3> QED
            BY <2>2, <3>1, <3>2 DEF ZoneInv
    <2> QED
        BY <2>4, <2>5
<1>13. CASE Release_Throws
    BY <1>13, <1>u DEF Release_Throws
<1>14. CASE Deliver \/ Deliver_Nothing
    <2>1. SetResult /\ UNCHANGED <<self, m_z>> /\ pc # "idle"
        BY <1>14 DEF Deliver, Deliver_Nothing
    <2>2. /\ m_z \in Zone /\ owner[m_z] = "unpacker"
          /\ old # NULL => old \in Zone /\ owner[old] = "old"
          /\ result # NULL => owner[result] = "result"
        BY <1>t, <2>1, Busy, Live DEF ZoneInv, TypeOK
    <2>3. owner'[m_z] = "unpacker" /\ result' = old /\ old' = NULL
        BY <2>1, <2>2 DEF SetResult
    <2>4. old # NULL => owner'[old] = "result"
        BY <2>1, <2>2 DEF SetResult
    <2> QED
        BY <2>1, <2>3, <2>4 DEF ZoneInv
<1>15. CASE Reset \/ ResetZone
    BY <1>15, <1>u DEF Reset, ResetZone
<1>16. CASE Result_Take \/ Result_Drop
    <2>1. /\ result \in Zone /\ owner[result] = "result" /\ old = NULL
          /\ result' = NULL /\ UNCHANGED <<self, m_z, old>>
          /\ owner' = [owner EXCEPT ![result] = "app"] \/ owner' = [owner EXCEPT ![result] = "none"]
        BY <1>16, <1>t DEF Result_Take, Result_Drop, ZoneInv, TypeOK
    <2>2. self # NULL => m_z \in Zone /\ owner[m_z] = "unpacker"
        BY Live
    <2>3. self # NULL => owner'[m_z] = "unpacker"
        BY <1>t, <2>1, <2>2 DEF TypeOK
    <2> QED
        BY <2>1, <2>3 DEF ZoneInv
<1>17. ASSUME NEW zz \in Zone, App_FreeZone(zz) PROVE ZoneInv'
    <2>1. /\ owner[zz] = "app" /\ owner' = [owner EXCEPT ![zz] = "none"]
          /\ UNCHANGED <<self, m_z, result, old, pc>>
        BY <1>17 DEF App_FreeZone
    <2> QED
        BY <1>t, <2>1 DEF ZoneInv, TypeOK
<1>18. ASSUME NEW o \in Object, Move(o) \/ DestroyShell(o) PROVE ZoneInv'
    BY <1>18, <1>u DEF Move, DestroyShell
<1>19. CASE Destroy
    <2>1. /\ m_z \in Zone /\ owner[m_z] = "unpacker" /\ owner' = [owner EXCEPT ![m_z] = "none"]
          /\ self' = NULL /\ UNCHANGED <<result, old>> /\ old = NULL
        BY <1>19, <1>t, Live DEF Destroy, ZoneInv
    <2> QED
        BY <1>t, <2>1 DEF ZoneInv, TypeOK
<1>20. CASE UNCHANGED vars
    BY <1>20, <1>t DEF vars, ZoneInv
<1> QED
    BY <1>1, <1>2, <1>3, <1>4, <1>5, <1>6, <1>7, <1>8, <1>9, <1>10, <1>11, <1>12, <1>13,
       <1>14, <1>15, <1>16, <1>17, <1>18, <1>19, <1>20 DEF Next
-----------------------------------------------------------------------------
(* The block the unpacker has *)

LEMMA BufferStep == IInv /\ [Next]_vars => BufferInv'
<1> SUFFICES ASSUME IInv, [Next]_vars PROVE BufferInv'
    OBVIOUS
<1> USE CppUnpackerConstants
<1>t. TypeOK /\ HeapOK /\ BufferInv /\ LocalInv
    BY TypeIs DEF IInv
<1>n. /\ m_used \in Nat /\ m_free \in Nat /\ m_off \in Nat /\ m_parsed \in Nat
      /\ req \in Nat /\ nsize \in Nat /\ nsize \in Size
      /\ COUNTER \in Nat /\ COUNTER > 0 /\ consumed \in Nat /\ start \in Nat
    BY <1>t, Numbers, SizeIs DEF TypeOK
<1> USE DEF place, buffer, past, expand, heap, zones, next
\* A step that leaves the block to the unpacker and its bytes where they are.
<1>u. ASSUME self # NULL, UNCHANGED <<m_buffer, m_used, m_free, m_off, consumed>>,
             alloc'[m_buffer] = alloc[m_buffer] /\ mem'[m_buffer] = mem[m_buffer],
             m_off = COUNTER => count'[m_buffer] = count[m_buffer],
             SizeExact'
      PROVE  BufferInv'
    <2>1. SpaceAccounted'
        BY <1>t, <1>u DEF BufferInv, SpaceAccounted
    <2>2. StreamIntact' /\ received' = received
        BY <1>t, <1>u DEF BufferInv, StreamIntact, Pending, received
    <2> QED
        BY <1>t, <1>u, <2>1, <2>2 DEF BufferInv
\* The same when the heap does not change, either,
<1>v. ASSUME self # NULL => UNCHANGED <<m_buffer, m_used, m_free, m_off, consumed, heap>>,
             self # NULL => SizeExact', self = NULL => self' = NULL
      PROVE  BufferInv'
    <2>1. CASE self = NULL
        BY <1>v, <2>1 DEF BufferInv, SpaceAccounted, StreamIntact, SizeExact
    <2>2. CASE self # NULL
        BY <1>u, <1>v, <2>2
    <2> QED
        BY <2>1, <2>2
\* and when finalizers run.
<1>w. ASSUME NEW zz \in Zone, Empty(zz), pc = "incr" => zz # m_z, self' = self,
             UNCHANGED <<m_buffer, m_used, m_free, m_off, consumed>>, SizeExact'
      PROVE  BufferInv'
    <2>1. CASE self = NULL
        BY <1>w, <2>1 DEF BufferInv, SpaceAccounted, StreamIntact, SizeExact
    <2>2. CASE self # NULL
        <3>1. Kept(m_buffer) /\ count[m_buffer] \in Nat
            BY <1>t, <1>w, <2>2, EmptyEffect, Live DEF TypeOK
        <3>2. m_off = COUNTER => count[m_buffer] = 1
            BY <1>t, <2>2 DEF BufferInv
        <3>3. m_off = COUNTER => count'[m_buffer] = count[m_buffer]
            BY <3>1, <3>2 DEF Kept
        <3> QED
            BY <1>u, <1>w, <2>2, <3>1, <3>3 DEF Kept
    <2> QED
        BY <2>1, <2>2
<1>s. SizeExact
    BY <1>t DEF BufferInv
<1>1. ASSUME NEW n \in Request, Reserve(n) PROVE BufferInv'
    BY <1>1, <1>v, <1>s DEF Reserve, SizeExact
<1>2. CASE Expand
    <2>1. /\ self # NULL /\ COUNTER <= m_off /\ m_off <= m_used /\ m_off + Pending = m_used
          /\ m_used + m_free <= alloc[m_buffer] /\ alloc[m_buffer] \in Nat
          /\ received = consumed + Pending /\ received <= MaxBytes
        BY <1>2, Busy, Live DEF Expand
    <2>2. UNCHANGED <<self, m_buffer, m_parsed, thrown, heap, past>>
        BY <1>2 DEF Expand
    <2>3. SizeExact'
        BY <1>s, <2>2 DEF SizeExact
    <2>4. CASE CanRewind
        <3>1. /\ m_used' = COUNTER /\ m_off' = COUNTER /\ m_free' = m_free + m_used - COUNTER
              /\ m_used = m_off /\ count[m_buffer] = 1
            BY <1>2, <2>4 DEF Expand, CanRewind
        <3>2. Pending' = 0 /\ Pending = 0
            BY <1>n, <3>1 DEF Pending
        <3>3. SpaceAccounted'
            BY <1>n, <2>1, <2>2, <3>1 DEF SpaceAccounted
        <3>4. StreamIntact'
            BY <3>2 DEF StreamIntact
        <3>5. received' <= MaxBytes
            BY <1>n, <2>1, <2>2, <3>2 DEF received
        <3> QED
            BY <2>2, <2>3, <3>1, <3>3, <3>4, <3>5 DEF BufferInv
    <2>5. CASE ~CanRewind
        BY <1>2, <1>v, <2>2, <2>3, <2>5 DEF Expand
    <2> QED
        BY <2>4, <2>5
<1>3. ASSUME NEW b \in Buf, Realloc(b) PROVE BufferInv'
    <2>1. /\ pc = "realloc" /\ self # NULL /\ m_off = COUNTER /\ nsize >= m_used + req
          /\ m_buffer \in Buf /\ m_off + Pending = m_used /\ Pending \in Nat
          /\ m_used + m_free <= alloc[m_buffer] /\ alloc[m_buffer] \in Nat
          /\ count[m_buffer] = 1 /\ m_off <= m_used /\ received <= MaxBytes
        BY <1>3, <1>t, Busy, Live DEF Realloc, LocalInv, BufferInv
    <2> DEFINE w == [i \in 0 .. nsize - 1 |-> IF i < alloc[m_buffer] THEN mem[m_buffer][i] ELSE Garbage]
    <2>2. /\ alloc' = [alloc EXCEPT ![m_buffer] = 0, ![b] = nsize]
          /\ count' = [count EXCEPT ![m_buffer] = 0, ![b] = count[m_buffer]]
          /\ mem' = [mem EXCEPT ![m_buffer] = Nothing, ![b] = w]
          /\ m_buffer' = b /\ m_free' = Wrap(nsize - m_used)
          /\ UNCHANGED <<self, m_used, m_off, m_parsed, thrown, past>>
        BY <1>3 DEF Realloc, Bytes
    <2>3. ASSUME NEW i \in 0 .. Pending - 1 PROVE w[m_off + i] = consumed + i
        <3>1. m_off + i \in 0 .. nsize - 1 /\ m_off + i < alloc[m_buffer]
            BY <1>n, <2>1
        <3>2. mem[m_buffer][m_off + i] = consumed + i
            BY <1>t, <2>1 DEF BufferInv, StreamIntact
        <3> QED
            BY <3>1, <3>2
    <2> HIDE DEF w
    <2>4. alloc'[b] = nsize /\ count'[b] = 1 /\ mem'[b] = w
        BY <1>t, <2>1, <2>2 DEF HeapOK
    <2>5. m_free' = nsize - m_used
        <3>1. nsize - m_used \in Size
            BY <1>n, <2>1, SizeIs
        <3> QED
            BY <2>2, <3>1, WrapSmall
    <2>6. Pending' = Pending /\ received' = received
        BY <2>2 DEF Pending, received
    <2>7. SpaceAccounted'
        BY <1>n, <2>1, <2>2, <2>4, <2>5 DEF SpaceAccounted
    <2>8. StreamIntact'
        BY <2>2, <2>3, <2>4, <2>6 DEF StreamIntact
    <2>9. SizeExact'
        BY <1>s, <2>2 DEF SizeExact
    <2> QED
        BY <2>1, <2>2, <2>4, <2>6, <2>7, <2>8, <2>9 DEF BufferInv
<1>4. ASSUME NEW b \in Buf, Malloc(b) PROVE BufferInv'
    <2>1. self # NULL /\ m_buffer \in Buf /\ alloc[m_buffer] > 0
        BY <1>4, <1>n, Busy, Live DEF Malloc
    <2>2. b # m_buffer
        BY <1>4, <2>1 DEF Malloc, Allocated
    <2>3. /\ UNCHANGED <<self, buffer, m_parsed, thrown, past>>
          /\ alloc'[m_buffer] = alloc[m_buffer] /\ mem'[m_buffer] = mem[m_buffer]
          /\ count'[m_buffer] = count[m_buffer]
        BY <1>4, <1>t, <2>1, <2>2 DEF Malloc, HeapOK
    <2>4. SizeExact'
        BY <1>s, <2>3 DEF SizeExact
    <2> QED
        BY <1>u, <2>1, <2>3, <2>4
<1>5. CASE OutOfMemory
    BY <1>5, <1>v, <1>s DEF OutOfMemory, SizeExact
<1>6. CASE Swap
    <2>1. /\ pc = "swap" /\ self # NULL /\ tmp \in Buf /\ tmp # m_buffer /\ tmp # NULL
          /\ alloc[tmp] = nsize /\ count[tmp] = 1
          /\ \A i \in 0 .. Pending - 1 : mem[tmp][COUNTER + i] = consumed + i
          /\ nsize >= Pending + COUNTER + req /\ Pending \in Nat /\ received <= MaxBytes
          /\ m_buffer \in Buf
        BY <1>6, <1>t, Busy, Live DEF Swap, LocalInv
    <2>2. /\ m_buffer' = tmp /\ m_used' = Pending + COUNTER /\ m_off' = COUNTER
          /\ m_free' = Wrap(nsize - (Pending + COUNTER))
          /\ UNCHANGED <<self, m_parsed, thrown, past>>
        BY <1>6 DEF Swap
    <2>3. alloc'[tmp] = alloc[tmp] /\ count'[tmp] = count[tmp] /\ mem'[tmp] = mem[tmp]
        <3>1. CASE m_referenced
            BY <1>6, <3>1 DEF Swap
        <3>2. CASE ~m_referenced
            <4>1. DecrAll(Once(m_buffer))
                BY <1>6, <3>2 DEF Swap
            <4> QED
                BY <2>1, <4>1, BufferHolds, OnceEffect
        <3> QED
            BY <3>1, <3>2
    <2>4. m_free' = nsize - (Pending + COUNTER)
        <3>1. nsize - (Pending + COUNTER) \in Size
            BY <1>n, <2>1, SizeIs
        <3> QED
            BY <2>2, <3>1, WrapSmall
    <2>5. Pending' = Pending /\ received' = received
        BY <1>n, <2>1, <2>2 DEF Pending, received
    <2>6. SpaceAccounted'
        BY <1>n, <2>1, <2>2, <2>3, <2>4 DEF SpaceAccounted
    <2>7. StreamIntact'
        BY <2>1, <2>2, <2>3, <2>5 DEF StreamIntact
    <2>8. SizeExact'
        BY <1>s, <2>2 DEF SizeExact
    <2> QED
        BY <2>1, <2>2, <2>3, <2>5, <2>6, <2>7, <2>8 DEF BufferInv
<1>7. CASE SwapThrows
    <2>1. /\ pc = "swap" /\ self # NULL /\ tmp \in Buf /\ tmp # m_buffer /\ tmp # NULL
          /\ m_buffer \in Buf
        BY <1>7, <1>t, Busy, Live DEF SwapThrows, LocalInv
    <2>2. DecrAll(Once(tmp)) /\ UNCHANGED <<self, buffer, m_parsed, thrown, past>>
        BY <1>7 DEF SwapThrows
    <2>3. /\ alloc'[m_buffer] = alloc[m_buffer] /\ mem'[m_buffer] = mem[m_buffer]
          /\ count'[m_buffer] = count[m_buffer]
        BY <2>1, <2>2, TmpHolds, OnceEffect
    <2>4. SizeExact'
        BY <1>s, <2>2 DEF SizeExact
    <2> QED
        BY <1>u, <2>1, <2>2, <2>3, <2>4
<1>8. ASSUME NEW n \in 1 .. MaxBytes, Feed(n) PROVE BufferInv'
    <2>1. /\ self # NULL /\ m_buffer \in Buf /\ m_used + m_free <= alloc[m_buffer]
          /\ alloc[m_buffer] \in Nat /\ COUNTER <= m_off /\ m_off <= m_used
          /\ Pending \in Nat /\ m_off + Pending = m_used /\ received = consumed + Pending
          /\ n \in Nat /\ n <= m_free /\ received + n <= MaxBytes
        BY <1>8, Live DEF Feed
    <2> DEFINE w == [i \in DOMAIN mem[m_buffer] |->
                       IF i \in m_used .. m_used + n - 1 THEN received + i - m_used
                                                         ELSE mem[m_buffer][i]]
    <2>2. /\ mem' = [mem EXCEPT ![m_buffer] = w]
          /\ m_used' = m_used + n /\ m_free' = m_free - n
          /\ UNCHANGED <<self, m_buffer, m_off, m_parsed, thrown, alloc, count, past>>
        BY <1>8 DEF Feed
    <2>3. Pending' = Pending + n /\ received' = received + n
        BY <1>n, <2>1, <2>2 DEF Pending, received
    <2>4. ASSUME NEW i \in 0 .. Pending + n - 1 PROVE w[m_off + i] = consumed + i
        <3>1. DOMAIN mem[m_buffer] = 0 .. alloc[m_buffer] - 1
            BY <1>t, <2>1 DEF HeapOK
        <3>2. m_off + i \in DOMAIN mem[m_buffer]
            BY <1>n, <2>1, <3>1
        <3>3. CASE i < Pending
            <4>1. m_off + i \notin m_used .. m_used + n - 1 /\ i \in 0 .. Pending - 1
                BY <1>n, <2>1, <3>3
            <4>2. mem[m_buffer][m_off + i] = consumed + i
                BY <1>t, <2>1, <4>1 DEF BufferInv, StreamIntact
            <4> QED
                BY <3>2, <4>1, <4>2
        <3>4. CASE i >= Pending
            <4>1. m_off + i \in m_used .. m_used + n - 1 /\ received + (m_off + i) - m_used = consumed + i
                BY <1>n, <2>1, <3>4
            <4> QED
                BY <3>2, <4>1
        <3> QED
            BY <2>1, <3>3, <3>4
    <2> HIDE DEF w
    <2>5. mem'[m_buffer] = w
        BY <1>t, <2>1, <2>2 DEF HeapOK
    <2>6. StreamIntact'
        <3>1. ASSUME NEW i \in 0 .. Pending' - 1
              PROVE  mem'[m_buffer'][m_off' + i] = consumed' + i
            <4>1. i \in 0 .. Pending + n - 1
                BY <2>1, <2>3
            <4>2. w[m_off + i] = consumed + i
                BY <2>4, <4>1
            <4> QED
                BY <2>2, <2>5, <4>2
        <3> QED
            BY <3>1 DEF StreamIntact
    <2>7. SpaceAccounted'
        BY <1>n, <2>1, <2>2 DEF SpaceAccounted
    <2>8. SizeExact'
        BY <1>s, <2>2 DEF SizeExact
    <2> QED
        BY <1>t, <2>1, <2>2, <2>3, <2>6, <2>7, <2>8 DEF BufferInv
\* n bytes are parsed or skipped.
<1>o. ASSUME NEW n \in Nat, self # NULL, n <= Pending,
             m_off' = m_off + n, consumed' = consumed + n,
             UNCHANGED <<self, m_buffer, m_used, m_free, heap>>, SizeExact'
      PROVE  BufferInv'
    <2>1. /\ m_used + m_free <= alloc[m_buffer] /\ COUNTER <= m_off /\ m_off <= m_used
          /\ Pending \in Nat /\ m_off + Pending = m_used /\ received = consumed + Pending
          /\ received <= MaxBytes
        BY <1>o, Live
    <2>2. Pending' = Pending - n /\ received' = received
        BY <1>n, <1>o, <2>1 DEF Pending, received
    <2>3. ASSUME NEW i \in 0 .. Pending' - 1 PROVE mem[m_buffer][m_off' + i] = consumed' + i
        <3>1. n + i \in 0 .. Pending - 1 /\ m_off' + i = m_off + (n + i)
              /\ consumed' + i = consumed + (n + i)
            BY <1>n, <1>o, <2>1, <2>2
        <3> QED
            BY <1>t, <1>o, <3>1 DEF BufferInv, StreamIntact
    <2>4. StreamIntact'
        BY <1>o, <2>3 DEF StreamIntact
    <2>5. SpaceAccounted'
        BY <1>n, <1>o, <2>1 DEF SpaceAccounted
    <2>6. m_off' = COUNTER => m_off = COUNTER
        BY <1>n, <1>o, <2>1
    <2> QED
        BY <1>t, <1>o, <2>1, <2>2, <2>4, <2>5, <2>6 DEF BufferInv
<1>9. ASSUME NEW n \in 1 .. MaxBytes, Skip(n) PROVE BufferInv'
    <2>1. SizeExact'
        BY <1>9, <1>n, <1>s DEF Skip, SizeExact
    <2> QED
        BY <1>9, <1>o, <2>1 DEF Skip
<1>10. CASE Remove
    <2>1. /\ self # NULL /\ m_used + m_free <= alloc[m_buffer] /\ COUNTER <= m_off
          /\ m_off <= m_used /\ alloc[m_buffer] \in Nat
          /\ Pending \in Nat /\ received = consumed + Pending /\ received <= MaxBytes
        BY <1>10, Live DEF Remove
    <2>2. /\ m_used' = m_off /\ consumed' = consumed + Pending /\ start' = start + Pending
          /\ m_parsed = 0
          /\ UNCHANGED <<self, m_buffer, m_free, m_off, m_parsed, thrown, heap>>
        BY <1>10 DEF Remove
    <2>3. Pending' = 0 /\ received' = received
        BY <1>n, <2>1, <2>2 DEF Pending, received
    <2>4. SizeExact'
        BY <1>n, <1>s, <2>1, <2>2 DEF SizeExact
    <2>5. SpaceAccounted'
        BY <1>n, <2>1, <2>2 DEF SpaceAccounted
    <2>6. StreamIntact'
        BY <2>3 DEF StreamIntact
    <2> QED
        BY <1>t, <2>1, <2>2, <2>3, <2>4, <2>5, <2>6 DEF BufferInv
<1>11. ASSUME NEW n \in 0 .. MaxBytes, NEW c \in BOOLEAN, Next_Parse(n, c) PROVE BufferInv'
    <2>1. SizeExact'
        BY <1>11, <1>n, <1>s DEF Next_Parse, SizeExact
    <2> QED
        BY <1>11, <1>o, <2>1 DEF Next_Parse
<1>12. ASSUME NEW n \in 0 .. MaxBytes, NEW e \in BOOLEAN, Next_Throws(n, e) PROVE BufferInv'
    <2>1. SizeExact' /\ n \in Nat
        BY <1>12 DEF Next_Throws, SizeExact
    <2>2. CASE e
        BY <1>12, <1>o, <2>1, <2>2 DEF Next_Throws
    <2>3. CASE ~e
        BY <1>12, <1>v, <2>1, <2>3 DEF Next_Throws
    <2> QED
        BY <2>2, <2>3
<1>13. ASSUME NEW d \in {"unpacker", "app"}, Flush(d) PROVE BufferInv'
    BY <1>13, <1>v, <1>s DEF Flush, SizeExact
<1>14. CASE Flush_Unreferenced \/ Flush_Push \/ Flush_Fails
    BY <1>14, <1>v, <1>s, Busy DEF Flush_Unreferenced, Flush_Push, Flush_Fails, SizeExact
<1>15. CASE Flush_Incr
    <2>1. self # NULL /\ m_off # COUNTER
        BY <1>15, <1>t, Busy DEF Flush_Incr, LocalInv
    <2>2. UNCHANGED <<self, buffer, m_parsed, thrown, alloc, mem, past>>
        BY <1>15 DEF Flush_Incr
    <2>3. SizeExact'
        BY <1>s, <2>2 DEF SizeExact
    <2> QED
        BY <1>u, <2>1, <2>2, <2>3
<1>16. ASSUME NEW zz \in Zone, Release(zz) PROVE BufferInv'
    BY <1>16, <1>v, <1>s DEF Release, SizeExact
<1>17. CASE Release_Throws
    BY <1>17, <1>v, <1>s DEF Release_Throws, SizeExact
<1>18. CASE Deliver \/ Deliver_Nothing
    <2>1. /\ SetResult /\ pc # "incr" /\ UNCHANGED <<self, buffer, thrown, consumed>>
        BY <1>18 DEF Deliver, Deliver_Nothing
    <2>2. SizeExact'
        <3>1. CASE Deliver
            BY <1>n, <3>1 DEF Deliver, SizeExact
        <3>2. CASE Deliver_Nothing
            BY <1>s, <3>2 DEF Deliver_Nothing, SizeExact
        <3> QED
            BY <1>18, <3>1, <3>2
    <2>3. CASE result = NULL
        BY <1>v, <2>1, <2>2, <2>3 DEF SetResult
    <2>4. CASE result # NULL
        <3>1. Empty(result) /\ result \in Zone
            BY <1>t, <2>1, <2>4 DEF SetResult, TypeOK
        <3> QED
            BY <1>w, <2>1, <2>2, <3>1
    <2> QED
        BY <2>3, <2>4
<1>19. CASE Reset
    <2>1. SizeExact'
        BY <1>19, <1>n DEF Reset, SizeExact
    <2> QED
        BY <1>19, <1>v, <2>1 DEF Reset
<1>20. CASE ResetZone
    <2>1. SizeExact'
        BY <1>20, <1>s DEF ResetZone, SizeExact
    <2> QED
        BY <1>20, <1>w, <2>1, Live DEF ResetZone
<1>21. CASE Result_Take
    BY <1>21, <1>v, <1>s DEF Result_Take, SizeExact
<1>22. CASE Result_Drop
    <2>1. SizeExact' /\ result \in Zone
        BY <1>22, <1>s, <1>t DEF Result_Drop, SizeExact, TypeOK
    <2> QED
        BY <1>22, <1>w, <2>1 DEF Result_Drop
<1>23. ASSUME NEW zz \in Zone, App_FreeZone(zz) PROVE BufferInv'
    <2>1. SizeExact' /\ (pc = "incr" => zz # m_z)
        BY <1>23, <1>s, Busy, Live DEF App_FreeZone, SizeExact
    <2> QED
        BY <1>23, <1>w, <2>1 DEF App_FreeZone
<1>24. ASSUME NEW o \in Object, Move(o) PROVE BufferInv'
    <2>1. SizeExact'
        BY <1>24, <1>s DEF Move, SizeExact
    <2> QED
        BY <1>24, <1>v, <2>1 DEF Move
<1>25. ASSUME NEW o \in Object, DestroyShell(o) PROVE BufferInv'
    BY <1>25, <1>v, <1>s DEF DestroyShell, SizeExact
<1>26. CASE Destroy
    BY <1>26 DEF Destroy, BufferInv, SpaceAccounted, StreamIntact, SizeExact
<1>27. CASE UNCHANGED vars
    BY <1>27, <1>v, <1>s DEF vars, SizeExact
<1> QED
    BY <1>1, <1>2, <1>3, <1>4, <1>5, <1>6, <1>7, <1>8, <1>9, <1>10, <1>11, <1>12, <1>13,
       <1>14, <1>15, <1>16, <1>17, <1>18, <1>19, <1>20, <1>21, <1>22, <1>23, <1>24,
       <1>25, <1>26, <1>27 DEF Next
-----------------------------------------------------------------------------
(* The counters *)

LEMMA CountStep == IInv /\ [Next]_vars => CountInv'
<1> SUFFICES ASSUME IInv, [Next]_vars PROVE CountInv'
    OBVIOUS
<1> USE CppUnpackerConstants
<1>t. TypeOK /\ HeapOK /\ LocalInv
    BY TypeIs DEF IInv
<1> USE DEF place, buffer, past, expand, heap, zones, next
\* What there is to show of a block.
<1> DEFINE Right(b) == Counted(b, Holders(b)') /\ Ahead(b)' = Ahead(b)
<1>c. ASSUME \A b \in Buf : Right(b) PROVE CountInv'
    BY <1>c, CountNext DEF Counted, Allocated
\* A block whose holders, counter and size do not change is right.
<1>k. ASSUME NEW b \in Buf, Holders(b)' = Holders(b),
             count'[b] = count[b], alloc'[b] = alloc[b], Ahead(b)' = Ahead(b)
      PROVE  Right(b)
    BY <1>k, CountNow DEF Counted, Allocated
\* The finalizers stay as they are.
<1>f. ASSUME fins' = fins, NEW b, NEW h PROVE Slot(b, h)' <=> Slot(b, h)
    BY <1>f DEF Slot
<1>u. ASSUME UNCHANGED <<m_buffer, tmp, fins, alloc, count>>, pc # "incr", pc' # "incr"
      PROVE  CountInv'
    <2>1. ASSUME NEW b \in Buf PROVE Right(b)
        <3>1. \A h : h \in Holders(b)' <=> h \in Holders(b)
            BY <1>f, <1>u, HoldersNow, HoldersNext
        <3>2. Holders(b)' = Holders(b)
            BY <3>1
        <3>3. Ahead(b)' = Ahead(b)
            BY <1>u DEF Ahead, Counting
        <3> QED
            BY <1>k, <1>u, <3>2, <3>3
    <2> QED
        BY <1>c, <2>1
\* The finalizers of a zone run.
<1>e. ASSUME NEW zz \in Zone, Empty(zz), pc = "incr" => zz # m_z,
             UNCHANGED <<m_buffer, tmp>>, pc' = "incr" <=> pc = "incr"
      PROVE  CountInv'
    <2>1. ASSUME NEW b \in Buf PROVE Right(b)
        <3>1. /\ Counted(b, Holders(b) \ SlotsOf(zz, b))
              /\ \A h : Slot(b, h)' <=> Slot(b, h) /\ h \notin SlotsOf(zz, b)
            BY <1>e, EmptyEffect
        <3>2. <<NULL, 0>> \notin SlotsOf(zz, b) /\ <<NULL, 1>> \notin SlotsOf(zz, b)
            BY <1>t, OfCounts
        <3>3. \A h : h \in Holders(b)' <=> h \in Holders(b) /\ h \notin SlotsOf(zz, b)
            BY <1>e, <3>1, <3>2, HoldersNow, HoldersNext
        <3>4. Holders(b)' = Holders(b) \ SlotsOf(zz, b)
            BY <3>3
        <3>5. Ahead(b)' = Ahead(b)
            BY <1>e DEF Ahead, Counting
        <3> QED
            BY <3>1, <3>4, <3>5
    <2> QED
        BY <1>c, <2>1
<1> HIDE DEF Right
<1>1. ASSUME NEW n \in Request, Reserve(n) PROVE CountInv'
    BY <1>1, <1>u DEF Reserve
<1>2. CASE Expand
    <2>1. tmp' = tmp
        BY <1>2, <1>t DEF Expand, Return, LocalInv
    <2> QED
        BY <1>2, <1>u, <2>1 DEF Expand, Return
<1>3. ASSUME NEW b \in Buf, Realloc(b) PROVE CountInv'
    <2>1. /\ pc = "realloc" /\ self # NULL /\ tmp = NULL /\ m_buffer \in Buf
          /\ count[m_buffer] = 1 /\ nsize > 0 /\ nsize \in Nat
          /\ alloc[m_buffer] > 0
        <3>1. pc = "realloc" /\ self # NULL /\ tmp = NULL /\ m_off = COUNTER /\ nsize >= m_used + req
            BY <1>3, <1>t, Busy DEF Realloc, LocalInv
        <3>2. /\ m_buffer \in Buf /\ COUNTER > 0 /\ COUNTER \in Nat /\ m_off <= m_used
              /\ m_used \in Nat /\ m_free \in Nat /\ m_used + m_free <= alloc[m_buffer]
              /\ alloc[m_buffer] \in Nat
            BY <3>1, Live
        <3>3. count[m_buffer] = 1
            BY <3>1 DEF IInv, BufferInv
        <3>4. req \in Nat /\ nsize \in Nat
            BY <1>t, Numbers
        <3> QED
            BY <3>1, <3>2, <3>3, <3>4
    <2>2. /\ alloc' = [alloc EXCEPT ![m_buffer] = 0, ![b] = nsize]
          /\ count' = [count EXCEPT ![m_buffer] = 0, ![b] = count[m_buffer]]
          /\ m_buffer' = b /\ tmp' = tmp /\ fins' = fins /\ pc' = "idle"
          /\ b = m_buffer \/ ~Allocated(b)
        BY <1>3, <2>1 DEF Realloc, Return
    <2>3. \A c \in Buf : Ahead(c)' = 0 /\ Ahead(c) = 0
        BY <2>1, <2>2 DEF Ahead, Counting
    <2>4. \A c \in Buf : \A h : h \in Holders(c)' <=> (h = <<NULL, 0>> /\ c = b) \/ Slot(c, h)
        BY <1>f, <2>1, <2>2, HoldersNext
    <2>5. Holders(m_buffer) = {<<NULL, 0>>}
        <3>1. <<NULL, 0>> \in Holders(m_buffer)
            BY <2>1, BufferHolds
        <3>2. \A h \in Holders(m_buffer) : h = <<NULL, 0>>
            BY <2>1, <3>1, LastHolder DEF Counting
        <3> QED
            BY <3>1, <3>2
    <2>6. \A h : ~Slot(m_buffer, h)
        BY <2>5, HoldersNow, SlotIsZone
    <2>7. ASSUME b # m_buffer PROVE \A h : ~Slot(b, h)
        <3>1. Holders(b) = {}
            BY <2>2, <2>7, HolderNone
        <3> QED
            BY <3>1, HoldersNow
    <2>8. ASSUME NEW c \in Buf, c = b PROVE Right(c)
        <3>1. Holders(c)' = {<<NULL, 0>>}
            BY <2>4, <2>6, <2>7, <2>8
        <3>2. count'[c] = 1 /\ alloc'[c] = nsize
            BY <1>t, <2>1, <2>2, <2>8 DEF HeapOK
        <3>3. IsFiniteSet({<<NULL, 0>>}) /\ Cardinality({<<NULL, 0>>}) = 1
            BY OneHolder
        <3> QED
            BY <2>1, <2>3, <3>1, <3>2, <3>3 DEF Right, Counted
    <2>9. ASSUME NEW c \in Buf, c # b, c = m_buffer PROVE Right(c)
        <3>1. Holders(c)' = {}
            BY <2>4, <2>6, <2>9
        <3>2. count'[c] = 0 /\ alloc'[c] = 0
            BY <1>t, <2>1, <2>2, <2>9 DEF HeapOK
        <3> QED
            BY <2>3, <3>1, <3>2, FS_EmptySet DEF Right, Counted
    <2>10. ASSUME NEW c \in Buf, c # b, c # m_buffer PROVE Right(c)
        <3>1. \A h : h \in Holders(c)' <=> h \in Holders(c)
            BY <2>1, <2>4, <2>10, HoldersNow
        <3>2. Holders(c)' = Holders(c)
            BY <3>1
        <3>3. count'[c] = count[c] /\ alloc'[c] = alloc[c]
            BY <1>t, <2>2, <2>10 DEF HeapOK
        <3> QED
            BY <1>k, <2>3, <3>2, <3>3
    <2> QED
        BY <1>c, <2>8, <2>9, <2>10
<1>4. ASSUME NEW b \in Buf, Malloc(b) PROVE CountInv'
    <2>1. /\ pc = "malloc" /\ self # NULL /\ tmp = NULL /\ m_buffer \in Buf /\ alloc[m_buffer] > 0
          /\ nsize > 0 /\ nsize \in Nat /\ ~Allocated(b)
        <3>1. pc = "malloc" /\ self # NULL /\ tmp = NULL /\ nsize >= Pending + COUNTER + req /\ ~Allocated(b)
            BY <1>4, <1>t, Busy DEF Malloc, LocalInv
        <3>2. /\ m_buffer \in Buf /\ COUNTER > 0 /\ COUNTER \in Nat /\ Pending \in Nat
              /\ m_used \in Nat /\ m_free \in Nat /\ m_used + m_free <= alloc[m_buffer]
              /\ alloc[m_buffer] \in Nat /\ COUNTER <= m_off /\ m_off <= m_used /\ m_off \in Nat
            BY <3>1, Live
        <3>3. req \in Nat /\ nsize \in Nat
            BY <1>t, Numbers
        <3> QED
            BY <3>1, <3>2, <3>3
    <2>2. b # m_buffer
        BY <2>1 DEF Allocated
    <2>3. /\ alloc' = [alloc EXCEPT ![b] = nsize] /\ count' = [count EXCEPT ![b] = 1]
          /\ tmp' = b /\ pc' = "swap" /\ UNCHANGED <<m_buffer, fins>>
        BY <1>4 DEF Malloc
    <2>4. \A c \in Buf : Ahead(c)' = 0 /\ Ahead(c) = 0
        BY <2>1, <2>3 DEF Ahead, Counting
    <2>5. \A c \in Buf : \A h : h \in Holders(c)' <=> (h = <<NULL, 1>> /\ c = b) \/ h \in Holders(c)
        BY <1>f, <2>1, <2>3, HoldersNow, HoldersNext
    <2>6. ASSUME NEW c \in Buf, c = b PROVE Right(c)
        <3>1. Holders(b) = {}
            BY <2>1, <2>2, HolderNone
        <3>2. Holders(c)' = {<<NULL, 1>>}
            BY <2>5, <2>6, <3>1
        <3>3. count'[c] = 1 /\ alloc'[c] = nsize
            BY <1>t, <2>3, <2>6 DEF HeapOK
        <3>4. IsFiniteSet({<<NULL, 1>>}) /\ Cardinality({<<NULL, 1>>}) = 1
            BY OneHolder
        <3> QED
            BY <2>1, <2>4, <3>2, <3>3, <3>4 DEF Right, Counted
    <2>7. ASSUME NEW c \in Buf, c # b PROVE Right(c)
        <3>1. Holders(c)' = Holders(c)
            BY <2>5, <2>7
        <3>2. count'[c] = count[c] /\ alloc'[c] = alloc[c]
            BY <1>t, <2>3, <2>7 DEF HeapOK
        <3> QED
            BY <1>k, <2>4, <3>1, <3>2
    <2> QED
        BY <1>c, <2>6, <2>7
<1>5. CASE OutOfMemory
    <2>1. tmp' = tmp
        BY <1>5, <1>t DEF OutOfMemory, Return, LocalInv
    <2> QED
        BY <1>5, <1>u, <2>1 DEF OutOfMemory, Return
<1>6. CASE Swap
    <2>1. /\ pc = "swap" /\ self # NULL /\ tmp \in Buf /\ tmp # NULL /\ tmp # m_buffer
          /\ count[tmp] = 1 /\ m_buffer \in Buf /\ finalizer[hook] = m_z /\ m_z \in Zone
        BY <1>6, <1>t, Busy, Live DEF Swap, LocalInv, Expanding
    <2>2. m_buffer' = tmp /\ tmp' = NULL /\ pc' = "idle"
        BY <1>6 DEF Swap, Return
    <2>3. \A c \in Buf : Ahead(c)' = 0 /\ Ahead(c) = 0 /\ Ahead(c)' = Ahead(c)
        BY <2>1, <2>2 DEF Ahead, Counting
    <2>4. Holders(tmp) = {<<NULL, 1>>}
        <3>1. <<NULL, 1>> \in Holders(tmp)
            BY <2>1, TmpHolds
        <3>2. \A h \in Holders(tmp) : h = <<NULL, 1>>
            BY <2>1, <3>1, LastHolder DEF Counting
        <3> QED
            BY <3>1, <3>2
    <2>5. \A h : ~Slot(tmp, h)
        BY <2>4, HoldersNow, SlotIsZone
    <2>6. ASSUME NEW c \in Buf, c = tmp, \A h : ~Slot(c, h)', count'[c] = count[c], alloc'[c] = alloc[c]
          PROVE  Right(c)
        <3>1. Holders(c)' = {<<NULL, 0>>}
            BY <2>1, <2>2, <2>6, HoldersNext
        <3>2. IsFiniteSet({<<NULL, 0>>}) /\ Cardinality({<<NULL, 0>>}) = 1
            BY OneHolder
        <3>3. alloc'[c] > 0 <=> count'[c] > 0
            BY <2>6, CountNow DEF Allocated
        <3> QED
            BY <2>1, <2>3, <2>6, <3>1, <3>2, <3>3 DEF Right, Counted
    <2>7. ASSUME NEW c \in Buf, c # tmp, c # m_buffer, \A h : Slot(c, h)' <=> Slot(c, h),
                 count'[c] = count[c], alloc'[c] = alloc[c]
          PROVE  Right(c)
        <3>1. \A h : h \in Holders(c)' <=> h \in Holders(c)
            BY <2>1, <2>2, <2>7, HoldersNow, HoldersNext
        <3>2. Holders(c)' = Holders(c)
            BY <3>1
        <3> QED
            BY <1>k, <2>3, <2>7, <3>2
    <2>8. CASE m_referenced
        <3>1. PushFinalizer(m_z, m_buffer) /\ UNCHANGED <<alloc, count>>
            BY <1>6, <2>1, <2>8 DEF Swap
        <3> DEFINE x == <<m_z, Len(fins[m_z]) + 1>>
        <3>2. \A c, h : /\ Slot(c, h)' <=> Slot(c, h) \/ (c = m_buffer /\ h = x)
                        /\ ~Slot(c, x)
            BY <1>t, <2>1, <3>1, PushSlot
        <3>3. ASSUME NEW c \in Buf, c = m_buffer PROVE Right(c)
            <4> DEFINE H == Holders(c)
                       K == H \ {<<NULL, 0>>}
            <4>1. <<NULL, 0>> \in H /\ x \notin H /\ x # <<NULL, 0>> /\ x # <<NULL, 1>>
                BY <2>1, <3>2, <3>3, BufferHolds, HoldersNow
            <4>2. \A h : h \in Holders(c)' <=> h \in K \/ h = x
                <5>1. \A h : h \in Holders(c)' <=> Slot(c, h)'
                    BY <2>1, <2>2, <3>3, HoldersNext
                <5>2. \A h : h \in K <=> Slot(c, h)
                    BY <2>1, <3>3, HoldersNow, SlotIsZone
                <5> HIDE DEF K, x
                <5> QED
                    BY <3>2, <3>3, <5>1, <5>2
            <4>3. Holders(c)' = K \cup {x}
                BY <4>2
            <4>4. /\ IsFiniteSet(H) /\ Cardinality(H) = count[c] + Ahead(c)
                  /\ (alloc[c] > 0 <=> count[c] > 0) /\ count[c] \in Nat
                BY CountNow DEF Allocated
            <4> HIDE DEF H, x
            <4>5. IsFiniteSet(K) /\ Cardinality(K) = Cardinality(H) - 1
                BY <4>1, <4>4, FS_RemoveElement
            <4>6. x \notin K
                BY <4>1
            <4> HIDE DEF K
            <4>7. IsFiniteSet(K \cup {x}) /\ Cardinality(K \cup {x}) = Cardinality(K) + 1
                BY <4>5, <4>6, FS_AddElement
            <4>8. Cardinality(K \cup {x}) = count'[c] + Ahead(c)
                BY <2>3, <3>1, <4>4, <4>5, <4>7
            <4> QED
                BY <2>3, <3>1, <4>3, <4>4, <4>7, <4>8 DEF Right, Counted
        <3> HIDE DEF x
        <3>4. ASSUME NEW c \in Buf, c = tmp PROVE Right(c)
            BY <2>1, <2>5, <2>6, <3>1, <3>2, <3>4
        <3>5. \A c \in Buf : c # tmp /\ c # m_buffer => Right(c)
            BY <2>7, <3>1, <3>2
        <3> QED
            BY <1>c, <3>3, <3>4, <3>5
    <2>9. CASE ~m_referenced
        <3>1. DecrAll(Once(m_buffer)) /\ UNCHANGED fins
            BY <1>6, <2>9 DEF Swap
        <3>2. /\ Counted(m_buffer, Holders(m_buffer) \ {<<NULL, 0>>})
              /\ \A c \in Buf : c # m_buffer => alloc'[c] = alloc[c] /\ count'[c] = count[c]
            BY <2>1, <3>1, BufferHolds, OnceEffect
        <3>3. \A c, h : Slot(c, h)' <=> Slot(c, h)
            BY <1>f, <3>1
        <3>4. ASSUME NEW c \in Buf, c = m_buffer PROVE Right(c)
            <4>1. \A h : h \in Holders(c)' <=> h \in Holders(c) /\ h # <<NULL, 0>>
                BY <2>1, <2>2, <3>3, <3>4, HoldersNow, HoldersNext, SlotIsZone
            <4>2. Holders(c)' = Holders(c) \ {<<NULL, 0>>}
                BY <4>1
            <4> QED
                BY <2>3, <3>2, <3>4, <4>2 DEF Right
        <3>5. ASSUME NEW c \in Buf, c = tmp PROVE Right(c)
            BY <2>1, <2>5, <2>6, <3>2, <3>3, <3>5
        <3>6. \A c \in Buf : c # tmp /\ c # m_buffer => Right(c)
            BY <2>7, <3>2, <3>3
        <3> QED
            BY <1>c, <3>4, <3>5, <3>6
    <2> QED
        BY <2>8, <2>9
<1>7. CASE SwapThrows
    <2>1. pc = "swap" /\ tmp \in Buf /\ tmp # NULL /\ tmp # m_buffer
        BY <1>7, <1>t DEF SwapThrows, LocalInv
    <2>2. DecrAll(Once(tmp)) /\ UNCHANGED <<m_buffer, fins>> /\ tmp' = NULL /\ pc' = "idle"
        BY <1>7 DEF SwapThrows, Return
    <2>3. /\ Counted(tmp, Holders(tmp) \ {<<NULL, 1>>})
          /\ \A c \in Buf : c # tmp => alloc'[c] = alloc[c] /\ count'[c] = count[c]
        BY <2>1, <2>2, TmpHolds, OnceEffect
    <2>4. \A c \in Buf : Ahead(c)' = Ahead(c)
        BY <2>1, <2>2 DEF Ahead, Counting
    <2>5. ASSUME NEW c \in Buf PROVE \A h : h \in Holders(c)' <=> h \in Holders(c) /\ h # <<NULL, 1>>
        BY <1>f, <2>2, HoldersNow, HoldersNext, SlotIsZone
    <2>6. ASSUME NEW c \in Buf, c = tmp PROVE Right(c)
        <3>1. Holders(c)' = Holders(c) \ {<<NULL, 1>>}
            BY <2>5
        <3> QED
            BY <2>3, <2>4, <2>6, <3>1 DEF Right
    <2>7. ASSUME NEW c \in Buf, c # tmp PROVE Right(c)
        <3>1. <<NULL, 1>> \notin Holders(c)
            BY <2>7, HoldersNow, SlotIsZone
        <3>2. Holders(c)' = Holders(c)
            BY <2>5, <3>1
        <3> QED
            BY <1>k, <2>3, <2>4, <2>7, <3>2
    <2> QED
        BY <1>c, <2>6, <2>7
<1>8. ASSUME NEW n \in 1 .. MaxBytes, Feed(n) \/ Skip(n) PROVE CountInv'
    BY <1>8, <1>u DEF Feed, Skip
<1>9. CASE Remove
    BY <1>9, <1>u DEF Remove
<1>10. ASSUME NEW n \in 0 .. MaxBytes, NEW c \in BOOLEAN, Next_Parse(n, c) \/ Next_Throws(n, c)
       PROVE  CountInv'
    BY <1>10, <1>u DEF Next_Parse, Next_Throws
<1>11. ASSUME NEW d \in {"unpacker", "app"}, Flush(d) PROVE CountInv'
    BY <1>11, <1>u DEF Flush
<1>12. CASE Flush_Unreferenced \/ Flush_Fails
    BY <1>12, <1>u DEF Flush_Unreferenced, Flush_Fails, AfterFlush
<1>13. CASE Flush_Push
    <2>1. m_z \in Zone /\ m_buffer \in Buf
        BY <1>13, Busy, Live DEF Flush_Push
    <2>2. /\ pc = "flush" /\ pc' = "incr" /\ PushFinalizer(m_z, m_buffer)
          /\ UNCHANGED <<m_buffer, tmp, alloc, count>>
        BY <1>13 DEF Flush_Push
    <2> DEFINE x == <<m_z, Len(fins[m_z]) + 1>>
    <2>3. \A c, h : /\ Slot(c, h)' <=> Slot(c, h) \/ (c = m_buffer /\ h = x)
                    /\ ~Slot(c, x)
        BY <1>t, <2>1, <2>2, PushSlot
    <2>4. x # <<NULL, 0>> /\ x # <<NULL, 1>>
        BY <2>1
    <2> HIDE DEF x
    <2>5. ASSUME NEW c \in Buf
          PROVE  \A h : h \in Holders(c)' <=> h \in Holders(c) \/ (c = m_buffer /\ h = x)
        BY <2>2, <2>3, HoldersNow, HoldersNext
    <2>6. ASSUME NEW c \in Buf
          PROVE  /\ IsFiniteSet(Holders(c)') /\ Cardinality(Holders(c)') = count'[c] + Ahead(c)'
                 /\ Allocated(c)' <=> count'[c] > 0
        <3>1. /\ IsFiniteSet(Holders(c)) /\ Cardinality(Holders(c)) = count[c] + Ahead(c)
              /\ (Allocated(c) <=> count[c] > 0) /\ count[c] \in Nat
            BY CountNow
        <3>2. Ahead(c) = 0 /\ Ahead(c)' = IF c = m_buffer THEN 1 ELSE 0
            BY <2>2 DEF Ahead, Counting
        <3>3. Allocated(c)' <=> count'[c] > 0
            BY <2>2, <3>1 DEF Allocated
        <3>4. CASE c = m_buffer
            <4>1. x \notin Holders(c)
                BY <2>3, <2>4, HoldersNow
            <4>2. Holders(c)' = Holders(c) \cup {x}
                BY <2>5, <3>4
            <4> DEFINE H == Holders(c)
            <4> HIDE DEF H
            <4>3. IsFiniteSet(H \cup {x}) /\ Cardinality(H \cup {x}) = Cardinality(H) + 1
                BY <3>1, <4>1, FS_AddElement DEF H
            <4> QED
                BY <2>2, <3>1, <3>2, <3>3, <3>4, <4>2, <4>3 DEF H
        <3>5. CASE c # m_buffer
            <4>1. Holders(c)' = Holders(c)
                BY <2>5, <3>5
            <4> QED
                BY <2>2, <3>1, <3>2, <3>3, <3>5, <4>1
        <3> QED
            BY <3>4, <3>5
    <2> QED
        BY <2>6, CountNext
<1>14. CASE Flush_Incr
    <2>1. m_buffer \in Buf /\ count[m_buffer] > 0
        BY <1>14, Busy, Live DEF Flush_Incr
    <2>2. /\ pc = "incr" /\ pc' # "incr" /\ count' = [count EXCEPT ![m_buffer] = @ + 1]
          /\ UNCHANGED <<m_buffer, tmp, fins, alloc>>
        BY <1>14 DEF Flush_Incr, AfterFlush
    <2>3. ASSUME NEW c \in Buf
          PROVE  /\ IsFiniteSet(Holders(c)') /\ Cardinality(Holders(c)') = count'[c] + Ahead(c)'
                 /\ Allocated(c)' <=> count'[c] > 0
        <3>1. /\ IsFiniteSet(Holders(c)) /\ Cardinality(Holders(c)) = count[c] + Ahead(c)
              /\ (Allocated(c) <=> count[c] > 0) /\ count[c] \in Nat
            BY CountNow
        <3>2. \A h : h \in Holders(c)' <=> h \in Holders(c)
            BY <1>f, <2>2, HoldersNow, HoldersNext
        <3>3. Holders(c)' = Holders(c)
            BY <3>2
        <3>4. Ahead(c)' = 0 /\ Ahead(c) = IF c = m_buffer THEN 1 ELSE 0
            BY <2>2 DEF Ahead, Counting
        <3>5. count'[c] = IF c = m_buffer THEN count[c] + 1 ELSE count[c]
            BY <1>t, <2>1, <2>2 DEF HeapOK
        <3> QED
            BY <2>1, <2>2, <3>1, <3>3, <3>4, <3>5 DEF Allocated
    <2> QED
        BY <2>3, CountNext
<1>15. ASSUME NEW zz \in Zone, Release(zz) PROVE CountInv'
    BY <1>15, <1>u DEF Release
<1>16. CASE Release_Throws
    BY <1>16, <1>u DEF Release_Throws
<1>17. CASE Deliver \/ Deliver_Nothing
    <2>1. SetResult /\ pc # "incr" /\ pc' # "incr" /\ UNCHANGED <<m_buffer, tmp>>
        BY <1>17 DEF Deliver, Deliver_Nothing
    <2>2. CASE result = NULL
        BY <1>u, <2>1, <2>2 DEF SetResult
    <2>3. CASE result # NULL
        <3>1. Empty(result) /\ result \in Zone
            BY <1>t, <2>1, <2>3 DEF SetResult, TypeOK
        <3> QED
            BY <1>e, <2>1, <3>1
    <2> QED
        BY <2>2, <2>3
<1>18. CASE Reset
    BY <1>18, <1>u DEF Reset
<1>19. CASE ResetZone
    BY <1>19, <1>e, Live DEF ResetZone
<1>20. CASE Result_Take
    BY <1>20, <1>u DEF Result_Take
<1>21. CASE Result_Drop
    <2>1. result \in Zone
        BY <1>21, <1>t DEF Result_Drop, TypeOK
    <2> QED
        BY <1>21, <1>e, <2>1 DEF Result_Drop
<1>22. ASSUME NEW zz \in Zone, App_FreeZone(zz) PROVE CountInv'
    <2>1. pc = "incr" => zz # m_z
        BY <1>22, Busy, Live DEF App_FreeZone
    <2> QED
        BY <1>22, <1>e, <2>1 DEF App_FreeZone
<1>23. ASSUME NEW o \in Object, Move(o) \/ DestroyShell(o) PROVE CountInv'
    BY <1>23, <1>u DEF Move, DestroyShell
<1>24. CASE Destroy
    <2>1. /\ pc = "idle" /\ pc' = "idle" /\ tmp' = tmp /\ tmp = NULL /\ m_buffer' = NULL
          /\ m_z \in Zone
        BY <1>24, <1>t, Live DEF Destroy, LocalInv
    <2>2. ASSUME NEW b \in Buf PROVE Right(b)
        <3>1. /\ Counted(b, (Holders(b) \ SlotsOf(m_z, b)) \ {<<NULL, 0>>})
              /\ \A h : Slot(b, h)' <=> Slot(b, h) /\ h \notin SlotsOf(m_z, b)
            BY <1>24, DestroyEffect
        <3>2. \A h : h \in Holders(b)' <=> Slot(b, h) /\ h \notin SlotsOf(m_z, b)
            BY <2>1, <3>1, HoldersNext
        <3>3. \A h : Slot(b, h) <=> h \in Holders(b) /\ h # <<NULL, 0>>
            BY <2>1, HoldersNow, SlotIsZone
        <3>4. Holders(b)' = (Holders(b) \ SlotsOf(m_z, b)) \ {<<NULL, 0>>}
            BY <3>2, <3>3
        <3>5. Ahead(b)' = Ahead(b)
            BY <2>1 DEF Ahead, Counting
        <3> QED
            BY <3>1, <3>4, <3>5 DEF Right
    <2> QED
        BY <1>c, <2>2
<1>25. CASE UNCHANGED vars
    <2>1. ASSUME NEW b \in Buf PROVE Right(b)
        <3>1. \A h : h \in Holders(b)' <=> h \in Holders(b)
            BY <1>25, <1>f, HoldersNow, HoldersNext DEF vars
        <3>2. Holders(b)' = Holders(b) /\ Ahead(b)' = Ahead(b)
            BY <1>25, <3>1 DEF vars, Ahead, Counting
        <3> QED
            BY <1>25, <1>k, <3>2 DEF vars
    <2> QED
        BY <1>c, <2>1
<1> QED
    BY <1>1, <1>2, <1>3, <1>4, <1>5, <1>6, <1>7, <1>8, <1>9, <1>10, <1>11, <1>12, <1>13,
       <1>14, <1>15, <1>16, <1>17, <1>18, <1>19, <1>20, <1>21, <1>22, <1>23, <1>24,
       <1>25 DEF Next
-----------------------------------------------------------------------------
(* The objects *)

\* What RefInv says of one reference of one zone.
RefOf(zz, r) ==
    /\ Read(r) = r[3]
    /\ COUNTER <= r[2]
    /\ r[1] = m_buffer => r[2] < m_off
    /\ Anchored(zz, r)

LEMMA RefNow ==
    ASSUME IInv, NEW zz \in Zone, NEW r \in refs[zz]
    PROVE  /\ r[1] \in Buf /\ r[2] \in Size /\ r[2] \in Nat /\ r[3] \in Stream
           /\ Read(r) = r[3] /\ COUNTER <= r[2] /\ (r[1] = m_buffer => r[2] < m_off)
           /\ Anchored(zz, r)
           /\ r[1] # m_buffer => HasFinalizer(zz, r[1])
           /\ alloc[r[1]] > 0
           /\ r[1] # tmp
           /\ r[1] = m_buffer => self # NULL
<1>1. r[1] \in Buf /\ r[2] \in Size /\ r[3] \in Stream
    <2> DEFINE T == Buf \X Size \X Stream
    <2>1. refs \in [Zone -> SUBSET T]
        BY DEF IInv, TypeOK
    <2>2. r \in T
        <3> HIDE DEF T
        <3> QED
            BY <2>1
    <2> QED
        BY <2>2
<1>2. /\ Read(r) = r[3] /\ COUNTER <= r[2] /\ (r[1] = m_buffer => r[2] < m_off)
      /\ Anchored(zz, r)
    BY DEF IInv, RefInv
<1>3. r[1] # m_buffer => HasFinalizer(zz, r[1])
    BY <1>2 DEF Anchored
<1>4. r[1] = m_buffer => self # NULL
    BY <1>1, CppUnpackerConstants DEF IInv, LocalInv
<1>5. alloc[r[1]] > 0
    <2>1. CASE r[1] = m_buffer
        BY <1>4, <2>1, Live
    <2>2. CASE r[1] # m_buffer
        <3>1. Holders(r[1]) # {}
            BY <1>3, <2>2, FinalizerHolds DEF HasFinalizer
        <3>2. Allocated(r[1])
            BY <1>1, <2>2, <3>1, HolderNone
        <3> QED
            BY <3>2 DEF Allocated
    <2> QED
        BY <2>1, <2>2
<1>6. r[1] # tmp
    <2> SUFFICES ASSUME r[1] = tmp PROVE FALSE
        OBVIOUS
    <2>1. tmp # NULL
        BY <1>1, CppUnpackerConstants
    <2> QED
        BY <1>3, <2>1, TmpUnknown
<1> QED
    BY <1>1, <1>2, <1>3, <1>4, <1>5, <1>6, SizeIs

LEMMA RefNext == ASSUME \A zz \in Zone : \A r \in refs'[zz] : RefOf(zz, r)' PROVE RefInv'
BY DEF RefInv, RefOf

\* A reference survives a step that leaves its block alone and keeps its anchor.
LEMMA RefKeep ==
    ASSUME IInv, NEW zz \in Zone, NEW r \in refs[zz],
           alloc'[r[1]] = alloc[r[1]], mem'[r[1]] = mem[r[1]],
           r[1] = m_buffer' => r[1] = m_buffer /\ m_off' >= m_off,
           HasFinalizer(zz, r[1])' \/ (zz = m_z' /\ r[1] = m_buffer' /\ m_referenced'),
           m_off' \in Nat
    PROVE  RefOf(zz, r)'
<1>1. /\ Read(r) = r[3] /\ COUNTER <= r[2] /\ (r[1] = m_buffer => r[2] < m_off) /\ r[2] \in Nat
    BY RefNow
<1>2. m_off \in Nat
    BY Numbers DEF IInv
<1>3. Read(r)' = r[3]
    BY <1>1 DEF Read
<1>4. r[1] = m_buffer' => r[2] < m_off'
    BY <1>1, <1>2
<1> QED
    BY <1>1, <1>3, <1>4 DEF RefOf, Anchored

LEMMA RefStep == IInv /\ [Next]_vars => RefInv'
<1> SUFFICES ASSUME IInv, [Next]_vars PROVE RefInv'
    OBVIOUS
<1> USE CppUnpackerConstants
<1>t. TypeOK /\ HeapOK /\ LocalInv /\ TypeOK' /\ m_off \in Nat /\ m_off' \in Nat
    <2>1. TypeOK /\ HeapOK /\ LocalInv
        BY TypeIs DEF IInv
    <2>2. TypeOK'
        BY TypeStep
    <2>3. m_off \in Nat /\ m_off' \in Nat
        BY <2>1, <2>2, SizeIs DEF TypeOK
    <2> QED
        BY <2>1, <2>2, <2>3
<1> USE DEF place, buffer, past, expand, heap, zones, next
\* A step that leaves the objects and their blocks alone.
<1>u. ASSUME UNCHANGED <<m_buffer, m_z, fins, refs, alloc, mem>>, m_off' >= m_off,
             m_referenced => m_referenced'
      PROVE  RefInv'
    <2>1. ASSUME NEW zz \in Zone, NEW r \in refs[zz] PROVE RefOf(zz, r)'
        <3>1. Anchored(zz, r)
            BY RefNow
        <3>2. HasFinalizer(zz, r[1])' <=> HasFinalizer(zz, r[1])
            BY <1>u DEF HasFinalizer
        <3> QED
            BY <1>t, <1>u, <3>1, <3>2, RefKeep DEF Anchored
    <2> QED
        BY <1>u, <2>1, RefNext
\* The finalizers of a zone run, and its objects are gone.
<1>e. ASSUME NEW zz \in Zone, Empty(zz), pc = "incr" => zz # m_z,
             UNCHANGED <<m_buffer, m_z, m_off, m_referenced>>
      PROVE  RefInv'
    <2>1. /\ refs'[zz] = {} /\ \A y \in Zone : y # zz => refs'[y] = refs[y]
          /\ \A y \in Zone, b \in Buf : y # zz /\ HasFinalizer(y, b) => Kept(b) /\ HasFinalizer(y, b)'
          /\ self # NULL => Kept(m_buffer)
        BY <1>e, EmptyEffect
    <2>2. ASSUME NEW y \in Zone, NEW r \in refs'[y] PROVE RefOf(y, r)'
        <3>1. y # zz /\ r \in refs[y]
            BY <2>1, <2>2
        <3>2. Anchored(y, r) /\ r[1] \in Buf /\ (r[1] = m_buffer => self # NULL)
            BY <3>1, RefNow
        <3>3. CASE HasFinalizer(y, r[1])
            <4>1. Kept(r[1]) /\ HasFinalizer(y, r[1])'
                BY <2>1, <3>1, <3>2, <3>3
            <4> QED
                BY <1>e, <1>t, <3>1, <4>1, RefKeep DEF Kept
        <3>4. CASE y = m_z /\ r[1] = m_buffer /\ m_referenced
            <4>1. alloc'[r[1]] = alloc[r[1]] /\ mem'[r[1]] = mem[r[1]]
                BY <2>1, <3>2, <3>4 DEF Kept
            <4> QED
                BY <1>e, <1>t, <3>1, <3>4, <4>1, RefKeep
        <3> QED
            BY <3>2, <3>3, <3>4 DEF Anchored
    <2> QED
        BY <2>2, RefNext
<1>1. ASSUME NEW n \in Request, Reserve(n) PROVE RefInv'
    BY <1>1, <1>t, <1>u DEF Reserve
<1>2. CASE Expand
    <2>1. UNCHANGED <<m_buffer, m_z, m_referenced, heap, zones>> /\ self # NULL /\ pc = "expand"
        BY <1>2, Busy DEF Expand
    <2>2. CASE CanRewind
        <3>1. count[m_buffer] = 1 /\ ~m_referenced
            BY <2>2 DEF CanRewind
        <3>2. ASSUME NEW zz \in Zone, NEW r \in refs[zz] PROVE RefOf(zz, r)'
            <4>1. Anchored(zz, r)
                BY RefNow
            <4>2. HasFinalizer(zz, r[1])
                BY <3>1, <4>1 DEF Anchored
            <4>3. r[1] # m_buffer
                BY <2>1, <3>1, <4>2, SoleOwner
            <4>4. HasFinalizer(zz, r[1])'
                BY <2>1, <4>2 DEF HasFinalizer
            <4> QED
                BY <1>t, <2>1, <4>3, <4>4, RefKeep
        <3> QED
            BY <2>1, <3>2, RefNext
    <2>3. CASE ~CanRewind
        BY <1>2, <1>t, <1>u, <2>1, <2>3 DEF Expand
    <2> QED
        BY <2>2, <2>3
<1>3. ASSUME NEW b \in Buf, Realloc(b) PROVE RefInv'
    <2>1. /\ m_off = COUNTER /\ m_buffer \in Buf /\ (b = m_buffer \/ ~Allocated(b))
        BY <1>3, <1>t, Busy, Live DEF Realloc, LocalInv
    <2>2. UNCHANGED <<fins, refs>> /\ m_buffer' = b
        BY <1>3 DEF Realloc
    <2>3. ASSUME NEW zz \in Zone, NEW r \in refs[zz] PROVE RefOf(zz, r)'
        <3>1. /\ r[1] \in Buf /\ r[2] \in Nat /\ COUNTER <= r[2] /\ (r[1] = m_buffer => r[2] < m_off)
              /\ alloc[r[1]] > 0 /\ (r[1] # m_buffer => HasFinalizer(zz, r[1]))
            BY RefNow
        <3>2. r[1] # m_buffer
            BY <1>t, <2>1, <3>1
        <3>3. r[1] # b
            BY <2>1, <3>1, <3>2 DEF Allocated
        <3>4. alloc'[r[1]] = alloc[r[1]] /\ mem'[r[1]] = mem[r[1]]
            BY <1>3, <1>t, <3>1, <3>2, <3>3 DEF Realloc, HeapOK
        <3>5. HasFinalizer(zz, r[1])'
            BY <2>2, <3>1, <3>2 DEF HasFinalizer
        <3> QED
            BY <1>t, <2>2, <3>3, <3>4, <3>5, RefKeep
    <2> QED
        BY <2>2, <2>3, RefNext
<1>4. ASSUME NEW b \in Buf, Malloc(b) PROVE RefInv'
    <2>1. UNCHANGED <<m_buffer, m_off, m_z, m_referenced, fins, refs>>
        BY <1>4 DEF Malloc
    <2>2. ASSUME NEW zz \in Zone, NEW r \in refs[zz] PROVE RefOf(zz, r)'
        <3>1. r[1] \in Buf /\ alloc[r[1]] > 0 /\ Anchored(zz, r)
            BY RefNow
        <3>2. r[1] # b
            BY <1>4, <3>1 DEF Malloc, Allocated
        <3>3. alloc'[r[1]] = alloc[r[1]] /\ mem'[r[1]] = mem[r[1]]
            BY <1>4, <1>t, <3>1, <3>2 DEF Malloc, HeapOK
        <3>4. HasFinalizer(zz, r[1])' <=> HasFinalizer(zz, r[1])
            BY <2>1 DEF HasFinalizer
        <3> QED
            BY <1>t, <2>1, <3>1, <3>3, <3>4, RefKeep DEF Anchored
    <2> QED
        BY <2>1, <2>2, RefNext
<1>5. CASE OutOfMemory
    BY <1>5, <1>t, <1>u DEF OutOfMemory
<1>6. CASE Swap
    <2>1. /\ pc = "swap" /\ self # NULL /\ tmp \in Buf /\ tmp # m_buffer
          /\ m_buffer \in Buf /\ finalizer[hook] = m_z /\ m_z \in Zone
        BY <1>6, <1>t, Busy, Live DEF Swap, LocalInv, Expanding
    <2>2. m_buffer' = tmp /\ UNCHANGED <<m_z, refs>>
        BY <1>6 DEF Swap
    <2>3. ASSUME NEW zz \in Zone, NEW r \in refs[zz],
                 alloc'[r[1]] = alloc[r[1]], mem'[r[1]] = mem[r[1]], HasFinalizer(zz, r[1])'
          PROVE  RefOf(zz, r)'
        <3>1. r[1] # tmp
            BY RefNow
        <3> QED
            BY <1>t, <2>2, <2>3, <3>1, RefKeep
    <2>4. CASE m_referenced
        <3>1. PushFinalizer(m_z, m_buffer) /\ UNCHANGED heap
            BY <1>6, <2>1, <2>4 DEF Swap
        <3>2. ASSUME NEW zz \in Zone, NEW r \in refs[zz] PROVE RefOf(zz, r)'
            <4>1. r[1] \in Buf /\ Anchored(zz, r)
                BY RefNow
            <4>2. CASE HasFinalizer(zz, r[1])
                BY <1>t, <2>1, <2>3, <3>1, <4>1, <4>2, PushEffect
            <4>3. CASE zz = m_z /\ r[1] = m_buffer
                <5>1. PushFinalizer(zz, r[1])
                    BY <3>1, <4>3
                <5>2. HasFinalizer(zz, r[1])'
                    BY <1>t, <4>1, <5>1, PushEffect
                <5> QED
                    BY <2>3, <3>1, <5>2
            <4> QED
                BY <4>1, <4>2, <4>3 DEF Anchored
        <3> QED
            BY <2>2, <3>2, RefNext
    <2>5. CASE ~m_referenced
        <3>1. DecrAll(Once(m_buffer)) /\ UNCHANGED fins
            BY <1>6, <2>5 DEF Swap
        <3>2. /\ \A c \in Buf : c # m_buffer => alloc'[c] = alloc[c] /\ mem'[c] = mem[c]
              /\ \A zz \in Zone : HasFinalizer(zz, m_buffer) => Kept(m_buffer)
            <4>1. <<NULL, 0>>[1] = NULL
                OBVIOUS
            <4> QED
                BY <2>1, <3>1, <4>1, BufferHolds, OnceEffect
        <3>3. ASSUME NEW zz \in Zone, NEW r \in refs[zz] PROVE RefOf(zz, r)'
            <4>1. r[1] \in Buf /\ HasFinalizer(zz, r[1])
                BY <2>5, RefNow DEF Anchored
            <4>2. alloc'[r[1]] = alloc[r[1]] /\ mem'[r[1]] = mem[r[1]]
                BY <3>2, <4>1 DEF Kept
            <4>3. HasFinalizer(zz, r[1])'
                BY <3>1, <4>1 DEF HasFinalizer
            <4> QED
                BY <2>3, <4>2, <4>3
        <3> QED
            BY <2>2, <3>3, RefNext
    <2> QED
        BY <2>4, <2>5
<1>7. CASE SwapThrows
    <2>1. /\ tmp \in Buf /\ tmp # NULL /\ pc = "swap" /\ DecrAll(Once(tmp))
          /\ UNCHANGED <<m_buffer, m_off, m_z, m_referenced, fins, refs>>
        BY <1>7, <1>t DEF SwapThrows, LocalInv
    <2>2. \A c \in Buf : c # tmp => alloc'[c] = alloc[c] /\ mem'[c] = mem[c]
        BY <2>1, TmpHolds, OnceEffect
    <2>3. ASSUME NEW zz \in Zone, NEW r \in refs[zz] PROVE RefOf(zz, r)'
        <3>1. r[1] \in Buf /\ r[1] # tmp /\ Anchored(zz, r)
            BY RefNow
        <3>2. HasFinalizer(zz, r[1])' <=> HasFinalizer(zz, r[1])
            BY <2>1 DEF HasFinalizer
        <3> QED
            BY <1>t, <2>1, <2>2, <3>1, <3>2, RefKeep DEF Anchored
    <2> QED
        BY <2>1, <2>3, RefNext
<1>8. ASSUME NEW n \in 1 .. MaxBytes, Feed(n) PROVE RefInv'
    <2>1. /\ m_buffer \in Buf /\ m_off <= m_used /\ m_used \in Nat
          /\ mem' = [mem EXCEPT ![m_buffer] = [i \in DOMAIN @ |->
                 IF i \in m_used .. m_used + n - 1 THEN received + i - m_used ELSE @[i]]]
          /\ UNCHANGED <<m_buffer, m_off, m_z, m_referenced, alloc, fins, refs>>
        BY <1>8, Live DEF Feed
    <2>2. ASSUME NEW zz \in Zone, NEW r \in refs[zz] PROVE RefOf(zz, r)'
        <3>1. /\ r[1] \in Buf /\ r[2] \in Nat /\ Read(r) = r[3] /\ COUNTER <= r[2]
              /\ (r[1] = m_buffer => r[2] < m_off) /\ Anchored(zz, r)
            BY RefNow
        <3>2. HasFinalizer(zz, r[1])' <=> HasFinalizer(zz, r[1])
            BY <2>1 DEF HasFinalizer
        <3>3. CASE r[1] # m_buffer
            <4>1. mem'[r[1]] = mem[r[1]]
                BY <1>t, <2>1, <3>1, <3>3 DEF HeapOK
            <4> QED
                BY <1>t, <2>1, <3>1, <3>2, <4>1, RefKeep DEF Anchored
        <3>4. CASE r[1] = m_buffer
            <4>1. DOMAIN mem[m_buffer] = 0 .. alloc[m_buffer] - 1
                BY <1>t, <2>1 DEF HeapOK
            <4>2. mem'[m_buffer] = [i \in 0 .. alloc[m_buffer] - 1 |->
                     IF i \in m_used .. m_used + n - 1 THEN received + i - m_used
                                                       ELSE mem[m_buffer][i]]
                BY <1>t, <2>1, <4>1 DEF HeapOK
            <4>3. r[2] \notin m_used .. m_used + n - 1
                BY <1>t, <2>1, <3>1, <3>4
            <4>4. Read(r)' = Read(r)
                BY <2>1, <3>4, <4>2, <4>3 DEF Read
            <4> QED
                BY <2>1, <3>1, <3>2, <4>4 DEF RefOf, Anchored
        <3> QED
            BY <3>3, <3>4
    <2> QED
        BY <2>1, <2>2, RefNext
<1>9. ASSUME NEW n \in 1 .. MaxBytes, Skip(n) PROVE RefInv'
    BY <1>9, <1>t, <1>u DEF Skip
<1>10. CASE Remove
    BY <1>10, <1>t, <1>u DEF Remove
\* n bytes are parsed, and an object may refer to one.
<1>o. ASSUME NEW n \in Nat, self # NULL, n <= Pending, Objects(n), m_off' = m_off + n,
             UNCHANGED <<m_buffer, m_z, fins, alloc, mem>>
      PROVE  RefInv'
    <2>1. CASE UNCHANGED <<m_referenced, refs>>
        BY <1>t, <1>o, <1>u, <2>1
    <2>2. ASSUME NEW i \in m_off .. m_off + n - 1, m_referenced' = TRUE,
                 refs' = [refs EXCEPT ![m_z] = @ \cup {<<m_buffer, i, Read(<<m_buffer, i>>)>>}]
          PROVE  RefInv'
        <3> DEFINE p == <<m_buffer, i, Read(<<m_buffer, i>>)>>
        <3>1. m_z \in Zone /\ refs \in [Zone -> SUBSET (Buf \X Size \X Stream)]
            BY <1>o, <1>t, Live DEF TypeOK
        <3>2. \A zz \in Zone : refs'[zz] = IF zz = m_z THEN refs[zz] \cup {p} ELSE refs[zz]
            BY <2>2, <3>1
        <3>3. ASSUME NEW zz \in Zone, NEW r \in refs[zz] PROVE RefOf(zz, r)'
            <4>1. Anchored(zz, r)
                BY RefNow
            <4>2. HasFinalizer(zz, r[1])' <=> HasFinalizer(zz, r[1])
                BY <1>o DEF HasFinalizer
            <4> QED
                BY <1>t, <1>o, <2>2, <4>1, <4>2, RefKeep DEF Anchored
        <3>4. ASSUME NEW zz \in Zone, zz = m_z, NEW r, r = p PROVE RefOf(zz, r)'
            <4>1. i \in m_off .. m_off + Pending - 1 /\ i < m_off'
                BY <1>t, <1>o, Live
            <4>2. COUNTER <= i
                BY <1>o, <4>1, ParsedByte
            <4>3. r[1] = m_buffer /\ r[2] = i /\ r[3] = Read(<<m_buffer, i>>)
                BY <3>4
            <4>4. Read(r)' = r[3]
                BY <1>o, <4>3 DEF Read
            <4> QED
                BY <1>o, <2>2, <3>4, <4>1, <4>2, <4>3, <4>4 DEF RefOf, Anchored
        <3> HIDE DEF p
        <3>5. ASSUME NEW zz \in Zone, NEW r \in refs'[zz] PROVE RefOf(zz, r)'
            <4>1. r \in refs[zz] \/ (zz = m_z /\ r = p)
                BY <3>2
            <4> QED
                BY <3>3, <3>4, <4>1
        <3> QED
            BY <3>5, RefNext
    <2> QED
        BY <1>o, <2>1, <2>2 DEF Objects
<1>11. ASSUME NEW n \in 0 .. MaxBytes, NEW c \in BOOLEAN, Next_Parse(n, c) PROVE RefInv'
    BY <1>11, <1>o DEF Next_Parse
<1>12. ASSUME NEW n \in 0 .. MaxBytes, NEW e \in BOOLEAN, Next_Throws(n, e) PROVE RefInv'
    <2>1. CASE e
        BY <1>12, <1>o, <2>1 DEF Next_Throws
    <2>2. CASE ~e
        <3>1. /\ UNCHANGED <<m_buffer, m_z, m_off, fins, refs, alloc, mem>>
              /\ m_referenced => m_referenced'
            BY <1>12, <2>2 DEF Next_Throws
        <3> QED
            BY <1>t, <1>u, <3>1
    <2> QED
        BY <2>1, <2>2
<1>13. ASSUME NEW d \in {"unpacker", "app"}, Flush(d) PROVE RefInv'
    BY <1>13, <1>t, <1>u DEF Flush
<1>14. CASE Flush_Unreferenced \/ Flush_Incr \/ Flush_Fails
    BY <1>14, <1>t, <1>u DEF Flush_Unreferenced, Flush_Incr, Flush_Fails
<1>15. CASE Flush_Push
    <2>1. /\ m_z \in Zone /\ m_buffer \in Buf /\ PushFinalizer(m_z, m_buffer)
          /\ UNCHANGED <<m_buffer, m_off, m_z, heap, refs>>
        BY <1>15, Busy, Live DEF Flush_Push
    <2>2. ASSUME NEW zz \in Zone, NEW r \in refs[zz] PROVE RefOf(zz, r)'
        <3>1. r[1] \in Buf /\ Anchored(zz, r)
            BY RefNow
        <3>2. CASE HasFinalizer(zz, r[1])
            <4>1. HasFinalizer(zz, r[1])'
                BY <1>t, <2>1, <3>1, <3>2, PushEffect
            <4> QED
                BY <1>t, <2>1, <4>1, RefKeep
        <3>3. CASE zz = m_z /\ r[1] = m_buffer
            <4>1. PushFinalizer(zz, r[1])
                BY <2>1, <3>3
            <4>2. HasFinalizer(zz, r[1])'
                BY <1>t, <3>1, <4>1, PushEffect
            <4> QED
                BY <1>t, <2>1, <4>2, RefKeep
        <3> QED
            BY <3>1, <3>2, <3>3 DEF Anchored
    <2> QED
        BY <2>1, <2>2, RefNext
<1>16. ASSUME NEW zz \in Zone, Release(zz) PROVE RefInv'
    <2>1. ~m_referenced /\ UNCHANGED <<m_buffer, m_off, heap, fins, refs>>
        BY <1>16, <1>t DEF Release, LocalInv
    <2>2. ASSUME NEW y \in Zone, NEW r \in refs[y] PROVE RefOf(y, r)'
        <3>1. HasFinalizer(y, r[1])
            BY <2>1, RefNow DEF Anchored
        <3>2. HasFinalizer(y, r[1])'
            BY <2>1, <3>1 DEF HasFinalizer
        <3> QED
            BY <1>t, <2>1, <3>2, RefKeep
    <2> QED
        BY <2>1, <2>2, RefNext
<1>17. CASE Release_Throws
    BY <1>17, <1>t, <1>u DEF Release_Throws
<1>18. CASE Deliver \/ Deliver_Nothing
    <2>1. SetResult /\ pc # "incr" /\ UNCHANGED <<m_buffer, m_z, m_off, m_referenced>>
        BY <1>18 DEF Deliver, Deliver_Nothing
    <2>2. CASE result = NULL
        BY <1>t, <1>u, <2>1, <2>2 DEF SetResult
    <2>3. CASE result # NULL
        <3>1. Empty(result) /\ result \in Zone
            BY <1>t, <2>1, <2>3 DEF SetResult, TypeOK
        <3> QED
            BY <1>e, <2>1, <3>1
    <2> QED
        BY <2>2, <2>3
<1>19. CASE Reset
    BY <1>19, <1>t, <1>u DEF Reset
<1>20. CASE ResetZone
    BY <1>20, <1>e, Live DEF ResetZone
<1>21. CASE Result_Take
    BY <1>21, <1>t, <1>u DEF Result_Take
<1>22. CASE Result_Drop
    <2>1. result \in Zone
        BY <1>22, <1>t DEF Result_Drop, TypeOK
    <2> QED
        BY <1>22, <1>e, <2>1 DEF Result_Drop
<1>23. ASSUME NEW zz \in Zone, App_FreeZone(zz) PROVE RefInv'
    <2>1. pc = "incr" => zz # m_z
        BY <1>23, Busy, Live DEF App_FreeZone
    <2> QED
        BY <1>23, <1>e, <2>1 DEF App_FreeZone
<1>24. ASSUME NEW o \in Object, Move(o) \/ DestroyShell(o) PROVE RefInv'
    BY <1>24, <1>t, <1>u DEF Move, DestroyShell
<1>25. CASE Destroy
    <2>1. /\ refs'[m_z] = {} /\ \A y \in Zone : y # m_z => refs'[y] = refs[y]
          /\ \A y \in Zone, b \in Buf : y # m_z /\ HasFinalizer(y, b) => Kept(b) /\ HasFinalizer(y, b)'
          /\ m_buffer' = NULL
        BY <1>25, DestroyEffect DEF Destroy
    <2>2. ASSUME NEW y \in Zone, NEW r \in refs'[y] PROVE RefOf(y, r)'
        <3>1. y # m_z /\ r \in refs[y]
            BY <2>1, <2>2
        <3>2. r[1] \in Buf /\ HasFinalizer(y, r[1])
            BY <3>1, RefNow DEF Anchored
        <3>3. Kept(r[1]) /\ HasFinalizer(y, r[1])' /\ r[1] # m_buffer'
            BY <2>1, <3>1, <3>2
        <3> QED
            BY <1>t, <3>1, <3>3, RefKeep DEF Kept
    <2> QED
        BY <2>2, RefNext
<1>26. CASE UNCHANGED vars
    BY <1>26, <1>t, <1>u DEF vars
<1> QED
    BY <1>1, <1>2, <1>3, <1>4, <1>5, <1>6, <1>7, <1>8, <1>9, <1>10, <1>11, <1>12, <1>13,
       <1>14, <1>15, <1>16, <1>17, <1>18, <1>19, <1>20, <1>21, <1>22, <1>23, <1>24,
       <1>25, <1>26 DEF Next
-----------------------------------------------------------------------------
(* The promise of reserve_buffer *)

LEMMA GrantStep == IInv /\ [Next]_vars => ReserveKept'
<1> SUFFICES ASSUME IInv, [Next]_vars PROVE ReserveKept'
    OBVIOUS
<1> USE CppUnpackerConstants
<1>t. TypeOK /\ LocalInv /\ granted <= m_free
    BY DEF IInv, ReserveKept
<1>n. /\ m_used \in Nat /\ m_free \in Nat /\ m_off \in Nat /\ req \in Nat /\ nsize \in Nat
      /\ nsize \in Size /\ granted \in Nat /\ COUNTER \in Nat
    BY <1>t, Numbers, SizeIs DEF TypeOK
<1> USE DEF place, buffer, past, expand, heap, zones, next
<1>u. ASSUME UNCHANGED <<granted, m_free>> PROVE ReserveKept'
    BY <1>t, <1>u DEF ReserveKept
<1>1. ASSUME NEW n \in Request, Reserve(n) PROVE ReserveKept'
    BY <1>1, <1>n DEF Reserve, ReserveKept
<1>2. CASE Expand
    <2>1. m_free' \in Nat /\ m_free' >= m_free
        BY <1>2, <1>n, Busy, Live DEF Expand
    <2>2. granted' = granted \/ (granted' = req /\ m_free' >= req)
        BY <1>2 DEF Expand
    <2> QED
        BY <1>t, <1>n, <2>1, <2>2 DEF ReserveKept
<1>3. ASSUME NEW b \in Buf, Realloc(b) PROVE ReserveKept'
    <2>1. nsize >= m_used + req /\ m_free' = Wrap(nsize - m_used) /\ granted' = req
        BY <1>3, <1>t DEF Realloc, LocalInv
    <2>2. nsize - m_used \in Size
        BY <1>n, <2>1, SizeIs
    <2>3. m_free' = nsize - m_used
        BY <2>1, <2>2, WrapSmall
    <2> QED
        BY <1>n, <2>1, <2>3 DEF ReserveKept
<1>4. ASSUME NEW b \in Buf, Malloc(b) PROVE ReserveKept'
    BY <1>4, <1>u DEF Malloc
<1>5. CASE Swap
    <2>1. /\ nsize >= Pending + COUNTER + req /\ Pending \in Nat
          /\ m_free' = Wrap(nsize - (Pending + COUNTER)) /\ granted' = req
        BY <1>5, <1>t, Busy, Live DEF Swap, LocalInv
    <2>2. nsize - (Pending + COUNTER) \in Size
        BY <1>n, <2>1, SizeIs
    <2>3. m_free' = nsize - (Pending + COUNTER)
        BY <2>1, <2>2, WrapSmall
    <2> QED
        BY <1>n, <2>1, <2>3 DEF ReserveKept
<1>6. CASE OutOfMemory \/ SwapThrows
    BY <1>6, <1>u DEF OutOfMemory, SwapThrows
<1>7. ASSUME NEW n \in 1 .. MaxBytes, Feed(n) PROVE ReserveKept'
    BY <1>7, <1>n DEF Feed, ReserveKept
<1>8. ASSUME NEW n \in 1 .. MaxBytes, Skip(n) PROVE ReserveKept'
    BY <1>8, <1>u DEF Skip
<1>9. CASE Remove
    BY <1>9, <1>u DEF Remove
<1>10. ASSUME NEW n \in 0 .. MaxBytes, NEW c \in BOOLEAN, Next_Parse(n, c) \/ Next_Throws(n, c)
       PROVE  ReserveKept'
    <2>1. granted' = 0 /\ m_free' = m_free
        BY <1>10 DEF Next_Parse, Next_Throws
    <2> QED
        BY <1>n, <2>1 DEF ReserveKept
<1>11. ASSUME NEW d \in {"unpacker", "app"}, Flush(d) PROVE ReserveKept'
    BY <1>11, <1>u DEF Flush
<1>12. CASE Flush_Unreferenced \/ Flush_Push \/ Flush_Incr \/ Flush_Fails
    BY <1>12, <1>u DEF Flush_Unreferenced, Flush_Push, Flush_Incr, Flush_Fails
<1>13. ASSUME NEW zz \in Zone, Release(zz) \/ App_FreeZone(zz) PROVE ReserveKept'
    BY <1>13, <1>u DEF Release, App_FreeZone
<1>14. CASE Release_Throws \/ Deliver \/ Deliver_Nothing
    BY <1>14, <1>u DEF Release_Throws, Deliver, Deliver_Nothing
<1>15. CASE Reset \/ ResetZone \/ Result_Take \/ Result_Drop
    BY <1>15, <1>u DEF Reset, ResetZone, Result_Take, Result_Drop
<1>16. ASSUME NEW o \in Object, Move(o) \/ DestroyShell(o) PROVE ReserveKept'
    BY <1>16, <1>u DEF Move, DestroyShell
<1>17. CASE Destroy
    BY <1>17, <1>n DEF Destroy, ReserveKept
<1>18. CASE UNCHANGED vars
    BY <1>18, <1>u DEF vars
<1> QED
    BY <1>1, <1>2, <1>3, <1>4, <1>5, <1>6, <1>7, <1>8, <1>9, <1>10, <1>11, <1>12, <1>13,
       <1>14, <1>15, <1>16, <1>17, <1>18 DEF Next
-----------------------------------------------------------------------------
(* The invariant *)

LEMMA StepInv == ASSUME ~MoveFreely PROVE IInv /\ [Next]_vars => IInv'
BY TypeStep, LocalStep, ZoneStep, BufferStep, CountStep, RefStep, GrantStep DEF IInv

LEMMA Invariance == ASSUME ~MoveFreely PROVE Spec => []IInv
BY InitInv, StepInv, PTL DEF Spec

\* Every variable keeps its type, all numbers their width.
THEOREM CppUnpackerTypeOK == ASSUME ~MoveFreely PROVE Spec => []TypeOK
<1>1. IInv => TypeOK
    BY DEF IInv
<1> QED
    BY <1>1, Invariance, PTL

\* An object reads the bytes its message had, as long as its zone lives, whatever
\* the unpacker did to its buffer since, wherever it was moved and whatever threw.
THEOREM CppUnpackerObjectsIntact == ASSUME ~MoveFreely PROVE Spec => []ObjectsIntact
<1>1. IInv => ObjectsIntact
    BY DEF IInv, RefInv, ObjectsIntact
<1> QED
    BY <1>1, Invariance, PTL

\* The counter of a block is the number of those who will decrement it, one less
\* between the two calls of flush_zone.
LEMMA CppUnpackerCountExact == ASSUME ~MoveFreely PROVE Spec => []CountExact
<1>1. IInv => CountExact
    BY DEF IInv, CountInv
<1> QED
    BY <1>1, Invariance, PTL

\* A block is allocated as long as somebody holds it, and no longer.
LEMMA CppUnpackerHeldIffAllocated == ASSUME ~MoveFreely PROVE Spec => []HeldIffAllocated
<1>1. ASSUME IInv, NEW b \in Buf PROVE Allocated(b) <=> Holders(b) # {}
    <2>1. /\ IsFiniteSet(Holders(b)) /\ Cardinality(Holders(b)) = count[b] + Ahead(b)
          /\ (Allocated(b) <=> count[b] > 0) /\ count[b] \in Nat
        BY <1>1, CountNow
    <2>2. Holders(b) = {} <=> Cardinality(Holders(b)) = 0
        BY <2>1, FS_EmptySet
    <2>3. Ahead(b) = 1 => count[b] > 0
        BY <1>1, Busy, Live DEF Ahead, Counting
    <2>4. Ahead(b) \in {0, 1}
        BY DEF Ahead
    <2> QED
        BY <2>1, <2>2, <2>3, <2>4
<1>2. IInv => HeldIffAllocated
    BY <1>1 DEF HeldIffAllocated
<1> QED
    BY <1>2, Invariance, PTL

\* realloc moves the bytes of a block that nobody else counts on, and that no object
\* points into.
LEMMA CppUnpackerReallocSafe == ASSUME ~MoveFreely PROVE Spec => []ReallocSafe
<1>1. ASSUME IInv, pc = "realloc"
      PROVE  count[m_buffer] = 1 /\ \A zz \in Zone : \A r \in refs[zz] : r[1] # m_buffer
    <2>1. self # NULL /\ m_off = COUNTER /\ m_off \in Nat
        BY <1>1, Busy, Numbers DEF IInv, LocalInv
    <2>2. count[m_buffer] = 1
        BY <1>1, <2>1 DEF IInv, BufferInv
    <2>3. ASSUME NEW zz \in Zone, NEW r \in refs[zz] PROVE r[1] # m_buffer
        <3>1. r[2] \in Nat /\ COUNTER <= r[2] /\ (r[1] = m_buffer => r[2] < m_off)
            BY <1>1, RefNow
        <3> QED
            BY <2>1, <3>1
    <2> QED
        BY <2>2, <2>3
<1>2. IInv => ReallocSafe
    BY <1>1 DEF ReallocSafe
<1> QED
    BY <1>2, Invariance, PTL

\* The hook is a member of an unpacker that exists, and knows the zone of the
\* objects that refer to the block it saves.
LEMMA CppUnpackerHookOwn == ASSUME ~MoveFreely PROVE Spec => []HookOwn
<1>1. ASSUME IInv, pc = "swap" PROVE hook \in shells \cup {self} /\ finalizer[hook] = m_z
    BY <1>1, Busy, Live DEF IInv, LocalInv, Expanding
<1>2. IInv => HookOwn
    BY <1>1 DEF HookOwn
<1> QED
    BY <1>2, Invariance, PTL

\* Nobody uses memory that is not his, and none is lost, also when memory runs out
\* in the middle of a call.
THEOREM CppUnpackerBlocksCounted == ASSUME ~MoveFreely PROVE Spec => []BlocksCounted
BY CppUnpackerCountExact, CppUnpackerHeldIffAllocated, CppUnpackerReallocSafe,
   CppUnpackerHookOwn, PTL DEF BlocksCounted

\* What is not parsed stays at m_off, the room is behind it and as large as was
\* asked for, and parsed_size is what the message has taken.
THEOREM CppUnpackerBufferExact == ASSUME ~MoveFreely PROVE Spec => []BufferExact
<1>1. IInv => BufferExact
    BY DEF IInv, BufferInv, BufferExact
<1> QED
    BY <1>1, Invariance, PTL
-----------------------------------------------------------------------------
(* The buffers are invisible *)

\* The bytes the objects of each zone were made of.
MadeOf == [zz \in Zone |-> {r[3] : r \in refs[zz]}]

\* What the objects read is what they were made of, now and after a step.
LEMMA HeldNow ==
    ASSUME IInv PROVE [zz \in Zone |-> {Read(r) : r \in refs[zz]}] = MadeOf
<1>1. \A zz \in Zone : \A r \in refs[zz] : Read(r) = r[3]
    BY DEF IInv, RefInv
<1>2. \A zz \in Zone : {Read(r) : r \in refs[zz]} = {r[3] : r \in refs[zz]}
    BY <1>1
<1> QED
    BY <1>2 DEF MadeOf

LEMMA HeldNext ==
    ASSUME IInv' PROVE [zz \in Zone |-> {Read(r) : r \in refs[zz]}]' = MadeOf'
<1>1. \A zz \in Zone : \A r \in refs'[zz] : Read(r)' = r[3]
    BY DEF IInv, RefInv
<1>2. \A zz \in Zone : {Read(r)' : r \in refs'[zz]} = {r[3] : r \in refs'[zz]}
    BY <1>1
<1> QED
    BY <1>2 DEF MadeOf

LEMMA InitImplements == Init => App!Init
<1> SUFFICES ASSUME Init PROVE App!Init
    OBVIOUS
<1>1. received = 0
    BY CppUnpackerConstants DEF Init, received, Pending
<1>2. [zz \in Zone |-> {Read(r) : r \in refs[zz]}] = [zz \in Zone |-> {}]
    BY DEF Init
<1> QED
    BY <1>1, <1>2 DEF App!Init, Init

LEMMA StepImplements == IInv /\ IInv' /\ [Next]_vars => [App!Next]_(App!vars)
<1> SUFFICES ASSUME IInv, IInv', [Next]_vars PROVE [App!Next]_(App!vars)
    OBVIOUS
<1> USE CppUnpackerConstants
<1>t. TypeOK /\ LocalInv /\ ZoneInv
    BY DEF IInv
<1>n. /\ m_used \in Nat /\ m_free \in Nat /\ m_off \in Nat /\ COUNTER \in Nat /\ consumed \in Nat
    BY <1>t, Numbers, SizeIs
<1>h. /\ [zz \in Zone |-> {Read(r) : r \in refs[zz]}] = MadeOf
      /\ [zz \in Zone |-> {Read(r) : r \in refs[zz]}]' = MadeOf'
    BY HeldNow, HeldNext
<1>o. DOMAIN refs = Zone
    BY <1>t DEF TypeOK
<1> USE DEF place, buffer, past, expand, heap, zones, next
\* Steps the application does not see.
<1>u. ASSUME received' = received, consumed' = consumed, refs' = refs
      PROVE  UNCHANGED App!vars
    <2>1. MadeOf' = MadeOf
        BY <1>u DEF MadeOf
    <2> QED
        BY <1>h, <1>u, <2>1 DEF App!vars
<1>k. UNCHANGED <<m_used, m_off, consumed>> => received' = received
    BY DEF received, Pending
\* Steps that free or clear a zone.
<1>b. ASSUME NEW zz \in Zone, refs' = [refs EXCEPT ![zz] = {}],
             received' = received, consumed' = consumed
      PROVE  App!Drop(zz)
    <2>1. refs'[zz] = {} /\ \A y \in Zone : y # zz => refs'[y] = refs[y]
        BY <1>b, <1>o
    <2>2. \A y \in Zone : MadeOf'[y] = IF y = zz THEN {} ELSE MadeOf[y]
        BY <2>1 DEF MadeOf
    <2>3. MadeOf' = [MadeOf EXCEPT ![zz] = {}]
        BY <2>2 DEF MadeOf
    <2> QED
        BY <1>b, <1>h, <2>3 DEF App!Drop
\* Steps that parse or skip bytes.
<1>c. ASSUME consumed' \in consumed .. received, received' = received, refs' = refs
      PROVE  App!Consume
    <2>1. MadeOf' = MadeOf
        BY <1>c DEF MadeOf
    <2> QED
        BY <1>c, <1>h, <2>1 DEF App!Consume
<1>p. ASSUME NEW n \in Nat, self # NULL, n <= Pending,
             m_off' = m_off + n, consumed' = consumed + n, m_used' = m_used
      PROVE  /\ received' = received /\ consumed' \in consumed .. received
             /\ Pending \in Nat /\ received = consumed + Pending
    <2>1. Pending \in Nat /\ received = consumed + Pending
        BY <1>p, Live
    <2>2. received' = received
        BY <1>n, <1>p DEF received, Pending
    <2> QED
        BY <1>n, <1>p, <2>1, <2>2
<1>q. ASSUME NEW n \in Nat, self # NULL, n <= Pending, Objects(n),
             m_off' = m_off + n, consumed' = consumed + n, m_used' = m_used
      PROVE  App!Consume
    <2>1. received' = received /\ consumed' \in consumed .. received /\ Pending \in Nat
        BY <1>p, <1>q
    <2>2. CASE refs' = refs
        BY <1>c, <2>1, <2>2
    <2>3. ASSUME NEW i \in m_off .. m_off + n - 1,
                 refs' = [refs EXCEPT ![m_z] = @ \cup {<<m_buffer, i, Read(<<m_buffer, i>>)>>}]
          PROVE  App!Consume
        <3> DEFINE c == Read(<<m_buffer, i>>)
                   r0 == <<m_buffer, i, c>>
        <3>1. m_z \in Zone
            BY <1>q, Live
        <3>2. c = consumed + (i - m_off) /\ c \in consumed .. consumed' - 1
            <4>1. i \in m_off .. m_off + Pending - 1 /\ i - m_off \in 0 .. n - 1
                BY <1>n, <1>q, <2>1
            <4>2. c = consumed + (i - m_off)
                BY <1>q, <4>1, ParsedByte
            <4> HIDE DEF c
            <4> QED
                BY <1>n, <1>q, <4>1, <4>2
        <3>3. PICK y \in Zone : y = m_z
            BY <3>1
        <3>4. refs'[y] = refs[y] \cup {r0} /\ \A x \in Zone : x # y => refs'[x] = refs[x]
            BY <1>o, <2>3, <3>3
        <3>5. PICK d : d = c
            OBVIOUS
        <3>6. MadeOf'[y] = MadeOf[y] \cup {d}
            <4>1. r0[3] = d
                BY <3>5
            <4>2. PICK q : q = r0
                OBVIOUS
            <4> HIDE DEF r0, c
            <4>3. {r[3] : r \in refs[y] \cup {q}} = {r[3] : r \in refs[y]} \cup {q[3]}
                OBVIOUS
            <4>4. {r[3] : r \in refs'[y]} = {r[3] : r \in refs[y]} \cup {d}
                BY <3>4, <4>1, <4>2, <4>3
            <4> QED
                BY <4>4 DEF MadeOf
        <3>7. \A x \in Zone : x # y => MadeOf'[x] = MadeOf[x]
            BY <3>4 DEF MadeOf
        <3>8. MadeOf' = [MadeOf EXCEPT ![y] = @ \cup {d}]
            BY <3>6, <3>7 DEF MadeOf
        <3>9. {d} \in SUBSET (consumed .. consumed' - 1)
            BY <3>2, <3>5
        <3> HIDE DEF c, r0
        <3> QED
            BY <1>h, <2>1, <3>8, <3>9 DEF App!Consume
    <2> QED
        BY <1>q, <2>2, <2>3 DEF Objects
<1>1. ASSUME NEW n \in Request, Reserve(n) PROVE UNCHANGED App!vars
    BY <1>1, <1>u, <1>k DEF Reserve
<1>2. CASE Expand
    <2>1. UNCHANGED <<consumed, refs>>
        BY <1>2 DEF Expand
    <2>2. m_used' - m_off' = m_used - m_off
        BY <1>2, <1>n DEF Expand, CanRewind
    <2>3. received' = received
        BY <2>1, <2>2 DEF received, Pending
    <2> QED
        BY <1>u, <2>1, <2>3
<1>3. ASSUME NEW b \in Buf, Realloc(b) \/ Malloc(b) PROVE UNCHANGED App!vars
    BY <1>3, <1>u, <1>k DEF Realloc, Malloc
<1>4. CASE OutOfMemory \/ SwapThrows
    BY <1>4, <1>u, <1>k DEF OutOfMemory, SwapThrows
<1>5. CASE Swap
    <2>1. UNCHANGED <<consumed, refs>> /\ m_used' = Pending + COUNTER /\ m_off' = COUNTER
        BY <1>5 DEF Swap
    <2>2. received' = received
        BY <1>n, <2>1 DEF received, Pending
    <2> QED
        BY <1>u, <2>1, <2>2
<1>6. ASSUME NEW n \in 1 .. MaxBytes, Feed(n) PROVE App!Receive
    <2>1. Pending \in Nat /\ received \in Nat /\ received = consumed + Pending
        BY <1>6, Live DEF Feed
    <2>2. m_used' = m_used + n /\ UNCHANGED <<m_off, consumed, refs>> /\ received + n <= MaxBytes
        BY <1>6 DEF Feed
    <2>3. received' = received + n
        BY <1>n, <2>1, <2>2 DEF received, Pending
    <2>4. MadeOf' = MadeOf
        BY <2>2 DEF MadeOf
    <2>5. received' \in received + 1 .. MaxBytes
        BY <2>1, <2>2, <2>3
    <2> QED
        BY <1>h, <2>2, <2>4, <2>5 DEF App!Receive
<1>7. ASSUME NEW n \in 1 .. MaxBytes, Skip(n) PROVE App!Consume
    BY <1>7, <1>c, <1>p DEF Skip
<1>8. ASSUME Remove PROVE App!Consume
    <2>1. Pending \in Nat /\ received = consumed + Pending
        BY <1>8, Live DEF Remove
    <2>2. m_used' = m_off /\ consumed' = consumed + Pending /\ UNCHANGED <<m_off, refs>>
        BY <1>8 DEF Remove
    <2>3. received' = received /\ consumed' \in consumed .. received
        BY <1>n, <2>1, <2>2 DEF received, Pending
    <2>4. refs' = refs
        BY <2>2
    <2> QED
        BY <1>c, <2>3, <2>4
<1>9. ASSUME NEW n \in 0 .. MaxBytes, NEW c \in BOOLEAN, Next_Parse(n, c) PROVE App!Consume
    BY <1>9, <1>q DEF Next_Parse
<1>10. ASSUME NEW n \in 0 .. MaxBytes, NEW e \in BOOLEAN, Next_Throws(n, e) PROVE [App!Next]_(App!vars)
    <2>1. CASE e
        <3>1. App!Consume
            BY <1>10, <1>q, <2>1 DEF Next_Throws
        <3> QED
            BY <3>1 DEF App!Next
    <2>2. CASE ~e
        <3>1. UNCHANGED <<m_used, m_off, consumed, refs>>
            BY <1>10, <2>2 DEF Next_Throws
        <3> QED
            BY <1>u, <1>k, <3>1
    <2> QED
        BY <2>1, <2>2
<1>11. ASSUME NEW d \in {"unpacker", "app"}, Flush(d) PROVE UNCHANGED App!vars
    BY <1>11, <1>u, <1>k DEF Flush
<1>12. CASE Flush_Unreferenced \/ Flush_Push \/ Flush_Incr \/ Flush_Fails
    BY <1>12, <1>u, <1>k DEF Flush_Unreferenced, Flush_Push, Flush_Incr, Flush_Fails
<1>13. ASSUME NEW zz \in Zone, Release(zz) PROVE UNCHANGED App!vars
    BY <1>13, <1>u, <1>k DEF Release
<1>14. CASE Release_Throws \/ Reset \/ Result_Take
    BY <1>14, <1>u, <1>k DEF Release_Throws, Reset, Result_Take
<1>15. CASE Deliver \/ Deliver_Nothing
    <2>1. SetResult /\ received' = received /\ consumed' = consumed
        BY <1>15, <1>k DEF Deliver, Deliver_Nothing
    <2>2. CASE result = NULL
        BY <1>u, <2>1, <2>2 DEF SetResult
    <2>3. CASE result # NULL
        <3>1. result \in Zone /\ refs' = [refs EXCEPT ![result] = {}]
            BY <1>t, <2>1, <2>3 DEF SetResult, Empty, TypeOK
        <3> QED
            BY <1>b, <2>1, <3>1 DEF App!Next
    <2> QED
        BY <2>2, <2>3
<1>16. CASE ResetZone \/ Destroy
    <2>1. m_z \in Zone /\ refs' = [refs EXCEPT ![m_z] = {}]
        BY <1>16, Live DEF ResetZone, Destroy, Empty
    <2>2. received' = received /\ consumed' = consumed
        BY <1>16, <1>k DEF ResetZone, Destroy
    <2> QED
        BY <1>b, <2>1, <2>2 DEF App!Next
<1>17. CASE Result_Drop
    <2>1. result \in Zone /\ refs' = [refs EXCEPT ![result] = {}]
        BY <1>17, <1>t DEF Result_Drop, Empty, TypeOK
    <2>2. received' = received /\ consumed' = consumed
        BY <1>17, <1>k DEF Result_Drop
    <2> QED
        BY <1>b, <2>1, <2>2 DEF App!Next
<1>18. ASSUME NEW zz \in Zone, App_FreeZone(zz) PROVE App!Next
    BY <1>18, <1>b, <1>k DEF App_FreeZone, Empty, App!Next
<1>19. ASSUME NEW o \in Object, Move(o) \/ DestroyShell(o) PROVE UNCHANGED App!vars
    BY <1>19, <1>u, <1>k DEF Move, DestroyShell
<1>20. CASE UNCHANGED vars
    BY <1>20, <1>u, <1>k DEF vars
<1> QED
    BY <1>1, <1>2, <1>3, <1>4, <1>5, <1>6, <1>7, <1>8, <1>9, <1>10, <1>11, <1>12, <1>13,
       <1>14, <1>15, <1>16, <1>17, <1>18, <1>19, <1>20 DEF Next, App!Next

\* To the application the unpacker behaves like ObjectStream, whose objects are
\* snapshots of the stream.
THEOREM CppUnpackerRefinesObjectStream == ASSUME ~MoveFreely PROVE Spec => RefinesObjectStream
BY InitImplements, StepImplements, Invariance, PTL
   DEF RefinesObjectStream, App!Spec, Spec
=============================================================================
