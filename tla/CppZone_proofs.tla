--------------------------- MODULE CppZone_proofs ---------------------------
(***************************************************************************)
(* The pools of the C++ library, for any number of pools, any sizes and       *)
(* alignments, and any constructor or push that throws: what a pool hands out *)
(* is memory of its own and nobody else's, whatever is undone, cleared,       *)
(* moved, assigned and swapped, and every object made in a pool is destroyed   *)
(* once, while its memory is there.                                          *)
(***************************************************************************)
EXTENDS CppZone, SequenceTheorems, WellFoundedInduction, NaturalsInduction, TLAPS

\* The room of a zone is the rest of its newest chunk; its oldest is the one that
\* clear keeps, of the size that clear takes it to have.
RoomInv == \A z \in Pool : m_list[z] # << >> =>
    /\ HEADER <= m_ptr[z]
    /\ m_ptr[z] + m_free[z] = size[Last(m_list[z])]
    /\ size[m_list[z][1]] = HEADER + m_chunk_size[z]

\* Every chunk that was not freed is in one list, once.
ListInv ==
    /\ \A z \in Pool : \A i \in DOMAIN m_list[z] : m_list[z][i] \in (1 .. Len(size)) \ freed
    /\ \A c \in (1 .. Len(size)) \ freed : \E z \in Pool : \E i \in DOMAIN m_list[z] :
          m_list[z][i] = c
    /\ \A z, o \in Pool : \A i \in DOMAIN m_list[z], j \in DOMAIN m_list[o] :
          m_list[z][i] = m_list[o][j] => z = o /\ i = j

\* The regions of a zone's newest chunk end in front of its pointer.
RegionInv ==
    /\ \A r \in given : /\ r.chunk \in (1 .. Len(size)) \ freed
                         /\ HEADER <= r.at /\ r.at + r.size <= size[r.chunk]
    /\ \A z \in Pool, r \in given :
          m_list[z] # << >> /\ r.chunk = Last(m_list[z]) => r.at + r.size <= m_ptr[z]
    /\ \A r, s \in given : r # s => ~Overlap(r, s)

\* The objects that finalizers are there for: also the one that is being made.
Owed == built \cup (IF pc = "construct" THEN {x} ELSE {})

\* The zone that has the memory of the objects that z has finalizers for: in the
\* middle of an assignment the chunks have gone ahead.
Keeper(z) == IF pc = "assign" /\ z = other THEN this ELSE z

FinInv ==
    /\ \A z \in Pool : \A i \in DOMAIN m_fins[z] : m_fins[z][i] # Nowhere =>
          m_fins[z][i] \in Owed /\ In(m_fins[z][i], m_list[Keeper(z)])
    /\ \A r \in Owed : \E z \in Pool : \E i \in DOMAIN m_fins[z] : m_fins[z][i] = r
    /\ \A z, o \in Pool : \A i \in DOMAIN m_fins[z], j \in DOMAIN m_fins[o] :
          m_fins[z][i] = m_fins[o][j] /\ m_fins[z][i] # Nowhere => z = o /\ i = j

\* Where there is no zone there is nothing; a zone that was not moved from has a
\* chunk.
StateInv == \A z \in Pool :
    /\ state[z] = "none" => m_list[z] = << >> /\ m_fins[z] = << >>
    /\ state[z] = "live" /\ (pc = "assign" => z # other) => m_list[z] # << >>

\* The region of the object in the making is the last of its zone's newest chunk, so
\* that it can be given back; its finalizer is the last one, so that it can be taken
\* off.  In the middle of an assignment the other zone has lost its chunks.
CallInv ==
    /\ pc \in {"push", "construct"} =>
         /\ this \in Pool /\ m_list[this] # << >> 
         /\ x \in given \ built
         /\ x.chunk = Last(m_list[this]) /\ x.at + x.size = m_ptr[this]
         /\ \A r \in given : r # x /\ r.chunk = x.chunk => r.at + r.size <= x.at
    /\ pc = "construct" => m_fins[this] # << >> /\ Last(m_fins[this]) = x
    /\ pc = "assign" =>
         /\ this \in Pool /\ other \in Pool /\ this # other
         /\ m_fins[this] = << >> /\ m_list[other] = << >> /\ m_list[this] # << >>
         /\ state[this] # "none" /\ state[other] # "none"

IInv == TypeOK /\ RoomInv /\ ListInv /\ RegionInv /\ FinInv /\ StateInv /\ CallInv
-----------------------------------------------------------------------------
(* Numbers and sequences *)

\* A set of natural numbers has a least one.
LEMMA Least ==
    ASSUME NEW S, S \subseteq Nat, S # {}
    PROVE  \E k \in S : \A l \in S : k <= l
<1>1. \E k \in S : \A l \in S : ~(<<l, k>> \in OpToRel(<, Nat))
    BY NatLessThanWellFounded, WFMin
<1>2. \A k, l \in Nat : ~(<<l, k>> \in OpToRel(<, Nat)) => k <= l
    BY DEF OpToRel
<1> QED
    BY <1>1, <1>2

\* The chunk that is made is large enough.
LEMMA DoubledEnough ==
    ASSUME NEW from \in Nat, NEW need \in Nat
    PROVE  Doubled(from, need) \in Nat /\ Doubled(from, need) >= need
<1> DEFINE reach == {k \in need .. from + 2 * need : \E e \in 0 .. need : k = from * 2 ^ e}
<1>1. \A k \in reach : k \in Nat /\ k >= need
    OBVIOUS
<1>2. Doubled(from, need) = IF reach = {} THEN need
                            ELSE CHOOSE k \in reach : \A l \in reach : k <= l
    BY DEF Doubled
<1> HIDE DEF reach
<1>3. CASE reach = {}
    BY <1>2, <1>3
<1>4. CASE reach # {}
    <2>1. \E k \in reach : \A l \in reach : k <= l
        BY <1>1, <1>4, Least
    <2> QED
        BY <1>1, <1>2, <1>4, <2>1
<1> QED
    BY <1>3, <1>4

\* Aligning moves a place by less than the alignment.
LEMMA AlignedBounds ==
    ASSUME NEW b \in Nat, NEW p \in Nat, NEW align \in Nat \ {0}
    PROVE  Aligned(b, p, align) \in Nat /\ p <= Aligned(b, p, align)
           /\ Aligned(b, p, align) <= p + align - 1
BY SMT DEF Aligned

LEMMA LastIs ==
    ASSUME NEW S, NEW s \in Seq(S), s # << >>
    PROVE  /\ Len(s) \in Nat /\ Len(s) > 0 /\ DOMAIN s = 1 .. Len(s)
           /\ 1 \in DOMAIN s /\ Len(s) \in DOMAIN s
           /\ Last(s) = s[Len(s)] /\ Last(s) \in S /\ s[1] \in S
<1>1. Len(s) > 0
    BY EmptySeq
<1> QED
    BY <1>1 DEF Last

LEMMA Appended ==
    ASSUME NEW S, NEW s \in Seq(S), NEW e \in S
    PROVE  /\ Append(s, e) \in Seq(S) /\ Append(s, e) # << >>
           /\ Len(Append(s, e)) = Len(s) + 1 /\ Len(s) \in Nat
           /\ DOMAIN s = 1 .. Len(s) /\ DOMAIN Append(s, e) = 1 .. Len(s) + 1
           /\ \A i \in 1 .. Len(s) : Append(s, e)[i] = s[i]
           /\ Append(s, e)[Len(s) + 1] = e /\ Last(Append(s, e)) = e
<1>1. Len(Append(s, e)) = Len(s) + 1
    OBVIOUS
<1>2. Append(s, e) # << >>
    BY <1>1, Append(s, e) \in Seq(S), EmptySeq
<1> QED
    BY <1>1, <1>2 DEF Last

LEMMA Fronted ==
    ASSUME NEW S, NEW s \in Seq(S), s # << >>
    PROVE  /\ Front(s) \in Seq(S)
           /\ DOMAIN s = 1 .. Len(s) /\ Len(s) \in Nat /\ Len(s) > 0
           /\ DOMAIN Front(s) = 1 .. Len(s) - 1
           /\ \A i \in 1 .. Len(s) - 1 : Front(s)[i] = s[i]
<1>1. Len(s) \in Nat /\ Len(s) > 0
    BY LastIs
<1> QED
    BY <1>1 DEF Front

LEMMA WiderSeq ==
    ASSUME NEW S, NEW T, S \subseteq T, NEW s \in Seq(S)
    PROVE  s \in Seq(T)
OBVIOUS

LEMMA Constants ==
    /\ HEADER \in Nat \ {0} /\ Align \subseteq Nat \ {0} /\ ChunkSize \subseteq Nat
    /\ Request \subseteq Nat /\ Base \subseteq Nat
BY CppZoneConstants

LEMMA Numbers ==
    ASSUME TypeOK
    PROVE  /\ \A z \in Pool : m_free[z] \in Nat /\ m_ptr[z] \in Nat /\ m_chunk_size[z] \in Nat
           /\ Len(size) \in Nat /\ DOMAIN size = 1 .. Len(size)
           /\ \A c \in 1 .. Len(size) : size[c] \in Nat /\ base[c] \in Nat
           /\ \A r \in given : r \in Region /\ r.chunk \in Nat /\ r.at \in Nat /\ r.size \in Nat
<1>1. ASSUME NEW z \in Pool
      PROVE  m_free[z] \in Nat /\ m_ptr[z] \in Nat /\ m_chunk_size[z] \in Nat
    <2>1. m_chunk_size[z] \in ChunkSize \cup {0}
        BY DEF TypeOK
    <2>2. ChunkSize \cup {0} \subseteq Nat
        BY Constants
    <2>3. m_free \in [Pool -> Nat] /\ m_ptr \in [Pool -> Nat]
        BY DEF TypeOK
    <2> QED
        BY <2>1, <2>2, <2>3
<1>2. base \in Seq(Nat)
    BY Constants, WiderSeq DEF TypeOK
<1>3. ASSUME NEW c \in 1 .. Len(size) PROVE size[c] \in Nat /\ base[c] \in Nat
    <2>1. Len(size) = Len(base) /\ size \in Seq(Nat)
        BY DEF TypeOK
    <2> QED
        BY <2>1, <1>2
<1>4. \A r \in given : r \in Region /\ r.chunk \in Nat /\ r.at \in Nat /\ r.size \in Nat
    BY DEF TypeOK, Region
<1> QED
    BY <1>1, <1>3, <1>4 DEF TypeOK
-----------------------------------------------------------------------------
(* The initial state *)

LEMMA InitInv == Init => IInv
<1> SUFFICES ASSUME Init PROVE IInv
    OBVIOUS
<1>1. TypeOK
    <2>1. << >> \in Seq(1 .. Len(size)) /\ << >> \in Seq(Region) /\ << >> \in Seq(Nat)
          /\ << >> \in Seq(Base) /\ Len(size) = 0 /\ Len(base) = 0
        BY DEF Init
    <2>2. Nowhere \in Region
        BY DEF Nowhere, Region
    <2> QED
        BY <2>1, <2>2 DEF Init, TypeOK
<1>2. \A z \in Pool : m_list[z] = << >> /\ m_fins[z] = << >>
    BY DEF Init
<1>3. RoomInv
    BY <1>2 DEF RoomInv
<1>4. ListInv
    BY <1>2 DEF Init, ListInv
<1>5. RegionInv
    BY DEF Init, RegionInv
<1>6. FinInv
    BY <1>2 DEF Init, FinInv, Owed
<1>7. StateInv /\ CallInv
    BY DEF Init, StateInv, CallInv
<1> QED
    BY <1>1, <1>3, <1>4, <1>5, <1>6, <1>7 DEF IInv
-----------------------------------------------------------------------------
(* Allocation *)

HeapOK ==
    /\ m_list \in [Pool -> Seq(1 .. Len(size))]
    /\ m_free \in [Pool -> Nat] /\ m_ptr \in [Pool -> Nat]
    /\ size \in Seq(Nat) /\ base \in Seq(Base) /\ Len(size) = Len(base)
    /\ freed \subseteq 1 .. Len(size)
    /\ given \subseteq Region

\* What a zone's list says of its newest chunk and its oldest.
LEMMA Listed ==
    ASSUME TypeOK, NEW z \in Pool, m_list[z] # << >>
    PROVE  /\ m_list[z] \in Seq(1 .. Len(size)) /\ Len(m_list[z]) \in Nat
           /\ Len(m_list[z]) > 0 /\ DOMAIN m_list[z] = 1 .. Len(m_list[z])
           /\ 1 \in DOMAIN m_list[z] /\ Len(m_list[z]) \in DOMAIN m_list[z]
           /\ Last(m_list[z]) = m_list[z][Len(m_list[z])]
           /\ Last(m_list[z]) \in 1 .. Len(size) /\ m_list[z][1] \in 1 .. Len(size)
<1>1. m_list[z] \in Seq(1 .. Len(size))
    BY DEF TypeOK
<1> QED
    BY <1>1, LastIs

\* Two zones have not the same newest chunk.
LEMMA NewestDiffer ==
    ASSUME TypeOK, ListInv, NEW z \in Pool, NEW o \in Pool, z # o,
           m_list[z] # << >>, m_list[o] # << >>
    PROVE  Last(m_list[z]) # Last(m_list[o])
<1>1. /\ Len(m_list[z]) \in DOMAIN m_list[z] /\ Last(m_list[z]) = m_list[z][Len(m_list[z])]
      /\ Len(m_list[o]) \in DOMAIN m_list[o] /\ Last(m_list[o]) = m_list[o][Len(m_list[o])]
    BY Listed
<1> QED
    BY <1>1 DEF ListInv

\* Where allocate_align finds its memory: behind what the newest chunk's regions
\* take, or in a new chunk, so near its beginning that what it was asked for suffices.
FoundAt(z, n, align, r) ==
    /\ r \in Region /\ r.chunk \in Nat /\ r.at \in Nat /\ r.size = n
    /\ \/ /\ r.chunk = Last(m_list[z])
          /\ m_ptr[z] <= r.at /\ r.at + n <= m_ptr[z] + m_free[z]
       \/ /\ r.chunk = Len(size) + 1
          /\ HEADER <= r.at /\ r.at <= HEADER + align - 1

LEMMA FoundIs ==
    ASSUME TypeOK, RoomInv, NEW z \in Pool, m_list[z] # << >>,
           NEW n \in Nat, NEW align \in Nat \ {0}, NEW b \in Base
    PROVE  FoundAt(z, n, align, Found(z, n, align, b))
<1> DEFINE r == Found(z, n, align, b)
           p == Aligned(base[Last(m_list[z])], m_ptr[z], align)
           q == Aligned(b, HEADER, align)
<1>1. /\ Last(m_list[z]) \in 1 .. Len(size) /\ Len(size) \in Nat
      /\ m_ptr[z] \in Nat /\ m_free[z] \in Nat /\ base[Last(m_list[z])] \in Nat
      /\ HEADER \in Nat /\ b \in Nat
    BY Listed, Numbers, Constants
<1>2. p \in Nat /\ m_ptr[z] <= p
    BY <1>1, AlignedBounds
<1>3. q \in Nat /\ HEADER <= q /\ q <= HEADER + align - 1
    BY <1>1, AlignedBounds
<1>4. r = IF m_free[z] >= n + p - m_ptr[z]
          THEN [chunk |-> Last(m_list[z]), at |-> p, size |-> n]
          ELSE [chunk |-> Len(size) + 1, at |-> q, size |-> n]
    BY DEF Found
<1> HIDE DEF p, q, r
<1>5. ASSUME m_free[z] >= n + p - m_ptr[z] PROVE FoundAt(z, n, align, r)
    BY <1>1, <1>2, <1>4, <1>5 DEF Region, FoundAt
<1>6. ASSUME ~(m_free[z] >= n + p - m_ptr[z]) PROVE FoundAt(z, n, align, r)
    BY <1>1, <1>3, <1>4, <1>6 DEF Region, FoundAt
<1> QED
    BY <1>5, <1>6 DEF r

\* What an allocation promises of the region r of z.
Handed(z, r) ==
    /\ HeapOK' /\ RoomInv' /\ ListInv' /\ RegionInv'
    /\ r \in Region /\ m_list'[z] # << >>
    /\ r.chunk = Last(m_list'[z]) /\ r.at + r.size = m_ptr'[z]
    /\ \A s \in given : s.chunk = r.chunk => s.at + s.size <= r.at
    /\ \A o \in Pool : \A i \in DOMAIN m_list[o] :
          i \in DOMAIN m_list'[o] /\ m_list'[o][i] = m_list[o][i]

\* The room that is left when its beginning moves from p to e.
LEMMA RoomTaken ==
    ASSUME NEW e \in Nat, NEW p \in Nat, NEW f \in Nat, p <= e, e <= p + f
    PROVE  f - (e - p) \in Nat /\ e + (f - (e - p)) = p + f
OBVIOUS

\* In the newest chunk.
LEMMA TakeRoom ==
    ASSUME TypeOK, RoomInv, ListInv, RegionInv, NEW z \in Pool, m_list[z] # << >>,
           NEW r \in Region, r.at \in Nat, r.size \in Nat, r.chunk = Last(m_list[z]),
           m_ptr[z] <= r.at, r.at + r.size <= m_ptr[z] + m_free[z],
           m_ptr' = [m_ptr EXCEPT ![z] = r.at + r.size],
           m_free' = [m_free EXCEPT ![z] = @ - (r.at + r.size - m_ptr[z])],
           given' = given \cup {r},
           UNCHANGED <<m_chunk_size, m_list, size, base, freed>>
    PROVE  Handed(z, r)
<1>1. /\ m_ptr[z] \in Nat /\ m_free[z] \in Nat /\ HEADER \in Nat
      /\ Last(m_list[z]) \in 1 .. Len(size) /\ size[r.chunk] \in Nat
      /\ HEADER <= m_ptr[z] /\ m_ptr[z] + m_free[z] = size[r.chunk]
    BY Listed, Numbers, Constants DEF RoomInv
<1>2. m_ptr'[z] = r.at + r.size /\ m_free'[z] = m_free[z] - (r.at + r.size - m_ptr[z])
      /\ m_ptr'[z] + m_free'[z] = size[r.chunk] /\ m_free'[z] \in Nat
    <2>1. m_ptr'[z] = r.at + r.size /\ m_free'[z] = m_free[z] - (r.at + r.size - m_ptr[z])
        BY DEF TypeOK
    <2>2. r.at + r.size \in Nat /\ m_ptr[z] <= r.at + r.size
        BY <1>1, SMTT(30)
    <2>3. /\ m_free[z] - (r.at + r.size - m_ptr[z]) \in Nat
          /\ (r.at + r.size) + (m_free[z] - (r.at + r.size - m_ptr[z])) = m_ptr[z] + m_free[z]
        <3> DEFINE e == r.at + r.size
                   p == m_ptr[z]
                   f == m_free[z]
        <3>1. e \in Nat /\ p \in Nat /\ f \in Nat /\ p <= e /\ e <= p + f
            BY <2>2, <1>1
        <3> HIDE DEF e, p, f
        <3>2. f - (e - p) \in Nat /\ e + (f - (e - p)) = p + f
            BY <3>1, RoomTaken
        <3> QED
            BY <3>1, <3>2, SMTT(30) DEF e, p, f
    <2> QED
        BY <2>1, <2>3, <1>1
<1>3. \A o \in Pool : o # z => m_ptr'[o] = m_ptr[o] /\ m_free'[o] = m_free[o]
    BY DEF TypeOK
<1>4. HeapOK'
    <2>1. m_free' \in [Pool -> Nat] /\ m_ptr' \in [Pool -> Nat]
        <3>1. m_free \in [Pool -> Nat] /\ m_ptr \in [Pool -> Nat]
            BY DEF TypeOK
        <3>2. r.at + r.size \in Nat /\ m_free[z] - (r.at + r.size - m_ptr[z]) \in Nat
            BY <1>1, <1>2, SMTT(30)
        <3> QED
            BY <3>1, <3>2
    <2> QED
        BY <2>1 DEF HeapOK, TypeOK
<1>5. RoomInv'
    <2> SUFFICES ASSUME NEW o \in Pool, m_list[o] # << >>
                 PROVE  /\ HEADER <= m_ptr'[o]
                        /\ m_ptr'[o] + m_free'[o] = size[Last(m_list[o])]
                        /\ size[m_list[o][1]] = HEADER + m_chunk_size[o]
        BY DEF RoomInv
    <2>1. CASE o = z
        <3>1. size[m_list[z][1]] = HEADER + m_chunk_size[z]
            BY DEF RoomInv
        <3>2. HEADER <= r.at + r.size
            BY <1>1
        <3> QED
            BY <2>1, <3>1, <3>2, <1>2
    <2>2. CASE o # z
        BY <2>2, <1>3 DEF RoomInv
    <2> QED
        BY <2>1, <2>2
<1>6. ListInv'
    BY DEF ListInv
<1>7. \A s \in given : s.chunk = r.chunk => s.at + s.size <= r.at
    <2> SUFFICES ASSUME NEW s \in given, s.chunk = r.chunk PROVE s.at + s.size <= r.at
        OBVIOUS
    <2>1. s.at + s.size <= m_ptr[z] /\ s.at \in Nat /\ s.size \in Nat
        BY Numbers DEF RegionInv
    <2> QED
        BY <2>1, <1>1, SMTT(30)
<1>8. RegionInv'
    <2>1. ASSUME NEW s \in given'
          PROVE  /\ s.chunk \in (1 .. Len(size)) \ freed
                 /\ HEADER <= s.at /\ s.at + s.size <= size[s.chunk]
        <3>1. CASE s \in given
            BY <3>1 DEF RegionInv
        <3>2. CASE s = r
            <4>1. Last(m_list[z]) \in (1 .. Len(size)) \ freed
                BY Listed DEF ListInv
            <4> QED
                BY <3>2, <4>1, <1>1, SMTT(30)
        <3> QED
            BY <3>1, <3>2
    <2>2. ASSUME NEW o \in Pool, NEW s \in given', m_list[o] # << >>, s.chunk = Last(m_list[o])
          PROVE  s.at + s.size <= m_ptr'[o]
        <3>1. CASE o = z
            <4>1. CASE s \in given
                <5>1. s.at + s.size <= r.at /\ s.at \in Nat /\ s.size \in Nat
                    BY <2>2, <3>1, <4>1, <1>7, Numbers
                <5> QED
                    BY <5>1, <3>1, <1>2
            <4>2. CASE s = r
                BY <3>1, <4>2, <1>2
            <4> QED
                BY <4>1, <4>2
        <3>2. CASE o # z
            <4>1. s # r
                BY <2>2, <3>2, NewestDiffer
            <4> QED
                BY <2>2, <4>1, <3>2, <1>3 DEF RegionInv
        <3> QED
            BY <3>1, <3>2
    <2>3. ASSUME NEW s \in given', NEW t \in given', s # t PROVE ~Overlap(s, t)
        <3>1. CASE s \in given /\ t \in given
            BY <2>3, <3>1 DEF RegionInv
        <3>2. CASE s = r /\ t \in given
            BY <3>2, <1>7, Numbers DEF Overlap
        <3>3. CASE t = r /\ s \in given
            BY <3>3, <1>7, Numbers DEF Overlap
        <3> QED
            BY <2>3, <3>1, <3>2, <3>3
    <2> QED
        BY <2>1, <2>2, <2>3 DEF RegionInv
<1> QED
    BY <1>2, <1>4, <1>5, <1>6, <1>7, <1>8 DEF Handed

\* A list of chunks gets the one that comes next.
LEMMA ListGrows ==
    ASSUME NEW k \in Nat, NEW l \in Seq(1 .. k)
    PROVE  /\ Append(l, k + 1) \in Seq(1 .. k + 1) /\ Append(l, k + 1) # << >>
           /\ Len(l) \in Nat /\ Len(Append(l, k + 1)) = Len(l) + 1
           /\ DOMAIN l = 1 .. Len(l) /\ DOMAIN Append(l, k + 1) = 1 .. Len(l) + 1
           /\ \A i \in 1 .. Len(l) : Append(l, k + 1)[i] = l[i]
           /\ Append(l, k + 1)[Len(l) + 1] = k + 1 /\ Last(Append(l, k + 1)) = k + 1
<1>1. 1 .. k \subseteq 1 .. k + 1 /\ k + 1 \in 1 .. k + 1
    OBVIOUS
<1>2. l \in Seq(1 .. k + 1)
    BY <1>1, WiderSeq
<1> QED
    BY <1>1, <1>2, Appended, SMTT(30)

LEMMA RoomLeft ==
    ASSUME NEW e \in Nat, NEW h \in Nat, NEW n \in Nat, e <= h + n
    PROVE  n - (e - h) \in Nat
OBVIOUS

\* In a new one.
LEMMA TakeNew ==
    ASSUME TypeOK, RoomInv, ListInv, RegionInv, NEW z \in Pool, m_list[z] # << >>,
           NEW r \in Region, r.at \in Nat, r.size \in Nat, r.chunk = Len(size) + 1,
           NEW sz \in Nat, NEW b \in Base,
           HEADER <= r.at, r.at + r.size <= HEADER + sz,
           m_ptr' = [m_ptr EXCEPT ![z] = r.at + r.size],
           m_free' = [m_free EXCEPT ![z] = sz - (r.at + r.size - HEADER)],
           m_list' = [m_list EXCEPT ![z] = Append(@, r.chunk)],
           size' = Append(size, HEADER + sz), base' = Append(base, b),
           given' = given \cup {r},
           UNCHANGED <<m_chunk_size, freed>>
    PROVE  Handed(z, r)
<1> DEFINE n == Len(size)
<1>1. /\ HEADER \in Nat /\ n \in Nat /\ HEADER + sz \in Nat
      /\ size \in Seq(Nat) /\ base \in Seq(Base) /\ Len(base) = n
    BY Numbers, Constants DEF TypeOK
<1>2. /\ size' \in Seq(Nat) /\ Len(size') = n + 1
      /\ \A c \in 1 .. n : size'[c] = size[c]
      /\ size'[n + 1] = HEADER + sz
    BY <1>1, Appended
<1>3. base' \in Seq(Base) /\ Len(base') = n + 1
    BY <1>1, Appended
<1>4. /\ m_ptr'[z] = r.at + r.size /\ m_free'[z] = sz - (r.at + r.size - HEADER)
      /\ \A o \in Pool : o # z => m_ptr'[o] = m_ptr[o] /\ m_free'[o] = m_free[o]
    BY DEF TypeOK
<1>5. /\ m_list'[z] = Append(m_list[z], n + 1)
      /\ \A o \in Pool : o # z => m_list'[o] = m_list[o]
    BY DEF TypeOK
<1>6. \A o \in Pool : m_list[o] \in Seq(1 .. n) /\ m_list[o] \in Seq(1 .. n + 1)
    <2>1. ASSUME NEW o \in Pool PROVE m_list[o] \in Seq(1 .. n)
        BY DEF TypeOK
    <2>2. 1 .. n \subseteq 1 .. n + 1
        BY <1>1
    <2> HIDE DEF n
    <2> QED
        BY <2>1, <2>2, WiderSeq
<1>7. /\ m_list'[z] \in Seq(1 .. n + 1) /\ m_list'[z] # << >>
      /\ Len(m_list[z]) \in Nat /\ Len(m_list'[z]) = Len(m_list[z]) + 1
      /\ DOMAIN m_list[z] = 1 .. Len(m_list[z])
      /\ DOMAIN m_list'[z] = 1 .. Len(m_list[z]) + 1
      /\ \A i \in 1 .. Len(m_list[z]) : m_list'[z][i] = m_list[z][i]
      /\ m_list'[z][Len(m_list[z]) + 1] = n + 1 /\ Last(m_list'[z]) = n + 1
    <2> HIDE DEF n
    <2>1. ASSUME NEW l \in Seq(1 .. n)
          PROVE  /\ Append(l, n + 1) \in Seq(1 .. n + 1) /\ Append(l, n + 1) # << >>
                 /\ Len(l) \in Nat /\ Len(Append(l, n + 1)) = Len(l) + 1
                 /\ DOMAIN l = 1 .. Len(l) /\ DOMAIN Append(l, n + 1) = 1 .. Len(l) + 1
                 /\ \A i \in 1 .. Len(l) : Append(l, n + 1)[i] = l[i]
                 /\ Append(l, n + 1)[Len(l) + 1] = n + 1 /\ Last(Append(l, n + 1)) = n + 1
        BY <1>1, ListGrows
    <2>2. m_list[z] \in Seq(1 .. n)
        BY <1>6
    <2> QED
        BY <2>1, <2>2, <1>5, ZenonT(60)
<1>8. 1 \in DOMAIN m_list[z]
    BY Listed
<1> HIDE DEF n
<1>9. HeapOK'
    <2>1. m_free' \in [Pool -> Nat] /\ m_ptr' \in [Pool -> Nat]
        <3>1. m_free \in [Pool -> Nat] /\ m_ptr \in [Pool -> Nat]
            BY DEF TypeOK
        <3>2. r.at + r.size \in Nat /\ sz - (r.at + r.size - HEADER) \in Nat
            <4>1. r.at + r.size \in Nat
                OBVIOUS
            <4>2. sz - (r.at + r.size - HEADER) \in Nat
                BY <4>1, <1>1, RoomLeft, SMTT(30)
            <4> QED
                BY <4>1, <4>2
        <3> QED
            BY <3>1, <3>2
    <2>2. m_list' \in [Pool -> Seq(1 .. n + 1)]
        <3>1. m_list' = [o \in Pool |-> m_list'[o]]
            BY DEF TypeOK
        <3>2. \A o \in Pool : m_list'[o] \in Seq(1 .. n + 1)
            BY <1>5, <1>6, <1>7
        <3> QED
            BY <3>1, <3>2
    <2>3. freed' \subseteq 1 .. n + 1
        <3>1. freed \subseteq 1 .. n
            BY DEF TypeOK, n
        <3> QED
            BY <3>1, <1>1
    <2>4. given' \subseteq Region
        BY DEF TypeOK
    <2> QED
        BY <1>2, <1>3, <2>1, <2>2, <2>3, <2>4 DEF HeapOK
<1>10. \A o \in Pool : m_list[o] # << >> =>
          /\ Last(m_list[o]) \in 1 .. n /\ m_list[o][1] \in 1 .. n
    BY Listed DEF n
<1>11. RoomInv'
    <2> SUFFICES ASSUME NEW o \in Pool, m_list'[o] # << >>
                 PROVE  /\ HEADER <= m_ptr'[o]
                        /\ m_ptr'[o] + m_free'[o] = size'[Last(m_list'[o])]
                        /\ size'[m_list'[o][1]] = HEADER + m_chunk_size[o]
        BY DEF RoomInv
    <2>1. CASE o = z
        <3>1. m_list'[z][1] = m_list[z][1]
            BY <1>7, <1>8
        <3>2. size'[m_list'[z][1]] = HEADER + m_chunk_size[z]
            BY <3>1, <1>2, <1>10, ZenonT(60) DEF RoomInv
        <3>3. HEADER <= m_ptr'[z]
            BY <1>1, <1>4, SMTT(30)
        <3>4. m_ptr'[z] + m_free'[z] = HEADER + sz
            BY <1>1, <1>4, SMTT(30)
        <3> QED
            BY <2>1, <3>2, <3>3, <3>4, <1>2, <1>7
    <2>2. CASE o # z
        <3>1. m_list[o] # << >> /\ m_list'[o] = m_list[o]
            BY <2>2, <1>5
        <3>2. Last(m_list[o]) \in 1 .. n /\ m_list[o][1] \in 1 .. n
            BY <3>1, <1>10
        <3>3. /\ size'[Last(m_list[o])] = size[Last(m_list[o])]
              /\ size'[m_list[o][1]] = size[m_list[o][1]]
            BY <3>2, <1>2
        <3>4. m_ptr'[o] = m_ptr[o] /\ m_free'[o] = m_free[o]
            BY <2>2, <1>4
        <3>5. /\ HEADER <= m_ptr[o]
              /\ m_ptr[o] + m_free[o] = size[Last(m_list[o])]
              /\ size[m_list[o][1]] = HEADER + m_chunk_size[o]
            BY <3>1 DEF RoomInv
        <3> QED
            BY <3>1, <3>3, <3>4, <3>5
    <2> QED
        BY <2>1, <2>2
<1>12. \A o \in Pool : \A i \in DOMAIN m_list[o] :
          i \in DOMAIN m_list'[o] /\ m_list'[o][i] = m_list[o][i]
    BY <1>5, <1>7, SMTT(30)
<1>13. \A o \in Pool : \A i \in DOMAIN m_list'[o] :
          \/ i \in DOMAIN m_list[o] /\ m_list'[o][i] = m_list[o][i] /\ m_list[o][i] \in 1 .. n
          \/ o = z /\ i = Len(m_list[z]) + 1 /\ m_list'[o][i] = n + 1
    <2> SUFFICES ASSUME NEW o \in Pool, NEW i \in DOMAIN m_list'[o]
                 PROVE  \/ /\ i \in DOMAIN m_list[o] /\ m_list'[o][i] = m_list[o][i]
                           /\ m_list[o][i] \in 1 .. n
                        \/ o = z /\ i = Len(m_list[z]) + 1 /\ m_list'[o][i] = n + 1
        OBVIOUS
    <2>1. CASE i \in DOMAIN m_list[o]
        BY <2>1, <1>12 DEF ListInv, n
    <2>2. CASE i \notin DOMAIN m_list[o]
        <3>1. o = z
            BY <2>2, <1>5
        <3>2. i = Len(m_list[z]) + 1
            BY <2>2, <3>1, <1>7
        <3> QED
            BY <3>1, <3>2, <1>7
    <2> QED
        BY <2>1, <2>2
<1>14. ListInv'
    <2>1. ASSUME NEW o \in Pool, NEW i \in DOMAIN m_list'[o]
          PROVE  m_list'[o][i] \in (1 .. n + 1) \ freed
        <3>1. CASE i \in DOMAIN m_list[o] /\ m_list'[o][i] = m_list[o][i]
            <4>1. m_list[o][i] \in (1 .. n) \ freed
                BY <3>1 DEF ListInv, n
            <4> QED
                BY <3>1, <4>1, <1>1
        <3>2. CASE m_list'[o][i] = n + 1
            <4>1. n + 1 \notin freed
                BY <1>1 DEF TypeOK, n
            <4> QED
                BY <3>2, <4>1, <1>1, SMTT(30)
        <3> QED
            BY <3>1, <3>2, <1>13
    <2>2. ASSUME NEW c \in (1 .. n + 1) \ freed
          PROVE  \E o \in Pool : \E i \in DOMAIN m_list'[o] : m_list'[o][i] = c
        <3>1. CASE c = n + 1
            <4>1. Len(m_list[z]) + 1 \in DOMAIN m_list'[z]
                BY <1>7
            <4> QED
                BY <3>1, <4>1, <1>7
        <3>2. CASE c # n + 1
            <4>1. c \in (1 .. n) \ freed
                BY <3>2, <1>1
            <4>2. PICK o \in Pool : \E i \in DOMAIN m_list[o] : m_list[o][i] = c
                BY <4>1 DEF ListInv, n
            <4> QED
                BY <4>2, <1>12
        <3> QED
            BY <3>1, <3>2
    <2>3. ASSUME NEW o \in Pool, NEW q \in Pool, NEW i \in DOMAIN m_list'[o],
                 NEW j \in DOMAIN m_list'[q], m_list'[o][i] = m_list'[q][j]
          PROVE  o = q /\ i = j
        <3>1. n + 1 \notin 1 .. n
            BY <1>1
        <3>2. CASE m_list'[o][i] = n + 1
            BY <2>3, <3>1, <3>2, <1>13
        <3>3. CASE m_list'[o][i] # n + 1
            <4>1. /\ i \in DOMAIN m_list[o] /\ m_list'[o][i] = m_list[o][i]
                  /\ j \in DOMAIN m_list[q] /\ m_list'[q][j] = m_list[q][j]
                BY <2>3, <3>3, <1>13
            <4> QED
                BY <2>3, <4>1 DEF ListInv
        <3> QED
            BY <3>2, <3>3
    <2> QED
        BY <2>1, <2>2, <2>3, <1>2 DEF ListInv
<1>15. \A s \in given : s.chunk \in 1 .. n /\ s.chunk # r.chunk
    <2>1. \A s \in given : s.chunk \in 1 .. n
        BY DEF RegionInv, n
    <2> QED
        BY <2>1, <1>1 DEF n
<1>16. RegionInv'
    <2>1. ASSUME NEW s \in given'
          PROVE  /\ s.chunk \in (1 .. n + 1) \ freed
                 /\ HEADER <= s.at /\ s.at + s.size <= size'[s.chunk]
        <3>1. CASE s \in given
            <4>1. s.chunk \in (1 .. n) \ freed /\ HEADER <= s.at /\ s.at + s.size <= size[s.chunk]
                BY <3>1 DEF RegionInv, n
            <4> QED
                BY <4>1, <1>1, <1>2
        <3>2. CASE s = r
            <4>1. n + 1 \notin freed
                BY <1>1 DEF TypeOK, n
            <4> QED
                BY <3>2, <4>1, <1>1, <1>2 DEF n
        <3> QED
            BY <3>1, <3>2
    <2>2. ASSUME NEW o \in Pool, NEW s \in given', m_list'[o] # << >>, s.chunk = Last(m_list'[o])
          PROVE  s.at + s.size <= m_ptr'[o]
        <3>1. CASE o = z
            <4>1. s = r
                BY <2>2, <3>1, <1>7, <1>15 DEF n
            <4> QED
                BY <3>1, <4>1, <1>1, <1>4
        <3>2. CASE o # z
            <4>1. m_list[o] # << >> /\ m_list'[o] = m_list[o] /\ s.chunk \in 1 .. n
                BY <2>2, <3>2, <1>5, <1>10
            <4>2. s # r
                BY <4>1, <1>1 DEF n
            <4> QED
                BY <2>2, <4>1, <4>2, <3>2, <1>4 DEF RegionInv
        <3> QED
            BY <3>1, <3>2
    <2>3. ASSUME NEW s \in given', NEW t \in given', s # t PROVE ~Overlap(s, t)
        <3>1. CASE s \in given /\ t \in given
            BY <2>3, <3>1 DEF RegionInv
        <3>2. CASE s = r \/ t = r
            BY <2>3, <3>2, <1>15 DEF Overlap
        <3> QED
            BY <3>1, <3>2
    <2> QED
        BY <2>1, <2>2, <2>3, <1>2 DEF RegionInv
<1>17. r.chunk = Last(m_list'[z]) /\ r.at + r.size = m_ptr'[z]
    BY <1>4, <1>7 DEF n
<1> QED
    BY <1>7, <1>9, <1>11, <1>12, <1>14, <1>15, <1>16, <1>17 DEF Handed

LEMMA TakeHands ==
    ASSUME TypeOK, RoomInv, ListInv, RegionInv, NEW z \in Pool, m_list[z] # << >>,
           NEW n \in Nat, NEW align \in Nat \ {0}, NEW b \in Base,
           NEW r, r = Found(z, n, align, b), Take(z, r, Enough(n, align), b),
           given' = given \cup {r}, UNCHANGED <<m_chunk_size, freed>>
    PROVE  Handed(z, r) /\ r.size = n /\ (r.chunk = Last(m_list[z]) => m_ptr[z] <= r.at)
<1>1. /\ r \in Region /\ r.chunk \in Nat /\ r.at \in Nat /\ r.size = n
      /\ \/ /\ r.chunk = Last(m_list[z])
            /\ m_ptr[z] <= r.at /\ r.at + n <= m_ptr[z] + m_free[z]
         \/ /\ r.chunk = Len(size) + 1
            /\ HEADER <= r.at /\ r.at <= HEADER + align - 1
    <2>1. FoundAt(z, n, align, r)
        BY FoundIs
    <2> QED
        BY <2>1 DEF FoundAt
<1>2. Last(m_list[z]) \in DOMAIN size /\ Len(size) + 1 \notin DOMAIN size
    BY Listed, Numbers
<1>3. CASE r.chunk = Last(m_list[z])
    <2>1. /\ m_ptr' = [m_ptr EXCEPT ![z] = r.at + r.size]
          /\ m_free' = [m_free EXCEPT ![z] = @ - (r.at + r.size - m_ptr[z])]
          /\ UNCHANGED <<m_list, size, base>>
        BY <1>2, <1>3 DEF Take
    <2>2. m_ptr[z] <= r.at /\ r.at + r.size <= m_ptr[z] + m_free[z]
        BY <1>1, <1>2, <1>3, Numbers
    <2> QED
        BY <1>1, <1>3, <2>1, <2>2, TakeRoom
<1>4. CASE r.chunk = Len(size) + 1 /\ HEADER <= r.at /\ r.at <= HEADER + align - 1
    <2> DEFINE sz == Doubled(m_chunk_size[z], Enough(n, align))
    <2>1. /\ m_ptr' = [m_ptr EXCEPT ![z] = r.at + r.size]
          /\ m_free' = [m_free EXCEPT ![z] = sz - (r.at + r.size - HEADER)]
          /\ m_list' = [m_list EXCEPT ![z] = Append(@, r.chunk)]
          /\ size' = Append(size, HEADER + sz) /\ base' = Append(base, b)
        BY <1>2, <1>4 DEF Take, NewChunk
    <2>2. sz \in Nat /\ sz >= n + align - 1
        <3>1. m_chunk_size[z] \in Nat /\ Enough(n, align) \in Nat
              /\ Enough(n, align) = n + align - 1
            BY Numbers DEF Enough
        <3> QED
            BY <3>1, DoubledEnough
    <2> HIDE DEF sz
    <2>3. r.at + r.size <= HEADER + sz
        BY <1>1, <1>4, <2>2, Constants
    <2>4. r.chunk # Last(m_list[z])
        BY <1>2, <1>4
    <2> QED
        BY <1>1, <1>4, <2>1, <2>2, <2>3, <2>4, TakeNew
<1> QED
    BY <1>1, <1>3, <1>4

\* The fields that have nothing to do with chunks.
RestOK ==
    /\ state \in [Pool -> {"none", "live", "moved"}]
    /\ m_chunk_size \in [Pool -> ChunkSize \cup {0}]
    /\ m_fins \in [Pool -> Seq(Region)]
    /\ built \subseteq given
    /\ pc \in {"idle", "push", "construct", "assign"}
    /\ this \in Pool \cup {NULL} /\ other \in Pool \cup {NULL}
    /\ x \in Region

LEMMA TypeSplit == (TypeOK => HeapOK /\ RestOK) /\ (HeapOK' /\ RestOK' => TypeOK')
BY DEF TypeOK, HeapOK, RestOK

\* Finalizers stay good while lists grow.
LEMMA FinKept ==
    ASSUME FinInv, pc # "assign", pc' # "assign", Owed' = Owed, UNCHANGED m_fins,
           \A o \in Pool : \A i \in DOMAIN m_list[o] :
              i \in DOMAIN m_list'[o] /\ m_list'[o][i] = m_list[o][i]
    PROVE  FinInv'
<1>1. ASSUME NEW z \in Pool, NEW i \in DOMAIN m_fins[z], m_fins[z][i] # Nowhere
      PROVE  m_fins[z][i] \in Owed' /\ In(m_fins[z][i], m_list'[z])
    <2>1. m_fins[z][i] \in Owed /\ In(m_fins[z][i], m_list[z])
        BY <1>1 DEF FinInv, Keeper
    <2>2. In(m_fins[z][i], m_list'[z])
        BY <2>1 DEF In, Elements
    <2> QED
        BY <2>1, <2>2
<1> QED
    BY <1>1 DEF FinInv, Keeper

\* What there is and is not stays so.
LEMMA StateKept ==
    ASSUME IInv, NEW z \in Pool, state[z] = "live", pc # "assign", pc' # "assign",
           NEW r, NEW n, NEW b, Take(z, r, n, b), Handed(z, r), UNCHANGED <<state, m_fins>>
    PROVE  StateInv'
<1>1. ASSUME NEW o \in Pool, state[o] = "none" PROVE m_list'[o] = << >> /\ m_fins[o] = << >>
    <2>1. o # z
        BY <1>1
    <2>2. m_list'[o] = m_list[o]
        BY <2>1 DEF Take, IInv, TypeOK
    <2> QED
        BY <1>1, <2>2 DEF IInv, StateInv
<1>2. ASSUME NEW o \in Pool, state[o] = "live" PROVE m_list'[o] # << >>
    <2>1. m_list[o] # << >>
        BY <1>2 DEF IInv, StateInv
    <2>2. 1 \in DOMAIN m_list[o]
        BY <2>1, Listed DEF IInv
    <2>3. 1 \in DOMAIN m_list'[o]
        BY <2>2 DEF Handed
    <2> QED
        BY <2>3
<1> QED
    BY <1>1, <1>2 DEF StateInv

LEMMA AllocateHands ==
    ASSUME IInv, NEW z \in Pool, NEW n \in Request, NEW align \in Align, CanTake(z),
           NEW b \in Base, NEW r, r = Found(z, n, align, b), Take(z, r, Enough(n, align), b),
           given' = given \cup {r}, UNCHANGED <<m_chunk_size, freed>>
    PROVE  /\ Handed(z, r) /\ r.size = n /\ n \in Nat
           /\ pc = "idle" /\ m_list[z] # << >>
<1>1. pc = "idle" /\ m_list[z] # << >>
    BY DEF CanTake, IInv, StateInv
<1>2. n \in Nat /\ align \in Nat \ {0}
    BY Constants
<1> QED
    BY <1>1, <1>2, TakeHands DEF IInv

LEMMA AllocateInv ==
    ASSUME IInv, NEW z \in Pool, NEW n \in Request, NEW align \in Align, Allocate(z, n, align)
    PROVE  IInv'
<1>1. PICK b \in Base : LET r == Found(z, n, align, b) IN
          Take(z, r, Enough(n, align), b) /\ given' = given \cup {r}
    BY DEF Allocate
<1> DEFINE r == Found(z, n, align, b)
<1>2. /\ CanTake(z)
      /\ UNCHANGED <<state, m_chunk_size, m_fins, freed, built, call>>
      /\ UNCHANGED <<pc, this, other, x>>
    BY DEF Allocate, call
<1>3. Handed(z, r) /\ pc = "idle" /\ state[z] = "live"
    BY <1>1, <1>2, AllocateHands DEF CanTake
<1>4. TypeOK'
    <2>1. RestOK
        BY TypeSplit DEF IInv
    <2>2. RestOK'
        BY <2>1, <1>1, <1>2 DEF RestOK
    <2> QED
        BY <2>2, <1>3, TypeSplit DEF Handed
<1>5. FinInv'
    <2>1. Owed' = Owed
        BY <1>2 DEF Owed
    <2> QED
        BY <2>1, <1>2, <1>3, FinKept DEF IInv, Handed
<1>6. StateInv'
    BY <1>1, <1>2, <1>3, StateKept
<1>7. CallInv'
    BY <1>2, <1>3 DEF CallInv
<1> QED
    BY <1>3, <1>4, <1>5, <1>6, <1>7 DEF IInv, Handed

LEMMA Allocate_TInv ==
    ASSUME IInv, NEW z \in Pool, NEW n \in Request, NEW align \in Align, Allocate_T(z, n, align)
    PROVE  IInv'
<1>1. PICK b \in Base : LET r == Found(z, n, align, b) IN
          Take(z, r, Enough(n, align), b) /\ given' = given \cup {r} /\ x' = r
    BY DEF Allocate_T
<1> DEFINE r == Found(z, n, align, b)
<1>2. /\ CanTake(z) /\ n > 0
      /\ UNCHANGED <<state, m_chunk_size, m_fins, freed, built, other>>
      /\ this' = z /\ pc' = "push" /\ x' = r
    BY <1>1 DEF Allocate_T
<1>3. Handed(z, r) /\ pc = "idle" /\ state[z] = "live" /\ r.size = n /\ n \in Nat
    BY <1>1, <1>2, AllocateHands DEF CanTake
<1>4. given' = given \cup {r}
    BY <1>1
<1> HIDE DEF r
<1>5. TypeOK'
    <2>1. RestOK
        BY TypeSplit DEF IInv
    <2>2. RestOK'
        BY <2>1, <1>2, <1>3, <1>4 DEF RestOK, Handed
    <2> QED
        BY <2>2, <1>3, TypeSplit DEF Handed
<1>6. FinInv'
    <2>1. Owed' = Owed
        BY <1>2, <1>3 DEF Owed
    <2> QED
        BY <2>1, <1>2, <1>3, FinKept DEF IInv, Handed
<1>7. StateInv'
    BY <1>1, <1>2, <1>3, StateKept DEF r
<1>8. r \notin built
    <2>1. ASSUME r \in given PROVE FALSE
        <3>1. r.at \in Nat /\ r.size \in Nat
            BY <2>1, Numbers DEF IInv
        <3>2. r.at + r.size <= r.at
            BY <2>1, <1>3 DEF Handed
        <3> QED
            BY <3>1, <3>2, <1>2, <1>3
    <2> QED
        BY <2>1 DEF IInv, TypeOK
<1>9. \A s \in given' : s # r /\ s.chunk = r.chunk => s.at + s.size <= r.at
    BY <1>3, <1>4 DEF Handed
<1>10. CallInv'
    BY <1>2, <1>3, <1>4, <1>8, <1>9 DEF CallInv, Handed
<1> QED
    BY <1>3, <1>5, <1>6, <1>7, <1>10 DEF IInv, Handed
-----------------------------------------------------------------------------
(* The object in the making *)

\* undo_allocate takes back the region, and the room is what is behind the others.
LEMMA UndoInv ==
    ASSUME IInv, pc \in {"push", "construct"}, Undo, UNCHANGED <<m_chunk_size, freed>>
    PROVE  HeapOK' /\ RoomInv' /\ ListInv' /\ RegionInv' /\ built \subseteq given'
<1> SUFFICES ASSUME NEW z \in Pool, z = this,
                    m_ptr' = [m_ptr EXCEPT ![z] = @ - x.size],
                    m_free' = [m_free EXCEPT ![z] = @ + x.size],
                    given' = given \ {x},
                    UNCHANGED <<m_list, size, base>>
             PROVE  HeapOK' /\ RoomInv' /\ ListInv' /\ RegionInv' /\ built \subseteq given'
    <2>1. this \in Pool
        BY DEF IInv, CallInv
    <2> QED
        BY <2>1 DEF Undo
<1>1. /\ m_list[z] # << >> /\ x \in given /\ x \notin built
      /\ x.chunk = Last(m_list[z]) /\ x.at + x.size = m_ptr[z]
      /\ \A r \in given : r # x /\ r.chunk = x.chunk => r.at + r.size <= x.at
    BY DEF IInv, CallInv
<1>2. /\ m_ptr[z] \in Nat /\ m_free[z] \in Nat /\ HEADER \in Nat
      /\ x.at \in Nat /\ x.size \in Nat /\ HEADER <= x.at
    BY <1>1, Numbers, Constants DEF IInv, RegionInv
<1>3. m_ptr[z] - x.size = x.at
    BY <1>1, <1>2
<1>4. /\ m_ptr'[z] = x.at /\ m_free'[z] = m_free[z] + x.size
      /\ m_ptr'[z] + m_free'[z] = m_ptr[z] + m_free[z]
    <2>1. m_ptr'[z] = x.at /\ m_free'[z] = m_free[z] + x.size
        BY <1>3 DEF IInv, TypeOK
    <2> QED
        BY <2>1, <1>1, <1>2
<1>5. \A o \in Pool : o # z => m_ptr'[o] = m_ptr[o] /\ m_free'[o] = m_free[o]
    BY DEF IInv, TypeOK
<1>6. HeapOK'
    <2>1. m_free \in [Pool -> Nat] /\ m_ptr \in [Pool -> Nat]
        BY DEF IInv, TypeOK
    <2>2. m_free[z] + x.size \in Nat /\ m_ptr[z] - x.size \in Nat
        BY <1>2, <1>3
    <2>3. m_free' \in [Pool -> Nat] /\ m_ptr' \in [Pool -> Nat]
        BY <2>1, <2>2
    <2> QED
        BY <2>3 DEF HeapOK, IInv, TypeOK
<1>7. RoomInv'
    <2> SUFFICES ASSUME NEW o \in Pool, m_list[o] # << >>
                 PROVE  /\ HEADER <= m_ptr'[o]
                        /\ m_ptr'[o] + m_free'[o] = size[Last(m_list[o])]
                        /\ size[m_list[o][1]] = HEADER + m_chunk_size[o]
        BY DEF RoomInv
    <2>1. /\ HEADER <= m_ptr[o]
          /\ m_ptr[o] + m_free[o] = size[Last(m_list[o])]
          /\ size[m_list[o][1]] = HEADER + m_chunk_size[o]
        BY DEF IInv, RoomInv
    <2> QED
        BY <2>1, <1>2, <1>4, <1>5
<1>8. ListInv'
    BY DEF IInv, ListInv
<1>9. RegionInv'
    <2>1. ASSUME NEW o \in Pool, NEW s \in given', m_list[o] # << >>, s.chunk = Last(m_list[o])
          PROVE  s.at + s.size <= m_ptr'[o]
        <3>1. CASE o = z
            BY <2>1, <3>1, <1>1, <1>4
        <3>2. CASE o # z
            BY <2>1, <3>2, <1>5 DEF IInv, RegionInv
        <3> QED
            BY <3>1, <3>2
    <2> QED
        BY <2>1 DEF RegionInv, IInv
<1>10. built \subseteq given'
    BY <1>1 DEF IInv, TypeOK
<1> QED
    BY <1>6, <1>7, <1>8, <1>9, <1>10

\* What is called back on in any zone is not the object that has no finalizer yet.
LEMMA NotYet ==
    ASSUME IInv, pc = "push"
    PROVE  /\ this \in Pool /\ x # Nowhere
           /\ \A z \in Pool : \A i \in DOMAIN m_fins[z] : m_fins[z][i] # x
<1>1. this \in Pool /\ x \in given \ built
    BY DEF IInv, CallInv
<1>2. x.chunk \in 1 .. Len(size)
    BY <1>1 DEF IInv, RegionInv
<1>3. x # Nowhere
    BY <1>2 DEF Nowhere
<1>4. Owed = built
    BY DEF Owed
<1> QED
    BY <1>1, <1>3, <1>4 DEF IInv, FinInv

LEMMA Push_TInv == ASSUME IInv, Push_T PROVE IInv'
<1>1. /\ pc = "push" /\ pc' = "construct"
      /\ m_fins' = [m_fins EXCEPT ![this] = Append(@, x)]
      /\ UNCHANGED <<state, m_chunk_size, m_list, m_free, m_ptr, size, base, freed, given,
                     built, this, other, x>>
    BY DEF Push_T, room, heap
<1>2. /\ this \in Pool /\ x # Nowhere
      /\ \A z \in Pool : \A i \in DOMAIN m_fins[z] : m_fins[z][i] # x
    BY <1>1, NotYet
<1> DEFINE l == m_fins[this]
           f == m_fins'[this]
<1>3. l \in Seq(Region) /\ x \in Region
    BY <1>2 DEF IInv, TypeOK
<1>4. f = Append(l, x) /\ \A z \in Pool : z # this => m_fins'[z] = m_fins[z]
    BY <1>1, <1>2 DEF IInv, TypeOK
<1>5. /\ f \in Seq(Region) /\ f # << >> /\ Last(f) = x
      /\ Len(l) \in Nat /\ DOMAIN l = 1 .. Len(l) /\ DOMAIN f = 1 .. Len(l) + 1
      /\ \A i \in 1 .. Len(l) : f[i] = l[i]
      /\ f[Len(l) + 1] = x
    <2> HIDE DEF l
    <2> QED
        BY <1>3, <1>4, Appended
<1>6. TypeOK'
    <2>1. RestOK /\ HeapOK
        BY TypeSplit DEF IInv
    <2>2. HeapOK'
        BY <2>1, <1>1 DEF HeapOK
    <2>3. m_fins' \in [Pool -> Seq(Region)]
        BY <1>1, <1>2, <1>4, <1>5 DEF IInv, TypeOK
    <2>4. RestOK'
        BY <2>1, <2>3, <1>1 DEF RestOK
    <2> QED
        BY <2>2, <2>4, TypeSplit
<1>7. RoomInv' /\ ListInv' /\ RegionInv'
    BY <1>1 DEF IInv, RoomInv, ListInv, RegionInv
<1>8. \A z \in Pool : \A i \in DOMAIN m_fins'[z] :
         \/ i \in DOMAIN m_fins[z] /\ m_fins'[z][i] = m_fins[z][i] /\ m_fins'[z][i] # x
         \/ z = this /\ i = Len(l) + 1 /\ m_fins'[z][i] = x
    <2> SUFFICES ASSUME NEW z \in Pool, NEW i \in DOMAIN m_fins'[z]
                 PROVE  \/ /\ i \in DOMAIN m_fins[z] /\ m_fins'[z][i] = m_fins[z][i]
                           /\ m_fins'[z][i] # x
                        \/ z = this /\ i = Len(l) + 1 /\ m_fins'[z][i] = x
        OBVIOUS
    <2>1. CASE z # this
        BY <2>1, <1>2, <1>4
    <2>2. CASE z = this /\ i \in 1 .. Len(l)
        BY <2>2, <1>2, <1>5
    <2>3. CASE z = this /\ i \notin 1 .. Len(l)
        <3>1. i = Len(l) + 1
            BY <2>3, <1>5
        <3> QED
            BY <2>3, <3>1, <1>5
    <2> QED
        BY <2>1, <2>2, <2>3
<1>9. \A z \in Pool : \A i \in DOMAIN m_fins[z] :
         i \in DOMAIN m_fins'[z] /\ m_fins'[z][i] = m_fins[z][i]
    BY <1>4, <1>5, SMTT(30)
<1>10. FinInv'
    <2>1. Owed = built /\ Owed' = built \cup {x}
        BY <1>1 DEF Owed
    <2>2. ASSUME NEW z \in Pool, NEW i \in DOMAIN m_fins'[z], m_fins'[z][i] # Nowhere
          PROVE  m_fins'[z][i] \in Owed' /\ In(m_fins'[z][i], m_list[z])
        <3>1. CASE i \in DOMAIN m_fins[z] /\ m_fins'[z][i] = m_fins[z][i]
            BY <2>1, <2>2, <3>1, <1>1 DEF IInv, FinInv, Keeper
        <3>2. CASE z = this /\ m_fins'[z][i] = x
            <4>1. m_list[this] # << >> /\ x.chunk = Last(m_list[this])
                BY <1>1 DEF IInv, CallInv
            <4>2. x.chunk \in Elements(m_list[this])
                BY <4>1, <1>2, Listed DEF IInv, Elements
            <4> QED
                BY <2>1, <3>2, <4>2 DEF In
        <3> QED
            BY <3>1, <3>2, <1>8
    <2>3. ASSUME NEW r \in Owed' PROVE \E z \in Pool : \E i \in DOMAIN m_fins'[z] : m_fins'[z][i] = r
        <3>1. CASE r = x
            <4>1. Len(l) + 1 \in DOMAIN m_fins'[this]
                BY <1>5
            <4> QED
                BY <3>1, <4>1, <1>2, <1>5
        <3>2. CASE r \in built
            <4>1. PICK z \in Pool : \E i \in DOMAIN m_fins[z] : m_fins[z][i] = r
                BY <2>1, <3>2 DEF IInv, FinInv
            <4> QED
                BY <4>1, <1>9
        <3> QED
            BY <2>1, <3>1, <3>2
    <2>4. ASSUME NEW z \in Pool, NEW o \in Pool, NEW i \in DOMAIN m_fins'[z],
                 NEW j \in DOMAIN m_fins'[o], m_fins'[z][i] = m_fins'[o][j],
                 m_fins'[z][i] # Nowhere
          PROVE  z = o /\ i = j
        <3>1. CASE m_fins'[z][i] = x
            BY <2>4, <3>1, <1>8
        <3>2. CASE m_fins'[z][i] # x
            <4>1. /\ i \in DOMAIN m_fins[z] /\ m_fins'[z][i] = m_fins[z][i]
                  /\ j \in DOMAIN m_fins[o] /\ m_fins'[o][j] = m_fins[o][j]
                BY <2>4, <3>2, <1>8
            <4>2. m_fins[z][i] = m_fins[o][j] /\ m_fins[z][i] # Nowhere
                BY <2>4, <4>1
            <4> QED
                BY <4>1, <4>2 DEF IInv, FinInv
        <3> QED
            BY <3>1, <3>2
    <2> QED
        BY <2>2, <2>3, <2>4, <1>1 DEF FinInv, Keeper
<1>11. StateInv'
    <2>1. state[this] # "none"
        BY <1>1, <1>2 DEF IInv, StateInv, CallInv
    <2> QED
        BY <2>1, <1>1, <1>4 DEF IInv, StateInv
<1>12. CallInv'
    BY <1>1, <1>5 DEF IInv, CallInv
<1> QED
    BY <1>6, <1>7, <1>10, <1>11, <1>12 DEF IInv

LEMMA Push_T_ThrowsInv == ASSUME IInv, Push_T_Throws PROVE IInv'
<1>1. /\ pc = "push" /\ pc' = "idle" /\ this' = NULL /\ other' = NULL /\ x' = Nowhere
      /\ Undo
      /\ UNCHANGED <<state, m_chunk_size, m_fins, freed, built, m_list>>
    BY DEF Push_T_Throws, Return, Undo
<1>2. HeapOK' /\ RoomInv' /\ ListInv' /\ RegionInv' /\ built \subseteq given'
    BY <1>1, UndoInv
<1>3. TypeOK'
    <2>1. RestOK
        BY TypeSplit DEF IInv
    <2>2. Nowhere \in Region
        BY DEF Nowhere, Region
    <2>3. RestOK'
        BY <2>1, <2>2, <1>1, <1>2 DEF RestOK
    <2> QED
        BY <1>2, <2>3, TypeSplit
<1>4. FinInv'
    <2>1. Owed' = Owed
        BY <1>1 DEF Owed
    <2> QED
        BY <2>1, <1>1, FinKept DEF IInv
<1>5. StateInv' /\ CallInv'
    BY <1>1 DEF IInv, StateInv, CallInv
<1> QED
    BY <1>2, <1>3, <1>4, <1>5 DEF IInv

LEMMA Construct_TInv == ASSUME IInv, Construct_T PROVE IInv'
<1>1. /\ pc = "construct" /\ pc' = "idle" /\ this' = NULL /\ other' = NULL /\ x' = Nowhere
      /\ built' = built \cup {x}
      /\ UNCHANGED <<state, m_chunk_size, m_list, m_free, m_ptr, m_fins, size, base, freed, given>>
    BY DEF Construct_T, Return, fields, heap
<1>2. TypeOK'
    <2>1. RestOK /\ HeapOK
        BY TypeSplit DEF IInv
    <2>2. Nowhere \in Region /\ x \in given
        BY <1>1 DEF Nowhere, Region, IInv, CallInv
    <2>3. RestOK' /\ HeapOK'
        BY <2>1, <2>2, <1>1 DEF RestOK, HeapOK
    <2> QED
        BY <2>3, TypeSplit
<1>3. RoomInv' /\ ListInv' /\ RegionInv'
    BY <1>1 DEF IInv, RoomInv, ListInv, RegionInv
<1>4. FinInv'
    <2>1. Owed' = Owed
        BY <1>1 DEF Owed
    <2> QED
        BY <2>1, <1>1, FinKept DEF IInv
<1>5. StateInv' /\ CallInv'
    BY <1>1 DEF IInv, StateInv, CallInv
<1> QED
    BY <1>2, <1>3, <1>4, <1>5 DEF IInv

LEMMA Construct_T_ThrowsInv == ASSUME IInv, Construct_T_Throws PROVE IInv'
<1>1. /\ pc = "construct" /\ pc' = "idle" /\ this' = NULL /\ other' = NULL /\ x' = Nowhere
      /\ Undo /\ m_fins' = [m_fins EXCEPT ![this] = Front(@)]
      /\ UNCHANGED <<state, m_chunk_size, freed, built, m_list>>
    BY DEF Construct_T_Throws, Return, Undo
<1>2. HeapOK' /\ RoomInv' /\ ListInv' /\ RegionInv' /\ built \subseteq given'
    BY <1>1, UndoInv
<1> DEFINE l == m_fins[this]
           f == m_fins'[this]
<1>3. /\ this \in Pool /\ m_list[this] # << >> /\ l # << >> /\ Last(l) = x
      /\ l \in Seq(Region) /\ x \in given /\ x \notin built
    BY <1>1 DEF IInv, CallInv, TypeOK
<1>4. f = Front(l) /\ \A z \in Pool : z # this => m_fins'[z] = m_fins[z]
    BY <1>1, <1>3 DEF IInv, TypeOK
<1>5. /\ f \in Seq(Region) /\ Len(l) \in Nat /\ Len(l) > 0
      /\ DOMAIN l = 1 .. Len(l) /\ DOMAIN f = 1 .. Len(l) - 1
      /\ \A i \in 1 .. Len(l) - 1 : f[i] = l[i]
      /\ l[Len(l)] = x
    <2>1. l[Len(l)] = x
        BY <1>3 DEF Last
    <2> HIDE DEF l
    <2> QED
        BY <2>1, <1>3, <1>4, Fronted
<1>6. x # Nowhere
    <2>1. x.chunk \in 1 .. Len(size)
        BY <1>3 DEF IInv, RegionInv
    <2> QED
        BY <2>1 DEF Nowhere
<1>7. TypeOK'
    <2>1. RestOK
        BY TypeSplit DEF IInv
    <2>2. Nowhere \in Region
        BY DEF Nowhere, Region
    <2>3. m_fins' \in [Pool -> Seq(Region)]
        BY <1>1, <1>3, <1>4, <1>5 DEF IInv, TypeOK
    <2>4. RestOK'
        BY <2>1, <2>2, <2>3, <1>1, <1>2 DEF RestOK
    <2> QED
        BY <1>2, <2>4, TypeSplit
<1>8. FinInv'
    <2>1. Owed = built \cup {x} /\ Owed' = built
        BY <1>1 DEF Owed
    <2>2. \A z \in Pool : \A i \in DOMAIN m_fins'[z] :
             i \in DOMAIN m_fins[z] /\ m_fins'[z][i] = m_fins[z][i]
        BY <1>4, <1>5, SMTT(30)
    <2>3. ASSUME NEW z \in Pool, NEW i \in DOMAIN m_fins[z], m_fins[z][i] = x
          PROVE  z = this /\ i = Len(l)
        <3>1. Len(l) \in DOMAIN m_fins[this] /\ m_fins[this][Len(l)] = m_fins[z][i]
            BY <2>3, <1>5
        <3> QED
            BY <2>3, <3>1, <1>3, <1>6 DEF IInv, FinInv
    <2>4. ASSUME NEW z \in Pool, NEW i \in DOMAIN m_fins'[z], m_fins'[z][i] # Nowhere
          PROVE  m_fins'[z][i] \in Owed' /\ In(m_fins'[z][i], m_list[z])
        <3>1. m_fins[z][i] \in Owed /\ In(m_fins[z][i], m_list[z])
            BY <2>2, <2>4, <1>1 DEF IInv, FinInv, Keeper
        <3>2. m_fins[z][i] # x
            <4>1. Len(l) \notin DOMAIN m_fins'[this]
                BY <1>5
            <4> QED
                BY <4>1, <2>2, <2>3
        <3> QED
            BY <3>1, <3>2, <2>1, <2>2
    <2>5. ASSUME NEW r \in Owed' PROVE \E z \in Pool : \E i \in DOMAIN m_fins'[z] : m_fins'[z][i] = r
        <3>1. PICK z \in Pool : \E i \in DOMAIN m_fins[z] : m_fins[z][i] = r
            BY <2>1 DEF IInv, FinInv
        <3>2. PICK i \in DOMAIN m_fins[z] : m_fins[z][i] = r
            BY <3>1
        <3>3. CASE z # this
            BY <3>2, <3>3, <1>4
        <3>4. CASE z = this
            <4>1. i # Len(l)
                BY <3>2, <3>4, <2>1, <1>3, <1>5
            <4>2. i \in DOMAIN m_fins'[this]
                BY <3>4, <4>1, <1>5
            <4> QED
                BY <3>2, <3>4, <4>2, <2>2
        <3> QED
            BY <3>3, <3>4
    <2>6. ASSUME NEW z \in Pool, NEW o \in Pool, NEW i \in DOMAIN m_fins'[z],
                 NEW j \in DOMAIN m_fins'[o], m_fins'[z][i] = m_fins'[o][j],
                 m_fins'[z][i] # Nowhere
          PROVE  z = o /\ i = j
        <3>1. /\ i \in DOMAIN m_fins[z] /\ j \in DOMAIN m_fins[o]
              /\ m_fins[z][i] = m_fins[o][j] /\ m_fins[z][i] # Nowhere
            BY <2>2, <2>6
        <3> QED
            BY <3>1 DEF IInv, FinInv
    <2> QED
        BY <2>4, <2>5, <2>6, <1>1 DEF FinInv, Keeper
<1>9. StateInv'
    <2>1. state[this] # "none"
        BY <1>1, <1>3 DEF IInv, StateInv
    <2> QED
        BY <2>1, <1>1, <1>4 DEF IInv, StateInv
<1>10. CallInv'
    BY <1>1 DEF CallInv
<1> QED
    BY <1>2, <1>7, <1>8, <1>9, <1>10 DEF IInv

LEMMA PushFinalizerInv == ASSUME IInv, NEW z \in Pool, PushFinalizer(z) PROVE IInv'
<1>1. /\ pc = "idle" /\ state[z] # "none"
      /\ m_fins' = [m_fins EXCEPT ![z] = Append(@, Nowhere)]
      /\ UNCHANGED <<state, m_chunk_size, m_list, m_free, m_ptr, size, base, freed, given, built,
                     pc, this, other, x>>
    BY DEF PushFinalizer, room, heap, call
<1> DEFINE l == m_fins[z]
           f == m_fins'[z]
<1>2. l \in Seq(Region) /\ Nowhere \in Region
    BY DEF IInv, TypeOK, Nowhere, Region
<1>3. f = Append(l, Nowhere) /\ \A o \in Pool : o # z => m_fins'[o] = m_fins[o]
    BY <1>1 DEF IInv, TypeOK
<1>4. /\ f \in Seq(Region)
      /\ Len(l) \in Nat /\ DOMAIN l = 1 .. Len(l) /\ DOMAIN f = 1 .. Len(l) + 1
      /\ \A i \in 1 .. Len(l) : f[i] = l[i]
      /\ f[Len(l) + 1] = Nowhere
    <2> HIDE DEF l
    <2> QED
        BY <1>2, <1>3, Appended
<1>5. TypeOK'
    <2>1. RestOK /\ HeapOK
        BY TypeSplit DEF IInv
    <2>2. HeapOK'
        BY <2>1, <1>1 DEF HeapOK
    <2>3. m_fins' \in [Pool -> Seq(Region)]
        BY <1>1, <1>3, <1>4 DEF IInv, TypeOK
    <2>4. RestOK'
        BY <2>1, <2>3, <1>1 DEF RestOK
    <2> QED
        BY <2>2, <2>4, TypeSplit
<1>6. RoomInv' /\ ListInv' /\ RegionInv'
    BY <1>1 DEF IInv, RoomInv, ListInv, RegionInv
<1>7. FinInv'
    <2>1. Owed' = Owed
        BY <1>1 DEF Owed
    <2>2. \A o \in Pool : \A i \in DOMAIN m_fins'[o] : m_fins'[o][i] # Nowhere =>
             i \in DOMAIN m_fins[o] /\ m_fins'[o][i] = m_fins[o][i]
        <3> SUFFICES ASSUME NEW i \in DOMAIN m_fins'[z], m_fins'[z][i] # Nowhere
                     PROVE  i \in DOMAIN m_fins[z] /\ m_fins'[z][i] = m_fins[z][i]
            BY <1>3
        <3>1. i # Len(l) + 1
            BY <1>4
        <3>2. i \in 1 .. Len(l)
            BY <3>1, <1>4
        <3> QED
            BY <3>2, <1>4
    <2>3. \A o \in Pool : \A i \in DOMAIN m_fins[o] :
             i \in DOMAIN m_fins'[o] /\ m_fins'[o][i] = m_fins[o][i]
        BY <1>3, <1>4, SMTT(30)
    <2>4. ASSUME NEW o \in Pool, NEW i \in DOMAIN m_fins'[o], m_fins'[o][i] # Nowhere
          PROVE  m_fins'[o][i] \in Owed /\ In(m_fins'[o][i], m_list[o])
        BY <2>2, <2>4, <1>1 DEF IInv, FinInv, Keeper
    <2>5. ASSUME NEW r \in Owed PROVE \E o \in Pool : \E i \in DOMAIN m_fins'[o] : m_fins'[o][i] = r
        <3>1. PICK o \in Pool : \E i \in DOMAIN m_fins[o] : m_fins[o][i] = r
            BY DEF IInv, FinInv
        <3> QED
            BY <3>1, <2>3
    <2>6. ASSUME NEW y \in Pool, NEW o \in Pool, NEW i \in DOMAIN m_fins'[y],
                 NEW j \in DOMAIN m_fins'[o], m_fins'[y][i] = m_fins'[o][j],
                 m_fins'[y][i] # Nowhere
          PROVE  y = o /\ i = j
        <3>1. /\ i \in DOMAIN m_fins[y] /\ j \in DOMAIN m_fins[o]
              /\ m_fins[y][i] = m_fins[o][j] /\ m_fins[y][i] # Nowhere
            BY <2>2, <2>6
        <3> QED
            BY <3>1 DEF IInv, FinInv
    <2> QED
        BY <2>1, <2>4, <2>5, <2>6, <1>1 DEF FinInv, Keeper
<1>8. StateInv'
    BY <1>1, <1>3 DEF IInv, StateInv
<1>9. CallInv'
    BY <1>1 DEF CallInv
<1> QED
    BY <1>5, <1>6, <1>7, <1>8, <1>9 DEF IInv
-----------------------------------------------------------------------------
(* The end of what is in a zone *)

LEMMA ConstructInv == ASSUME IInv, NEW z \in Pool, NEW c \in ChunkSize, Construct(z, c) PROVE IInv'
<1>1. PICK b \in Base : NewChunk(c, b)
    BY DEF Construct
<1>2. /\ pc = "idle" /\ state[z] = "none"
      /\ size' = Append(size, HEADER + c) /\ base' = Append(base, b)
      /\ state' = [state EXCEPT ![z] = "live"]
      /\ m_chunk_size' = [m_chunk_size EXCEPT ![z] = c]
      /\ m_list' = [m_list EXCEPT ![z] = <<Len(size) + 1>>]
      /\ m_free' = [m_free EXCEPT ![z] = c]
      /\ m_ptr' = [m_ptr EXCEPT ![z] = HEADER]
      /\ UNCHANGED <<m_fins, freed, given, built, pc, this, other, x>>
    BY <1>1 DEF Construct, NewChunk, call
<1> DEFINE n == Len(size)
<1>3. /\ HEADER \in Nat /\ n \in Nat /\ c \in Nat /\ HEADER + c \in Nat
      /\ size \in Seq(Nat) /\ base \in Seq(Base) /\ Len(base) = n
    BY Numbers, Constants DEF IInv, TypeOK
<1>4. /\ size' \in Seq(Nat) /\ Len(size') = n + 1
      /\ \A k \in 1 .. n : size'[k] = size[k]
      /\ size'[n + 1] = HEADER + c
    BY <1>2, <1>3, Appended
<1>5. base' \in Seq(Base) /\ Len(base') = n + 1
    BY <1>2, <1>3, Appended
<1>6. m_list[z] = << >> /\ m_fins[z] = << >>
    BY <1>2 DEF IInv, StateInv
<1>7. /\ m_list'[z] = <<n + 1>> /\ m_ptr'[z] = HEADER /\ m_free'[z] = c /\ m_chunk_size'[z] = c
      /\ state'[z] = "live"
      /\ \A o \in Pool : o # z =>
            /\ m_list'[o] = m_list[o] /\ m_ptr'[o] = m_ptr[o] /\ m_free'[o] = m_free[o]
            /\ m_chunk_size'[o] = m_chunk_size[o] /\ state'[o] = state[o]
    BY <1>2 DEF IInv, TypeOK
<1>8. /\ <<n + 1>> # << >> /\ DOMAIN <<n + 1>> = {1} /\ <<n + 1>>[1] = n + 1
      /\ Last(<<n + 1>>) = n + 1
    BY DEF Last
<1>9. \A o \in Pool : m_list[o] # << >> =>
          Last(m_list[o]) \in 1 .. n /\ m_list[o][1] \in 1 .. n
    BY Listed DEF IInv
<1>10. \A s \in given : s.chunk \in 1 .. n
    BY DEF IInv, RegionInv
<1>11. n + 1 \notin 1 .. n /\ n + 1 \notin freed
    BY <1>3, SMTT(30) DEF IInv, TypeOK
<1>12. TypeOK'
    <2>1. RestOK /\ HeapOK
        BY TypeSplit DEF IInv
    <2>2. RestOK'
        BY <2>1, <1>2 DEF RestOK
    <2>3. m_free' \in [Pool -> Nat] /\ m_ptr' \in [Pool -> Nat]
        BY <2>1, <1>2, <1>3 DEF HeapOK
    <2>4. m_list' \in [Pool -> Seq(1 .. n + 1)]
        <3>1. m_list' = [o \in Pool |-> m_list'[o]]
            BY <2>1, <1>2 DEF HeapOK
        <3>2. 1 .. n \subseteq 1 .. n + 1 /\ n + 1 \in 1 .. n + 1
            BY <1>3
        <3>3. ASSUME NEW o \in Pool PROVE m_list[o] \in Seq(1 .. n + 1)
            <4>1. m_list[o] \in Seq(1 .. n)
                BY <2>1 DEF HeapOK
            <4> HIDE DEF n
            <4> QED
                BY <4>1, <3>2, WiderSeq
        <3>4. <<n + 1>> \in Seq(1 .. n + 1)
            BY <3>2
        <3>5. \A o \in Pool : m_list'[o] \in Seq(1 .. n + 1)
            BY <3>3, <3>4, <1>7
        <3> HIDE DEF n
        <3> QED
            BY <3>1, <3>5
    <2>5. freed' \subseteq 1 .. n + 1
        <3>1. freed \subseteq 1 .. n
            BY <2>1 DEF HeapOK
        <3> QED
            BY <3>1, <1>2, <1>3
    <2>6. HeapOK'
        BY <2>1, <2>3, <2>4, <2>5, <1>2, <1>4, <1>5 DEF HeapOK
    <2> QED
        BY <2>2, <2>6, TypeSplit
<1>13. RoomInv'
    <2> SUFFICES ASSUME NEW o \in Pool, m_list'[o] # << >>
                 PROVE  /\ HEADER <= m_ptr'[o]
                        /\ m_ptr'[o] + m_free'[o] = size'[Last(m_list'[o])]
                        /\ size'[m_list'[o][1]] = HEADER + m_chunk_size'[o]
        BY DEF RoomInv
    <2>1. CASE o = z
        BY <2>1, <1>3, <1>4, <1>7, <1>8
    <2>2. CASE o # z
        <3>1. m_list[o] # << >> /\ m_list'[o] = m_list[o]
            BY <2>2, <1>7
        <3>2. Last(m_list[o]) \in 1 .. n /\ m_list[o][1] \in 1 .. n
            BY <3>1, <1>9
        <3>3. /\ size'[Last(m_list[o])] = size[Last(m_list[o])]
              /\ size'[m_list[o][1]] = size[m_list[o][1]]
            BY <3>2, <1>4
        <3>4. /\ HEADER <= m_ptr[o]
              /\ m_ptr[o] + m_free[o] = size[Last(m_list[o])]
              /\ size[m_list[o][1]] = HEADER + m_chunk_size[o]
            BY <3>1 DEF IInv, RoomInv
        <3> QED
            BY <2>2, <3>1, <3>3, <3>4, <1>7
    <2> QED
        BY <2>1, <2>2
<1> HIDE DEF n
<1>14. ListInv'
    <2>1. ASSUME NEW o \in Pool, NEW i \in DOMAIN m_list'[o]
          PROVE  /\ m_list'[o][i] \in (1 .. n + 1) \ freed
                 /\ o # z => m_list'[o][i] # n + 1
        <3>1. CASE o = z
            BY <3>1, <1>3, <1>7, <1>8, <1>11
        <3>2. CASE o # z
            <4>1. m_list[o][i] \in (1 .. n) \ freed /\ m_list'[o][i] = m_list[o][i]
                BY <3>2, <1>7 DEF IInv, ListInv, n
            <4> QED
                BY <4>1, <1>3
        <3> QED
            BY <3>1, <3>2
    <2>2. ASSUME NEW k \in (1 .. n + 1) \ freed
          PROVE  \E o \in Pool : \E i \in DOMAIN m_list'[o] : m_list'[o][i] = k
        <3>1. CASE k = n + 1
            BY <3>1, <1>7, <1>8
        <3>2. CASE k # n + 1
            <4>1. k \in (1 .. n) \ freed
                BY <3>2, <1>3
            <4>2. PICK o \in Pool : \E i \in DOMAIN m_list[o] : m_list[o][i] = k
                BY <4>1 DEF IInv, ListInv, n
            <4>3. o # z
                BY <4>2, <1>6
            <4> QED
                BY <4>2, <4>3, <1>7
        <3> QED
            BY <3>1, <3>2
    <2>3. ASSUME NEW o \in Pool, NEW q \in Pool, NEW i \in DOMAIN m_list'[o],
                 NEW j \in DOMAIN m_list'[q], m_list'[o][i] = m_list'[q][j]
          PROVE  o = q /\ i = j
        <3>1. CASE o = z /\ q = z
            BY <3>1, <1>7, <1>8
        <3>2. CASE o # z /\ q # z
            BY <2>3, <3>2, <1>7 DEF IInv, ListInv
        <3>3. CASE (o = z) # (q = z)
            BY <2>1, <2>3, <3>3, <1>7, <1>8
        <3> QED
            BY <3>1, <3>2, <3>3
    <2> QED
        BY <2>1, <2>2, <2>3, <1>2, <1>4 DEF ListInv
<1>15. RegionInv'
    <2>1. ASSUME NEW s \in given
          PROVE  /\ s.chunk \in (1 .. n + 1) \ freed
                 /\ HEADER <= s.at /\ s.at + s.size <= size'[s.chunk]
        <3>1. s.chunk \in (1 .. n) \ freed /\ HEADER <= s.at /\ s.at + s.size <= size[s.chunk]
            BY DEF IInv, RegionInv, n
        <3> QED
            BY <3>1, <1>3, <1>4
    <2>2. ASSUME NEW o \in Pool, NEW s \in given, m_list'[o] # << >>, s.chunk = Last(m_list'[o])
          PROVE  s.at + s.size <= m_ptr'[o]
        <3>1. o # z
            BY <2>2, <1>7, <1>8, <1>10, <1>11
        <3> QED
            BY <2>2, <3>1, <1>7 DEF IInv, RegionInv
    <2> QED
        BY <2>1, <2>2, <1>2, <1>4 DEF RegionInv, IInv
<1>16. FinInv'
    <2>1. Owed' = Owed
        BY <1>2 DEF Owed
    <2>2. \A o \in Pool : \A i \in DOMAIN m_list[o] :
             i \in DOMAIN m_list'[o] /\ m_list'[o][i] = m_list[o][i]
        BY <1>6, <1>7
    <2> QED
        BY <2>1, <2>2, <1>2, FinKept DEF IInv
<1>17. StateInv' /\ CallInv'
    <2>1. ASSUME NEW o \in Pool
          PROVE  /\ state'[o] = "none" => m_list'[o] = << >> /\ m_fins[o] = << >>
                 /\ state'[o] = "live" => m_list'[o] # << >>
        <3>1. CASE o = z
            BY <3>1, <1>7, <1>8
        <3>2. CASE o # z
            BY <3>2, <1>2, <1>7 DEF IInv, StateInv
        <3> QED
            BY <3>1, <3>2
    <2> QED
        BY <2>1, <1>2 DEF StateInv, CallInv
<1> QED
    BY <1>12, <1>13, <1>14, <1>15, <1>16, <1>17 DEF IInv

\* The object of a finalizer is in a chunk of its zone's, and of no other's.
LEMMA FinalizerIn ==
    ASSUME IInv, pc = "idle", NEW z \in Pool, NEW i \in DOMAIN m_fins[z], m_fins[z][i] # Nowhere
    PROVE  /\ m_fins[z][i] \in built
           /\ \A o \in Pool : In(m_fins[z][i], m_list[o]) <=> o = z
<1>1. m_fins[z][i] \in built /\ In(m_fins[z][i], m_list[z])
    BY DEF IInv, FinInv, Owed, Keeper
<1>2. \A o \in Pool : In(m_fins[z][i], m_list[o]) => o = z
    BY <1>1 DEF In, Elements, IInv, ListInv
<1> QED
    BY <1>1, <1>2

LEMMA BuiltHas ==
    ASSUME IInv, pc # "construct", NEW r \in built
    PROVE  r # Nowhere /\ \E z \in Pool : \E i \in DOMAIN m_fins[z] : m_fins[z][i] = r
<1>1. r \in given
    BY DEF IInv, TypeOK
<1>2. r.chunk \in 1 .. Len(size)
    BY <1>1 DEF IInv, RegionInv
<1>3. r # Nowhere
    BY <1>2 DEF Nowhere
<1> QED
    BY <1>3 DEF IInv, FinInv, Owed

LEMMA DropInv ==
    ASSUME IInv, pc = "idle", NEW z \in Pool, Drop(z, Elements(m_list[z]) \ Elements(m_list'[z])),
           m_list'[z] \in Seq(1 .. Len(size)),
           \A i \in DOMAIN m_list'[z] : i \in DOMAIN m_list[z] /\ m_list'[z][i] = m_list[z][i],
           \A o \in Pool : o # z => m_list'[o] = m_list[o] /\ m_ptr'[o] = m_ptr[o],
           UNCHANGED <<size, pc>>
    PROVE  /\ ListInv' /\ RegionInv' /\ FinInv'
           /\ freed' \subseteq 1 .. Len(size) /\ given' \subseteq Region /\ built' \subseteq given'
           /\ m_fins' \in [Pool -> Seq(Region)] /\ m_fins'[z] = << >>
           /\ \A o \in Pool : o # z => m_fins'[o] = m_fins[o]
<1>1. /\ m_fins' = [m_fins EXCEPT ![z] = << >>]
      /\ built' = built \ Elements(m_fins[z])
      /\ freed' = freed \cup (Elements(m_list[z]) \ Elements(m_list'[z]))
      /\ given' = {r \in given : ~In(r, m_list[z])}
    BY DEF Drop
<1>2. m_fins'[z] = << >> /\ \A o \in Pool : o # z => m_fins'[o] = m_fins[o]
    BY <1>1 DEF IInv, TypeOK
<1>3. m_fins' \in [Pool -> Seq(Region)]
    BY <1>1, <1>2 DEF IInv, TypeOK
<1>4. given' \subseteq given /\ given' \subseteq Region
    BY <1>1 DEF IInv, TypeOK
<1>5. freed' \subseteq 1 .. Len(size)
    <2>1. freed \subseteq 1 .. Len(size)
        BY DEF IInv, TypeOK
    <2>2. Elements(m_list[z]) \subseteq 1 .. Len(size)
        BY DEF IInv, ListInv, Elements
    <2> QED
        BY <2>1, <2>2, <1>1
<1>6. \A r \in built' : \E o \in Pool : \E i \in DOMAIN m_fins[o] : o # z /\ m_fins[o][i] = r
    <2> SUFFICES ASSUME NEW r \in built'
                 PROVE  \E o \in Pool : \E i \in DOMAIN m_fins[o] : o # z /\ m_fins[o][i] = r
        OBVIOUS
    <2>1. r \in built /\ r \notin Elements(m_fins[z])
        BY <1>1
    <2>2. PICK o \in Pool : \E i \in DOMAIN m_fins[o] : m_fins[o][i] = r
        BY <2>1, BuiltHas
    <2> QED
        BY <2>1, <2>2 DEF Elements
<1>7. built' \subseteq given'
    <2> SUFFICES ASSUME NEW r \in built' PROVE r \in given'
        OBVIOUS
    <2>1. r \in built /\ r \in given
        BY <1>1 DEF IInv, TypeOK
    <2>2. PICK o \in Pool : \E i \in DOMAIN m_fins[o] : o # z /\ m_fins[o][i] = r
        BY <1>6
    <2>3. r # Nowhere
        BY <2>1, BuiltHas
    <2>4. ~In(r, m_list[z])
        BY <2>2, <2>3, FinalizerIn
    <2> QED
        BY <2>1, <2>4, <1>1
<1>8. \A s \in given' : s.chunk \notin Elements(m_list[z])
    BY <1>1 DEF In
<1>9. Elements(m_list'[z]) \subseteq Elements(m_list[z])
    BY DEF Elements
<1>10. ListInv'
    <2>1. ASSUME NEW o \in Pool, NEW i \in DOMAIN m_list'[o]
          PROVE  /\ i \in DOMAIN m_list[o] /\ m_list'[o][i] = m_list[o][i]
                 /\ m_list'[o][i] \in (1 .. Len(size)) \ freed'
        <3>1. i \in DOMAIN m_list[o] /\ m_list'[o][i] = m_list[o][i]
            OBVIOUS
        <3>2. m_list'[o][i] \in (1 .. Len(size)) \ freed
            BY <3>1 DEF IInv, ListInv
        <3>3. m_list'[o][i] \notin Elements(m_list[z]) \ Elements(m_list'[z])
            <4>1. CASE o = z
                BY <4>1 DEF Elements
            <4>2. CASE o # z
                BY <3>1, <4>2 DEF Elements, IInv, ListInv
            <4> QED
                BY <4>1, <4>2
        <3> QED
            BY <3>1, <3>2, <3>3, <1>1
    <2>2. ASSUME NEW c \in (1 .. Len(size)) \ freed'
          PROVE  \E o \in Pool : \E i \in DOMAIN m_list'[o] : m_list'[o][i] = c
        <3>1. c \in (1 .. Len(size)) \ freed
            BY <1>1
        <3>2. PICK o \in Pool : \E i \in DOMAIN m_list[o] : m_list[o][i] = c
            BY <3>1 DEF IInv, ListInv
        <3>3. CASE o = z
            <4>1. c \in Elements(m_list'[z])
                BY <3>2, <3>3, <1>1 DEF Elements
            <4> QED
                BY <4>1 DEF Elements
        <3>4. CASE o # z
            BY <3>2, <3>4
        <3> QED
            BY <3>3, <3>4
    <2>3. ASSUME NEW o \in Pool, NEW q \in Pool, NEW i \in DOMAIN m_list'[o],
                 NEW j \in DOMAIN m_list'[q], m_list'[o][i] = m_list'[q][j]
          PROVE  o = q /\ i = j
        <3>1. /\ i \in DOMAIN m_list[o] /\ j \in DOMAIN m_list[q] /\ m_list[o][i] = m_list[q][j]
            BY <2>1, <2>3
        <3> QED
            BY <3>1 DEF IInv, ListInv
    <2> QED
        BY <2>1, <2>2, <2>3 DEF ListInv
<1>11. RegionInv'
    <2>1. ASSUME NEW s \in given'
          PROVE  /\ s.chunk \in (1 .. Len(size)) \ freed'
                 /\ HEADER <= s.at /\ s.at + s.size <= size[s.chunk]
        <3>1. s \in given
            BY <1>4
        <3> QED
            BY <3>1, <1>1, <1>8 DEF IInv, RegionInv
    <2>2. ASSUME NEW o \in Pool, NEW s \in given', m_list'[o] # << >>, s.chunk = Last(m_list'[o])
          PROVE  s.at + s.size <= m_ptr'[o]
        <3>1. CASE o = z
            <4>1. /\ Len(m_list'[z]) \in DOMAIN m_list'[z]
                  /\ Last(m_list'[z]) = m_list'[z][Len(m_list'[z])]
                BY <2>2, <3>1, LastIs
            <4>2. Last(m_list'[z]) \in Elements(m_list[z])
                BY <4>1, <1>9 DEF Elements
            <4> QED
                BY <2>2, <3>1, <4>2, <1>8
        <3>2. CASE o # z
            BY <2>2, <3>2, <1>4 DEF IInv, RegionInv
        <3> QED
            BY <3>1, <3>2
    <2>3. \A s, t \in given' : s # t => ~Overlap(s, t)
        BY <1>4 DEF IInv, RegionInv
    <2> QED
        BY <2>1, <2>2, <2>3 DEF RegionInv
<1>12. FinInv'
    <2>1. Owed' = built'
        BY DEF Owed
    <2>2. ASSUME NEW o \in Pool, NEW i \in DOMAIN m_fins'[o]
          PROVE  o # z /\ i \in DOMAIN m_fins[o] /\ m_fins'[o][i] = m_fins[o][i]
        BY <2>2, <1>2
    <2>3. ASSUME NEW o \in Pool, NEW i \in DOMAIN m_fins'[o], m_fins'[o][i] # Nowhere
          PROVE  m_fins'[o][i] \in built' /\ In(m_fins'[o][i], m_list'[o])
        <3>1. o # z /\ i \in DOMAIN m_fins[o] /\ m_fins'[o][i] = m_fins[o][i]
            BY <2>2
        <3>2. m_fins[o][i] \in built /\ In(m_fins[o][i], m_list[o])
            BY <2>3, <3>1, FinalizerIn
        <3>3. m_fins[o][i] \notin Elements(m_fins[z])
            BY <2>3, <3>1 DEF Elements, IInv, FinInv
        <3> QED
            BY <3>1, <3>2, <3>3, <1>1
    <2>4. ASSUME NEW r \in built' PROVE \E o \in Pool : \E i \in DOMAIN m_fins'[o] : m_fins'[o][i] = r
        BY <1>2, <1>6
    <2>5. ASSUME NEW q \in Pool, NEW o \in Pool, NEW i \in DOMAIN m_fins'[q],
                 NEW j \in DOMAIN m_fins'[o], m_fins'[q][i] = m_fins'[o][j],
                 m_fins'[q][i] # Nowhere
          PROVE  q = o /\ i = j
        <3>1. /\ i \in DOMAIN m_fins[q] /\ j \in DOMAIN m_fins[o]
              /\ m_fins[q][i] = m_fins[o][j] /\ m_fins[q][i] # Nowhere
            BY <2>2, <2>5
        <3> QED
            BY <3>1 DEF IInv, FinInv
    <2> QED
        BY <2>1, <2>3, <2>4, <2>5 DEF FinInv, Keeper
<1> QED
    BY <1>2, <1>3, <1>4, <1>5, <1>7, <1>10, <1>11, <1>12

LEMMA ClearInv == ASSUME IInv, NEW z \in Pool, Clear(z) PROVE IInv'
<1> DEFINE c == m_list[z][1]
<1>1. /\ pc = "idle" /\ state[z] = "live"
      /\ m_list' = [m_list EXCEPT ![z] = <<c>>]
      /\ m_free' = [m_free EXCEPT ![z] = m_chunk_size[z]]
      /\ m_ptr' = [m_ptr EXCEPT ![z] = HEADER]
      /\ Drop(z, Elements(m_list[z]) \ {c})
      /\ UNCHANGED <<state, m_chunk_size, size, base, pc, this, other, x>>
    BY DEF Clear, call, IInv, TypeOK
<1>2. m_list[z] # << >> /\ c \in 1 .. Len(size) /\ 1 \in DOMAIN m_list[z]
    <2>1. m_list[z] # << >>
        BY <1>1 DEF IInv, StateInv
    <2> QED
        BY <2>1, Listed DEF IInv
<1>3. /\ m_list'[z] = <<c>> /\ m_ptr'[z] = HEADER /\ m_free'[z] = m_chunk_size[z]
      /\ \A o \in Pool : o # z => /\ m_list'[o] = m_list[o] /\ m_ptr'[o] = m_ptr[o]
                                    /\ m_free'[o] = m_free[o]
    BY <1>1 DEF IInv, TypeOK
<1>4. size[c] = HEADER + m_chunk_size[z] /\ HEADER \in Nat /\ m_chunk_size[z] \in Nat
    BY <1>2, Numbers, Constants DEF IInv, RoomInv
<1> HIDE DEF c
<1>5. /\ <<c>> # << >> /\ DOMAIN <<c>> = {1} /\ <<c>>[1] = c /\ Last(<<c>>) = c
      /\ Elements(<<c>>) = {c} /\ <<c>> \in Seq(1 .. Len(size))
    BY <1>2 DEF Last, Elements
<1>6. /\ ListInv' /\ RegionInv' /\ FinInv'
      /\ freed' \subseteq 1 .. Len(size) /\ given' \subseteq Region /\ built' \subseteq given'
      /\ m_fins' \in [Pool -> Seq(Region)] /\ m_fins'[z] = << >>
      /\ \A o \in Pool : o # z => m_fins'[o] = m_fins[o]
    <2>1. Drop(z, Elements(m_list[z]) \ Elements(m_list'[z]))
        BY <1>1, <1>3, <1>5
    <2>2. \A i \in DOMAIN m_list'[z] : i \in DOMAIN m_list[z] /\ m_list'[z][i] = m_list[z][i]
        BY <1>2, <1>3, <1>5 DEF c
    <2> QED
        BY <2>1, <2>2, <1>1, <1>3, <1>5, DropInv
<1>7. TypeOK'
    <2>1. RestOK /\ HeapOK
        BY TypeSplit DEF IInv
    <2>2. RestOK'
        BY <2>1, <1>1, <1>6 DEF RestOK
    <2>3. m_free' \in [Pool -> Nat] /\ m_ptr' \in [Pool -> Nat]
        BY <2>1, <1>1, <1>4 DEF HeapOK
    <2>4. m_list' \in [Pool -> Seq(1 .. Len(size))]
        BY <2>1, <1>1, <1>5 DEF HeapOK
    <2>5. HeapOK'
        BY <2>1, <2>3, <2>4, <1>1, <1>6 DEF HeapOK
    <2> QED
        BY <2>2, <2>5, TypeSplit
<1>8. RoomInv'
    <2> SUFFICES ASSUME NEW o \in Pool, m_list'[o] # << >>
                 PROVE  /\ HEADER <= m_ptr'[o]
                        /\ m_ptr'[o] + m_free'[o] = size[Last(m_list'[o])]
                        /\ size[m_list'[o][1]] = HEADER + m_chunk_size[o]
        BY <1>1 DEF RoomInv
    <2>1. CASE o = z
        BY <2>1, <1>3, <1>4, <1>5
    <2>2. CASE o # z
        BY <2>2, <1>3 DEF IInv, RoomInv
    <2> QED
        BY <2>1, <2>2
<1>9. StateInv' /\ CallInv'
    <2>1. ASSUME NEW o \in Pool
          PROVE  /\ state[o] = "none" => m_list'[o] = << >> /\ m_fins'[o] = << >>
                 /\ state[o] = "live" => m_list'[o] # << >>
        BY <1>1, <1>3, <1>5, <1>6 DEF IInv, StateInv
    <2> QED
        BY <2>1, <1>1 DEF StateInv, CallInv
<1> QED
    BY <1>6, <1>7, <1>8, <1>9 DEF IInv

LEMMA DestroyInv == ASSUME IInv, NEW z \in Pool, Destroy(z) PROVE IInv'
<1>1. /\ pc = "idle"
      /\ m_list' = [m_list EXCEPT ![z] = << >>]
      /\ m_free' = [m_free EXCEPT ![z] = 0]
      /\ m_ptr' = [m_ptr EXCEPT ![z] = 0]
      /\ m_chunk_size' = [m_chunk_size EXCEPT ![z] = 0]
      /\ state' = [state EXCEPT ![z] = "none"]
      /\ Drop(z, Elements(m_list[z]))
      /\ UNCHANGED <<size, base, pc, this, other, x>>
    BY DEF Destroy, call
<1>2. /\ m_list'[z] = << >> /\ state'[z] = "none"
      /\ \A o \in Pool : o # z => /\ m_list'[o] = m_list[o] /\ m_ptr'[o] = m_ptr[o]
                                    /\ m_free'[o] = m_free[o] /\ state'[o] = state[o]
                                    /\ m_chunk_size'[o] = m_chunk_size[o]
    BY <1>1 DEF IInv, TypeOK
<1>3. << >> \in Seq(1 .. Len(size)) /\ DOMAIN << >> = {}
    OBVIOUS
<1>4. /\ ListInv' /\ RegionInv' /\ FinInv'
      /\ freed' \subseteq 1 .. Len(size) /\ given' \subseteq Region /\ built' \subseteq given'
      /\ m_fins' \in [Pool -> Seq(Region)] /\ m_fins'[z] = << >>
      /\ \A o \in Pool : o # z => m_fins'[o] = m_fins[o]
    <2>1. Elements(m_list'[z]) = {}
        BY <1>2, <1>3 DEF Elements
    <2>2. Drop(z, Elements(m_list[z]) \ Elements(m_list'[z]))
        BY <2>1, <1>1
    <2>3. m_list'[z] \in Seq(1 .. Len(size)) /\ DOMAIN m_list'[z] = {}
        BY <1>2, <1>3
    <2> QED
        BY <2>2, <2>3, <1>1, <1>2, DropInv
<1>5. TypeOK'
    <2>1. RestOK /\ HeapOK
        BY TypeSplit DEF IInv
    <2>2. RestOK'
        BY <2>1, <1>1, <1>4 DEF RestOK
    <2>3. HeapOK'
        BY <2>1, <1>1, <1>3, <1>4 DEF HeapOK
    <2> QED
        BY <2>2, <2>3, TypeSplit
<1>6. RoomInv'
    <2> SUFFICES ASSUME NEW o \in Pool, m_list'[o] # << >>
                 PROVE  /\ HEADER <= m_ptr'[o]
                        /\ m_ptr'[o] + m_free'[o] = size[Last(m_list'[o])]
                        /\ size[m_list'[o][1]] = HEADER + m_chunk_size'[o]
        BY <1>1 DEF RoomInv
    <2> QED
        BY <1>2 DEF IInv, RoomInv
<1>7. StateInv' /\ CallInv'
    <2>1. ASSUME NEW o \in Pool
          PROVE  /\ state'[o] = "none" => m_list'[o] = << >> /\ m_fins'[o] = << >>
                 /\ state'[o] = "live" => m_list'[o] # << >>
        BY <1>1, <1>2, <1>4, SMTT(30) DEF IInv, StateInv
    <2> QED
        BY <2>1, <1>1 DEF StateInv, CallInv
<1> QED
    BY <1>4, <1>5, <1>6, <1>7 DEF IInv
-----------------------------------------------------------------------------
(* Zones that change places *)

\* What a zone has may be another's, each zone's only once: o has what p[o] had.
LEMMA RelabelInv ==
    ASSUME IInv, pc = "idle", NEW p \in [Pool -> Pool], \A o \in Pool : p[p[o]] = o,
           \A o \in Pool : /\ m_list'[o] = m_list[p[o]] /\ m_fins'[o] = m_fins[p[o]]
                           /\ m_list'[o] # << >> => /\ m_ptr'[o] = m_ptr[p[o]]
                                                    /\ m_free'[o] = m_free[p[o]]
                                                    /\ m_chunk_size'[o] = m_chunk_size[p[o]],
           UNCHANGED <<size, freed, given, built, pc>>
    PROVE  RoomInv' /\ ListInv' /\ RegionInv' /\ FinInv'
<1>p. \A o \in Pool : p[o] \in Pool /\ p[p[o]] = o
    OBVIOUS
<1>l. \A o \in Pool : m_list'[o] = m_list[p[o]] /\ m_fins'[o] = m_fins[p[o]]
    OBVIOUS
<1>1. \A o, q \in Pool : p[o] = p[q] => o = q
    BY <1>p
<1>2. RoomInv'
    <2> SUFFICES ASSUME NEW o \in Pool, m_list'[o] # << >>
                 PROVE  /\ HEADER <= m_ptr'[o]
                        /\ m_ptr'[o] + m_free'[o] = size[Last(m_list'[o])]
                        /\ size[m_list'[o][1]] = HEADER + m_chunk_size'[o]
        BY DEF RoomInv
    <2> DEFINE q == p[o]
    <2>1. /\ q \in Pool /\ m_list'[o] = m_list[q]
          /\ m_ptr'[o] = m_ptr[q] /\ m_free'[o] = m_free[q] /\ m_chunk_size'[o] = m_chunk_size[q]
        BY <1>p
    <2> HIDE DEF q
    <2> QED
        BY <2>1 DEF IInv, RoomInv
<1>3. ListInv'
    <2>1. ASSUME NEW o \in Pool, NEW i \in DOMAIN m_list'[o]
          PROVE  m_list'[o][i] \in (1 .. Len(size)) \ freed
        BY <1>p, <1>l DEF IInv, ListInv
    <2>2. ASSUME NEW c \in (1 .. Len(size)) \ freed
          PROVE  \E o \in Pool : \E i \in DOMAIN m_list'[o] : m_list'[o][i] = c
        <3>1. PICK q \in Pool : \E i \in DOMAIN m_list[q] : m_list[q][i] = c
            BY DEF IInv, ListInv
        <3>2. p[q] \in Pool /\ m_list'[p[q]] = m_list[q]
            BY <1>p, <1>l
        <3> QED
            BY <3>1, <3>2
    <2>3. ASSUME NEW o \in Pool, NEW q \in Pool, NEW i \in DOMAIN m_list'[o],
                 NEW j \in DOMAIN m_list'[q], m_list'[o][i] = m_list'[q][j]
          PROVE  o = q /\ i = j
        <3>1. p[o] = p[q] /\ i = j
            BY <2>3, <1>p, <1>l DEF IInv, ListInv
        <3> QED
            BY <3>1, <1>1
    <2> QED
        BY <2>1, <2>2, <2>3 DEF ListInv
<1>4. RegionInv'
    <2>1. ASSUME NEW o \in Pool, NEW s \in given, m_list'[o] # << >>, s.chunk = Last(m_list'[o])
          PROVE  s.at + s.size <= m_ptr'[o]
        <3> DEFINE q == p[o]
        <3>1. q \in Pool /\ m_list'[o] = m_list[q] /\ m_ptr'[o] = m_ptr[q]
            BY <2>1, <1>p
        <3> HIDE DEF q
        <3> QED
            BY <2>1, <3>1 DEF IInv, RegionInv
    <2> QED
        BY <2>1 DEF IInv, RegionInv
<1>5. FinInv'
    <2>1. Owed' = built /\ Owed = built
        BY DEF Owed
    <2>2. ASSUME NEW o \in Pool, NEW i \in DOMAIN m_fins'[o], m_fins'[o][i] # Nowhere
          PROVE  m_fins'[o][i] \in built /\ In(m_fins'[o][i], m_list'[o])
        <3> DEFINE q == p[o]
        <3>1. q \in Pool /\ m_list'[o] = m_list[q] /\ m_fins'[o] = m_fins[q]
            BY <1>p, <1>l
        <3> HIDE DEF q
        <3> QED
            BY <2>2, <3>1, FinalizerIn
    <2>3. ASSUME NEW r \in built PROVE \E o \in Pool : \E i \in DOMAIN m_fins'[o] : m_fins'[o][i] = r
        <3>1. PICK q \in Pool : \E i \in DOMAIN m_fins[q] : m_fins[q][i] = r
            BY <2>1 DEF IInv, FinInv
        <3>2. p[q] \in Pool /\ m_fins'[p[q]] = m_fins[q]
            BY <1>p, <1>l
        <3> QED
            BY <3>1, <3>2
    <2>4. ASSUME NEW o \in Pool, NEW q \in Pool, NEW i \in DOMAIN m_fins'[o],
                 NEW j \in DOMAIN m_fins'[q], m_fins'[o][i] = m_fins'[q][j],
                 m_fins'[o][i] # Nowhere
          PROVE  o = q /\ i = j
        <3>1. p[o] = p[q] /\ i = j
            BY <2>4, <1>p, <1>l DEF IInv, FinInv
        <3> QED
            BY <3>1, <1>1
    <2> QED
        BY <2>1, <2>2, <2>3, <2>4 DEF FinInv, Keeper
<1> QED
    BY <1>2, <1>3, <1>4, <1>5

\* The types of what changes places.
LEMMA RelabelType ==
    ASSUME IInv, UNCHANGED <<size, base, freed, given, built, pc, this, other, x>>,
           state' \in [Pool -> {"none", "live", "moved"}],
           m_chunk_size' \in [Pool -> ChunkSize \cup {0}],
           m_list' \in [Pool -> Seq(1 .. Len(size))],
           m_free' \in [Pool -> Nat], m_ptr' \in [Pool -> Nat],
           m_fins' \in [Pool -> Seq(Region)]
    PROVE  TypeOK'
<1>1. RestOK /\ HeapOK
    BY TypeSplit DEF IInv
<1>2. RestOK' /\ HeapOK'
    BY <1>1 DEF RestOK, HeapOK
<1> QED
    BY <1>2, TypeSplit

LEMMA MoveConstructInv == ASSUME IInv, NEW z \in Pool, NEW o \in Pool, MoveConstruct(z, o) PROVE IInv'
<1>1. /\ pc = "idle" /\ state[z] = "none" /\ state[o] = "live" /\ z # o
      /\ state' = [state EXCEPT ![z] = "live", ![o] = "moved"]
      /\ m_chunk_size' = [m_chunk_size EXCEPT ![z] = m_chunk_size[o]]
      /\ m_list' = [m_list EXCEPT ![z] = m_list[o], ![o] = << >>]
      /\ m_free' = [m_free EXCEPT ![z] = m_free[o]]
      /\ m_ptr' = [m_ptr EXCEPT ![z] = m_ptr[o]]
      /\ m_fins' = [m_fins EXCEPT ![z] = m_fins[o], ![o] = << >>]
      /\ UNCHANGED <<size, base, freed, given, built, pc, this, other, x>>
    BY DEF MoveConstruct, heap, call
<1>2. m_list[z] = << >> /\ m_fins[z] = << >> /\ m_list[o] # << >>
    BY <1>1 DEF IInv, StateInv
<1>3. RestOK /\ HeapOK
    BY TypeSplit DEF IInv
<1>4. /\ state'[z] = "live" /\ state'[o] = "moved"
      /\ m_list'[z] = m_list[o] /\ m_list'[o] = << >>
      /\ m_fins'[z] = m_fins[o] /\ m_fins'[o] = << >>
      /\ m_ptr'[z] = m_ptr[o] /\ m_free'[z] = m_free[o] /\ m_chunk_size'[z] = m_chunk_size[o]
      /\ \A q \in Pool : q # z /\ q # o =>
            /\ state'[q] = state[q] /\ m_list'[q] = m_list[q] /\ m_fins'[q] = m_fins[q]
            /\ m_ptr'[q] = m_ptr[q] /\ m_free'[q] = m_free[q]
            /\ m_chunk_size'[q] = m_chunk_size[q]
    BY <1>1, <1>3 DEF RestOK, HeapOK
<1>5. TypeOK'
    <2>1. /\ state' \in [Pool -> {"none", "live", "moved"}]
          /\ m_chunk_size' \in [Pool -> ChunkSize \cup {0}]
        BY <1>1, <1>3 DEF RestOK
    <2>2. m_fins' \in [Pool -> Seq(Region)]
        <3>1. m_fins \in [Pool -> Seq(Region)] /\ << >> \in Seq(Region)
            BY <1>3 DEF RestOK
        <3> QED
            BY <3>1, <1>1
    <2>3. m_list' \in [Pool -> Seq(1 .. Len(size))]
        <3>1. m_list \in [Pool -> Seq(1 .. Len(size))] /\ << >> \in Seq(1 .. Len(size))
            BY <1>3 DEF HeapOK
        <3> QED
            BY <3>1, <1>1
    <2>4. m_free' \in [Pool -> Nat] /\ m_ptr' \in [Pool -> Nat]
        BY <1>1, <1>3 DEF HeapOK
    <2> QED
        BY <2>1, <2>2, <2>3, <2>4, <1>1, RelabelType
<1>6. RoomInv' /\ ListInv' /\ RegionInv' /\ FinInv'
    <2> DEFINE p == [q \in Pool |-> IF q = z THEN o ELSE IF q = o THEN z ELSE q]
    <2>1. p \in [Pool -> Pool] /\ \A q \in Pool : p[p[q]] = q
        OBVIOUS
    <2>2. p[z] = o /\ p[o] = z /\ \A q \in Pool : q # z /\ q # o => p[q] = q
        BY <1>1
    <2> HIDE DEF p
    <2>3. \A q \in Pool : /\ m_list'[q] = m_list[p[q]] /\ m_fins'[q] = m_fins[p[q]]
                          /\ m_list'[q] # << >> => /\ m_ptr'[q] = m_ptr[p[q]]
                                                   /\ m_free'[q] = m_free[p[q]]
                                                   /\ m_chunk_size'[q] = m_chunk_size[p[q]]
        BY <2>2, <1>2, <1>4
    <2> QED
        BY <2>1, <2>3, <1>1, RelabelInv
<1>7. StateInv' /\ CallInv'
    <2>0. \A q \in Pool :
             /\ state[q] = "none" => m_list[q] = << >> /\ m_fins[q] = << >>
             /\ state[q] = "live" => m_list[q] # << >>
        BY <1>1 DEF IInv, StateInv
    <2>1. ASSUME NEW q \in Pool
          PROVE  /\ state'[q] = "none" => m_list'[q] = << >> /\ m_fins'[q] = << >>
                 /\ state'[q] = "live" => m_list'[q] # << >>
        <3>1. CASE q = z
            BY <3>1, <2>0, <1>2, <1>4
        <3>2. CASE q = o
            BY <3>2, <2>0, <1>2, <1>4
        <3>3. CASE q # z /\ q # o
            BY <3>3, <2>0, <1>2, <1>4
        <3> QED
            BY <3>1, <3>2, <3>3
    <2> QED
        BY <2>1, <1>1 DEF StateInv, CallInv
<1> QED
    BY <1>5, <1>6, <1>7 DEF IInv

LEMMA SwapInv == ASSUME IInv, NEW z \in Pool, NEW o \in Pool, Swap(z, o) PROVE IInv'
<1>1. /\ pc = "idle" /\ z # o
      /\ state' = [state EXCEPT ![z] = state[o], ![o] = state[z]]
      /\ m_chunk_size' = [m_chunk_size EXCEPT ![z] = m_chunk_size[o], ![o] = m_chunk_size[z]]
      /\ m_list' = [m_list EXCEPT ![z] = m_list[o], ![o] = m_list[z]]
      /\ m_free' = [m_free EXCEPT ![z] = m_free[o], ![o] = m_free[z]]
      /\ m_ptr' = [m_ptr EXCEPT ![z] = m_ptr[o], ![o] = m_ptr[z]]
      /\ m_fins' = [m_fins EXCEPT ![z] = m_fins[o], ![o] = m_fins[z]]
      /\ UNCHANGED <<size, base, freed, given, built, pc, this, other, x>>
    BY DEF Swap, heap, call
<1>2. RestOK /\ HeapOK
    BY TypeSplit DEF IInv
<1>3. /\ state'[z] = state[o] /\ state'[o] = state[z]
      /\ m_list'[z] = m_list[o] /\ m_list'[o] = m_list[z]
      /\ m_fins'[z] = m_fins[o] /\ m_fins'[o] = m_fins[z]
      /\ m_ptr'[z] = m_ptr[o] /\ m_ptr'[o] = m_ptr[z]
      /\ m_free'[z] = m_free[o] /\ m_free'[o] = m_free[z]
      /\ m_chunk_size'[z] = m_chunk_size[o] /\ m_chunk_size'[o] = m_chunk_size[z]
      /\ \A q \in Pool : q # z /\ q # o =>
            /\ state'[q] = state[q] /\ m_list'[q] = m_list[q] /\ m_fins'[q] = m_fins[q]
            /\ m_ptr'[q] = m_ptr[q] /\ m_free'[q] = m_free[q]
            /\ m_chunk_size'[q] = m_chunk_size[q]
    BY <1>1, <1>2 DEF RestOK, HeapOK
<1>4. TypeOK'
    <2>1. /\ state' \in [Pool -> {"none", "live", "moved"}]
          /\ m_chunk_size' \in [Pool -> ChunkSize \cup {0}]
          /\ m_fins' \in [Pool -> Seq(Region)]
        BY <1>1, <1>2 DEF RestOK
    <2>2. /\ m_list' \in [Pool -> Seq(1 .. Len(size))]
          /\ m_free' \in [Pool -> Nat] /\ m_ptr' \in [Pool -> Nat]
        BY <1>1, <1>2 DEF HeapOK
    <2> QED
        BY <2>1, <2>2, <1>1, RelabelType
<1>5. RoomInv' /\ ListInv' /\ RegionInv' /\ FinInv'
    <2> DEFINE p == [q \in Pool |-> IF q = z THEN o ELSE IF q = o THEN z ELSE q]
    <2>1. p \in [Pool -> Pool] /\ \A q \in Pool : p[p[q]] = q
        OBVIOUS
    <2>2. p[z] = o /\ p[o] = z /\ \A q \in Pool : q # z /\ q # o => p[q] = q
        BY <1>1
    <2> HIDE DEF p
    <2>3. \A q \in Pool : /\ m_list'[q] = m_list[p[q]] /\ m_fins'[q] = m_fins[p[q]]
                          /\ m_list'[q] # << >> => /\ m_ptr'[q] = m_ptr[p[q]]
                                                   /\ m_free'[q] = m_free[p[q]]
                                                   /\ m_chunk_size'[q] = m_chunk_size[p[q]]
        BY <2>2, <1>3
    <2> QED
        BY <2>1, <2>3, <1>1, RelabelInv
<1>6. StateInv' /\ CallInv'
    <2>0. \A q \in Pool :
             /\ state[q] = "none" => m_list[q] = << >> /\ m_fins[q] = << >>
             /\ state[q] = "live" => m_list[q] # << >>
        BY <1>1 DEF IInv, StateInv
    <2>1. ASSUME NEW q \in Pool
          PROVE  /\ state'[q] = "none" => m_list'[q] = << >> /\ m_fins'[q] = << >>
                 /\ state'[q] = "live" => m_list'[q] # << >>
        <3>1. CASE q = z
            BY <3>1, <2>0, <1>3
        <3>2. CASE q = o
            BY <3>2, <2>0, <1>3
        <3>3. CASE q # z /\ q # o
            BY <3>3, <2>0, <1>3
        <3> QED
            BY <3>1, <3>2, <3>3
    <2> QED
        BY <2>1, <1>1 DEF StateInv, CallInv
<1> QED
    BY <1>4, <1>5, <1>6 DEF IInv

\* The assignment frees z's chunks, and gives it those of o, whose finalizers stay
\* behind for a moment.
LEMMA AssignInv == ASSUME IInv, NEW z \in Pool, NEW o \in Pool, Assign(z, o) PROVE IInv'
<1>1. /\ pc = "idle" /\ z # o /\ state[z] # "none" /\ state[o] = "live" /\ m_fins[z] = << >>
      /\ m_chunk_size' = [m_chunk_size EXCEPT ![z] = m_chunk_size[o]]
      /\ m_list' = [m_list EXCEPT ![z] = m_list[o], ![o] = << >>]
      /\ m_free' = [m_free EXCEPT ![z] = m_free[o]]
      /\ m_ptr' = [m_ptr EXCEPT ![z] = m_ptr[o]]
      /\ freed' = freed \cup Elements(m_list[z])
      /\ given' = {r \in given : ~In(r, m_list[z])}
      /\ built' = {r \in built : ~In(r, m_list[z])}
      /\ pc' = "assign" /\ this' = z /\ other' = o
      /\ UNCHANGED <<state, m_fins, size, base, x>>
    BY DEF Assign
<1>2. m_list[o] # << >>
    BY <1>1 DEF IInv, StateInv
<1>3. RestOK /\ HeapOK
    BY TypeSplit DEF IInv
<1>4. /\ m_list'[z] = m_list[o] /\ m_list'[o] = << >>
      /\ m_ptr'[z] = m_ptr[o] /\ m_free'[z] = m_free[o] /\ m_chunk_size'[z] = m_chunk_size[o]
      /\ \A q \in Pool : q # z /\ q # o =>
            /\ m_list'[q] = m_list[q] /\ m_ptr'[q] = m_ptr[q] /\ m_free'[q] = m_free[q]
            /\ m_chunk_size'[q] = m_chunk_size[q]
    BY <1>1, <1>3 DEF RestOK, HeapOK
<1>5. \A r \in built : \E q \in Pool : \E i \in DOMAIN m_fins[q] :
         q # z /\ m_fins[q][i] = r /\ ~In(r, m_list[z])
    <2> SUFFICES ASSUME NEW r \in built
                 PROVE  \E q \in Pool : \E i \in DOMAIN m_fins[q] :
                           q # z /\ m_fins[q][i] = r /\ ~In(r, m_list[z])
        OBVIOUS
    <2>1. r # Nowhere
        BY <1>1, BuiltHas
    <2>2. PICK q \in Pool : \E i \in DOMAIN m_fins[q] : m_fins[q][i] = r
        BY <1>1, BuiltHas
    <2>3. PICK i \in DOMAIN m_fins[q] : m_fins[q][i] = r
        BY <2>2
    <2>4. q # z
        BY <2>3, <1>1
    <2>5. ~In(r, m_list[z])
        BY <2>1, <2>3, <2>4, <1>1, FinalizerIn
    <2> QED
        BY <2>3, <2>4, <2>5
<1>6. built' = built
    BY <1>1, <1>5
<1>7. TypeOK'
    <2>1. m_list' \in [Pool -> Seq(1 .. Len(size))]
        <3>1. m_list \in [Pool -> Seq(1 .. Len(size))] /\ << >> \in Seq(1 .. Len(size))
            BY <1>3 DEF HeapOK
        <3> QED
            BY <3>1, <1>1
    <2>2. m_free' \in [Pool -> Nat] /\ m_ptr' \in [Pool -> Nat]
        BY <1>1, <1>3 DEF HeapOK
    <2>3. freed' \subseteq 1 .. Len(size)
        <3>1. Elements(m_list[z]) \subseteq 1 .. Len(size)
            BY DEF IInv, ListInv, Elements
        <3> QED
            BY <3>1, <1>1, <1>3 DEF HeapOK
    <2>4. given' \subseteq Region
        BY <1>1, <1>3 DEF HeapOK
    <2>5. HeapOK'
        BY <2>1, <2>2, <2>3, <2>4, <1>1, <1>3 DEF HeapOK
    <2>6. built' \subseteq given'
        BY <1>1, <1>3 DEF RestOK
    <2>7. m_chunk_size' \in [Pool -> ChunkSize \cup {0}]
        BY <1>1, <1>3 DEF RestOK
    <2>8. RestOK'
        BY <2>6, <2>7, <1>1, <1>3 DEF RestOK
    <2> QED
        BY <2>5, <2>8, TypeSplit
<1>8. RoomInv'
    <2> SUFFICES ASSUME NEW q \in Pool, m_list'[q] # << >>
                 PROVE  /\ HEADER <= m_ptr'[q]
                        /\ m_ptr'[q] + m_free'[q] = size[Last(m_list'[q])]
                        /\ size[m_list'[q][1]] = HEADER + m_chunk_size'[q]
        BY <1>1 DEF RoomInv
    <2>1. \A y \in Pool : m_list[y] # << >> =>
             /\ HEADER <= m_ptr[y]
             /\ m_ptr[y] + m_free[y] = size[Last(m_list[y])]
             /\ size[m_list[y][1]] = HEADER + m_chunk_size[y]
        BY DEF IInv, RoomInv
    <2>2. CASE q = z
        BY <2>1, <2>2, <1>2, <1>4
    <2>3. CASE q # z
        BY <2>1, <2>3, <1>4
    <2> QED
        BY <2>2, <2>3
<1>9. ListInv'
    <2>1. ASSUME NEW q \in Pool, NEW i \in DOMAIN m_list'[q]
          PROVE  /\ q # o
                 /\ q = z => i \in DOMAIN m_list[o] /\ m_list'[q][i] = m_list[o][i]
                 /\ q # z => i \in DOMAIN m_list[q] /\ m_list'[q][i] = m_list[q][i]
                 /\ m_list'[q][i] \in (1 .. Len(size)) \ freed'
        <3>1. /\ q # o
              /\ q = z => i \in DOMAIN m_list[o] /\ m_list'[q][i] = m_list[o][i]
              /\ q # z => i \in DOMAIN m_list[q] /\ m_list'[q][i] = m_list[q][i]
            BY <1>4
        <3>2. PICK y \in Pool : y # z /\ i \in DOMAIN m_list[y] /\ m_list'[q][i] = m_list[y][i]
            BY <3>1, <1>1
        <3>3. m_list[y][i] \in (1 .. Len(size)) \ freed /\ m_list[y][i] \notin Elements(m_list[z])
            BY <3>2 DEF Elements, IInv, ListInv
        <3> QED
            BY <3>1, <3>2, <3>3, <1>1
    <2>2. ASSUME NEW c \in (1 .. Len(size)) \ freed'
          PROVE  \E q \in Pool : \E i \in DOMAIN m_list'[q] : m_list'[q][i] = c
        <3>1. c \in (1 .. Len(size)) \ freed /\ c \notin Elements(m_list[z])
            BY <1>1
        <3>2. PICK q \in Pool : \E i \in DOMAIN m_list[q] : m_list[q][i] = c
            BY <3>1 DEF IInv, ListInv
        <3>3. q # z
            BY <3>1, <3>2 DEF Elements
        <3>4. CASE q = o
            BY <3>2, <3>4, <1>4
        <3>5. CASE q # o
            BY <3>2, <3>3, <3>5, <1>4
        <3> QED
            BY <3>4, <3>5
    <2>3. ASSUME NEW y \in Pool, NEW q \in Pool, NEW i \in DOMAIN m_list'[y],
                 NEW j \in DOMAIN m_list'[q], m_list'[y][i] = m_list'[q][j]
          PROVE  y = q /\ i = j
        <3> DEFINE a == IF y = z THEN o ELSE y
                   b == IF q = z THEN o ELSE q
        <3>1. /\ a \in Pool /\ i \in DOMAIN m_list[a] /\ m_list'[y][i] = m_list[a][i]
              /\ b \in Pool /\ j \in DOMAIN m_list[b] /\ m_list'[q][j] = m_list[b][j]
            BY <2>1
        <3>2. y # o /\ q # o
            BY <2>1
        <3> HIDE DEF a, b
        <3>3. m_list[a][i] = m_list[b][j]
            BY <2>3, <3>1
        <3>4. a = b /\ i = j
            BY <3>1, <3>3 DEF IInv, ListInv
        <3> QED
            BY <3>2, <3>4 DEF a, b
    <2> QED
        BY <2>1, <2>2, <2>3, <1>1 DEF ListInv
<1>10. RegionInv'
    <2>1. given' \subseteq given /\ \A s \in given' : s.chunk \notin Elements(m_list[z])
        BY <1>1 DEF In
    <2>2. ASSUME NEW s \in given'
          PROVE  /\ s.chunk \in (1 .. Len(size)) \ freed'
                 /\ HEADER <= s.at /\ s.at + s.size <= size[s.chunk]
        BY <2>1, <1>1 DEF IInv, RegionInv
    <2>3. ASSUME NEW q \in Pool, NEW s \in given', m_list'[q] # << >>, s.chunk = Last(m_list'[q])
          PROVE  s.at + s.size <= m_ptr'[q]
        <3>0. \A y \in Pool : m_list[y] # << >> /\ s.chunk = Last(m_list[y]) =>
                 s.at + s.size <= m_ptr[y]
            BY <2>1 DEF IInv, RegionInv
        <3>1. CASE q = z
            BY <2>3, <3>0, <3>1, <1>2, <1>4
        <3>2. CASE q # z
            BY <2>3, <3>0, <3>2, <1>4
        <3> QED
            BY <3>1, <3>2
    <2>4. \A s, t \in given' : s # t => ~Overlap(s, t)
        BY <2>1 DEF IInv, RegionInv
    <2> QED
        BY <2>2, <2>3, <2>4, <1>1 DEF RegionInv
<1>11. FinInv'
    <2>1. Owed' = built /\ Owed = built
        BY <1>1, <1>6 DEF Owed
    <2>2. ASSUME NEW q \in Pool, NEW i \in DOMAIN m_fins[q], m_fins[q][i] # Nowhere
          PROVE  m_fins[q][i] \in built /\ In(m_fins[q][i], m_list'[IF q = o THEN z ELSE q])
        <3>1. q # z
            BY <1>1
        <3>2. m_fins[q][i] \in built /\ In(m_fins[q][i], m_list[q])
            BY <2>2, <1>1, FinalizerIn
        <3>3. m_list'[IF q = o THEN z ELSE q] = m_list[q]
            BY <3>1, <1>4
        <3> QED
            BY <3>2, <3>3
    <2>3. ASSUME NEW q \in Pool, NEW i \in DOMAIN m_fins'[q], m_fins'[q][i] # Nowhere
          PROVE  /\ m_fins'[q][i] \in Owed'
                 /\ In(m_fins'[q][i], m_list'[IF pc' = "assign" /\ q = other' THEN this' ELSE q])
        BY <2>1, <2>2, <2>3, <1>1
    <2>4. ASSUME NEW r \in Owed' PROVE \E q \in Pool : \E i \in DOMAIN m_fins'[q] : m_fins'[q][i] = r
        BY <2>1, <1>1 DEF IInv, FinInv
    <2>5. ASSUME NEW y \in Pool, NEW q \in Pool, NEW i \in DOMAIN m_fins'[y],
                 NEW j \in DOMAIN m_fins'[q], m_fins'[y][i] = m_fins'[q][j],
                 m_fins'[y][i] # Nowhere
          PROVE  y = q /\ i = j
        BY <2>5, <1>1 DEF IInv, FinInv
    <2> QED
        BY <2>3, <2>4, <2>5 DEF FinInv, Keeper
<1>12. StateInv'
    <2>1. ASSUME NEW q \in Pool
          PROVE  /\ state[q] = "none" => m_list'[q] = << >> /\ m_fins[q] = << >>
                 /\ state[q] = "live" /\ q # o => m_list'[q] # << >>
        <3>0. /\ state[q] = "none" => m_list[q] = << >> /\ m_fins[q] = << >>
              /\ state[q] = "live" => m_list[q] # << >>
            BY <1>1 DEF IInv, StateInv
        <3>1. CASE q = z
            BY <3>1, <1>1, <1>2, <1>4
        <3>2. CASE q = o
            BY <3>2, <1>1
        <3>3. CASE q # z /\ q # o
            BY <3>0, <3>3, <1>4
        <3> QED
            BY <3>1, <3>2, <3>3
    <2> QED
        BY <2>1, <1>1 DEF StateInv
<1>13. CallInv'
    BY <1>1, <1>2, <1>4 DEF CallInv
<1> QED
    BY <1>7, <1>8, <1>9, <1>10, <1>11, <1>12, <1>13 DEF IInv

LEMMA Assign_FinalizersInv == ASSUME IInv, Assign_Finalizers PROVE IInv'
<1>1. /\ pc = "assign" /\ pc' = "idle" /\ this' = NULL /\ other' = NULL /\ x' = Nowhere
      /\ built' = built \ Elements(m_fins[this])
      /\ m_fins' = [m_fins EXCEPT ![this] = m_fins[other], ![other] = << >>]
      /\ state' = [state EXCEPT ![this] = "live", ![other] = "moved"]
      /\ UNCHANGED <<m_chunk_size, m_list, m_free, m_ptr, size, base, freed, given>>
    BY DEF Assign_Finalizers, Return, room, heap
<1>2. /\ this \in Pool /\ other \in Pool /\ this # other
      /\ m_fins[this] = << >> /\ m_list[other] = << >> /\ m_list[this] # << >>
    BY <1>1 DEF IInv, CallInv
<1>3. RestOK /\ HeapOK
    BY TypeSplit DEF IInv
<1>4. /\ m_fins'[this] = m_fins[other] /\ m_fins'[other] = << >>
      /\ state'[this] = "live" /\ state'[other] = "moved"
      /\ \A q \in Pool : q # this /\ q # other =>
            m_fins'[q] = m_fins[q] /\ state'[q] = state[q]
    BY <1>1, <1>2, <1>3 DEF RestOK
<1>5. built' = built
    BY <1>1, <1>2 DEF Elements
<1>6. TypeOK'
    <2>1. m_fins' \in [Pool -> Seq(Region)]
        <3>1. m_fins \in [Pool -> Seq(Region)] /\ << >> \in Seq(Region)
            BY <1>3 DEF RestOK
        <3> QED
            BY <3>1, <1>1, <1>2
    <2>2. state' \in [Pool -> {"none", "live", "moved"}]
        BY <1>1, <1>3 DEF RestOK
    <2>3. Nowhere \in Region
        BY DEF Nowhere, Region
    <2>4. RestOK' /\ HeapOK'
        BY <2>1, <2>2, <2>3, <1>1, <1>3, <1>5 DEF RestOK, HeapOK
    <2> QED
        BY <2>4, TypeSplit
<1>7. RoomInv' /\ ListInv' /\ RegionInv'
    BY <1>1 DEF IInv, RoomInv, ListInv, RegionInv
<1>8. FinInv'
    <2>1. Owed' = built /\ Owed = built
        BY <1>1, <1>5 DEF Owed
    <2>2. ASSUME NEW q \in Pool, NEW i \in DOMAIN m_fins'[q]
          PROVE  /\ q # other
                 /\ q = this => i \in DOMAIN m_fins[other] /\ m_fins'[q][i] = m_fins[other][i]
                 /\ q # this => i \in DOMAIN m_fins[q] /\ m_fins'[q][i] = m_fins[q][i]
        BY <1>4
    <2>3. ASSUME NEW q \in Pool, NEW i \in DOMAIN m_fins'[q], m_fins'[q][i] # Nowhere
          PROVE  m_fins'[q][i] \in built /\ In(m_fins'[q][i], m_list[q])
        <3>1. CASE q = this
            <4>1. i \in DOMAIN m_fins[other] /\ m_fins'[q][i] = m_fins[other][i]
                BY <2>2, <3>1
            <4>2. Keeper(other) = this
                BY <1>1 DEF Keeper
            <4>3. m_fins[other][i] \in Owed /\ In(m_fins[other][i], m_list[Keeper(other)])
                BY <2>3, <4>1, <1>2 DEF IInv, FinInv
            <4> QED
                BY <2>1, <3>1, <4>1, <4>2, <4>3
        <3>2. CASE q # this
            <4>1. q # other /\ i \in DOMAIN m_fins[q] /\ m_fins'[q][i] = m_fins[q][i]
                BY <2>2, <3>2
            <4>2. Keeper(q) = q
                BY <4>1 DEF Keeper
            <4>3. m_fins[q][i] \in Owed /\ In(m_fins[q][i], m_list[Keeper(q)])
                BY <2>3, <4>1 DEF IInv, FinInv
            <4> QED
                BY <2>1, <4>1, <4>2, <4>3
        <3> QED
            BY <3>1, <3>2
    <2>4. ASSUME NEW r \in built PROVE \E q \in Pool : \E i \in DOMAIN m_fins'[q] : m_fins'[q][i] = r
        <3>1. PICK q \in Pool : \E i \in DOMAIN m_fins[q] : m_fins[q][i] = r
            BY <2>1 DEF IInv, FinInv
        <3>2. q # this
            BY <3>1, <1>2
        <3>3. CASE q = other
            BY <3>1, <3>3, <1>2, <1>4
        <3>4. CASE q # other
            BY <3>1, <3>2, <3>4, <1>4
        <3> QED
            BY <3>3, <3>4
    <2>5. ASSUME NEW y \in Pool, NEW q \in Pool, NEW i \in DOMAIN m_fins'[y],
                 NEW j \in DOMAIN m_fins'[q], m_fins'[y][i] = m_fins'[q][j],
                 m_fins'[y][i] # Nowhere
          PROVE  y = q /\ i = j
        <3> DEFINE a == IF y = this THEN other ELSE y
                   b == IF q = this THEN other ELSE q
        <3>1. /\ a \in Pool /\ i \in DOMAIN m_fins[a] /\ m_fins'[y][i] = m_fins[a][i]
              /\ b \in Pool /\ j \in DOMAIN m_fins[b] /\ m_fins'[q][j] = m_fins[b][j]
            BY <2>2, <1>2
        <3>2. y # other /\ q # other
            BY <2>2
        <3> HIDE DEF a, b
        <3>3. m_fins[a][i] = m_fins[b][j] /\ m_fins[a][i] # Nowhere
            BY <2>5, <3>1
        <3>4. a = b /\ i = j
            BY <3>1, <3>3 DEF IInv, FinInv
        <3> QED
            BY <3>2, <3>4 DEF a, b
    <2>6. ASSUME NEW q \in Pool, NEW i \in DOMAIN m_fins'[q], m_fins'[q][i] # Nowhere
          PROVE  /\ m_fins'[q][i] \in Owed'
                 /\ In(m_fins'[q][i], m_list'[IF pc' = "assign" /\ q = other' THEN this' ELSE q])
        BY <2>1, <2>3, <2>6, <1>1
    <2> QED
        BY <2>1, <2>4, <2>5, <2>6 DEF FinInv, Keeper
<1>9. StateInv' /\ CallInv'
    <2>1. ASSUME NEW q \in Pool
          PROVE  /\ state'[q] = "none" => m_list[q] = << >> /\ m_fins'[q] = << >>
                 /\ state'[q] = "live" => m_list[q] # << >>
        <3>0. /\ state[q] = "none" => m_list[q] = << >> /\ m_fins[q] = << >>
              /\ state[q] = "live" /\ q # other => m_list[q] # << >>
            BY <1>1 DEF IInv, StateInv
        <3>1. CASE q = this
            BY <3>1, <1>2, <1>4
        <3>2. CASE q = other
            BY <3>2, <1>4
        <3>3. CASE q # this /\ q # other
            BY <3>0, <3>3, <1>4
        <3> QED
            BY <3>1, <3>2, <3>3
    <2> QED
        BY <2>1, <1>1 DEF StateInv, CallInv
<1> QED
    BY <1>6, <1>7, <1>8, <1>9 DEF IInv
-----------------------------------------------------------------------------
(* The theorems *)

LEMMA NextInv == ASSUME IInv, [Next]_vars PROVE IInv'
<1>1. ASSUME NEW z \in Pool, NEW n \in Request, NEW align \in Align,
             Allocate(z, n, align) \/ Allocate_T(z, n, align)
      PROVE  IInv'
    BY <1>1, AllocateInv, Allocate_TInv
<1>2. CASE Push_T \/ Push_T_Throws \/ Construct_T \/ Construct_T_Throws
    BY <1>2, Push_TInv, Push_T_ThrowsInv, Construct_TInv, Construct_T_ThrowsInv
<1>3. ASSUME NEW z \in Pool, NEW c \in ChunkSize, Construct(z, c) PROVE IInv'
    BY <1>3, ConstructInv
<1>4. ASSUME NEW z \in Pool, PushFinalizer(z) \/ Clear(z) \/ Destroy(z) PROVE IInv'
    BY <1>4, PushFinalizerInv, ClearInv, DestroyInv
<1>5. ASSUME NEW z \in Pool, NEW o \in Pool, MoveConstruct(z, o) \/ Assign(z, o) \/ Swap(z, o)
      PROVE  IInv'
    BY <1>5, MoveConstructInv, AssignInv, SwapInv
<1>6. CASE Assign_Finalizers
    BY <1>6, Assign_FinalizersInv
<1>7. CASE UNCHANGED vars
    <2>1. TypeOK'
        BY <1>7 DEF vars, IInv, TypeOK
    <2>2. RoomInv' /\ ListInv' /\ RegionInv'
        BY <1>7 DEF vars, IInv, RoomInv, ListInv, RegionInv
    <2>3. FinInv'
        BY <1>7 DEF vars, IInv, FinInv, Owed, Keeper
    <2>4. StateInv' /\ CallInv'
        BY <1>7 DEF vars, IInv, StateInv, CallInv
    <2> QED
        BY <2>1, <2>2, <2>3, <2>4 DEF IInv
<1> QED
    BY <1>1, <1>2, <1>3, <1>4, <1>5, <1>6, <1>7 DEF Next

LEMMA SpecInv == Spec => []IInv
<1>1. Init => IInv
    BY InitInv
<1>2. IInv /\ [Next]_vars => IInv'
    BY NextInv
<1> QED
    BY <1>1, <1>2, PTL DEF Spec

\* The fields, lists and regions of the zones have their types, whatever the calls of
\* cpp11_zone.hpp do in whatever order.
THEOREM CppZoneTypeOK == Spec => []TypeOK
<1>1. IInv => TypeOK
    BY DEF IInv
<1> QED
    BY <1>1, SpecInv, PTL

LEMMA InvOwned == IInv => MemoryOwned
<1> SUFFICES ASSUME IInv PROVE MemoryOwned
    OBVIOUS
<1>1. TypeOK /\ DOMAIN size = 1 .. Len(size)
    BY Numbers DEF IInv
<1>2. RoomExact
    BY DEF IInv, RoomInv, StateInv, RoomExact
<1>3. Disjoint
    BY DEF IInv, RegionInv, Disjoint
<1>4. ChunksOwned
    <2>1. UNION {Elements(m_list[z]) : z \in Pool} \subseteq DOMAIN size \ freed
        BY <1>1 DEF IInv, ListInv, Elements
    <2>2. DOMAIN size \ freed \subseteq UNION {Elements(m_list[z]) : z \in Pool}
        BY <1>1 DEF IInv, ListInv, Elements
    <2>3. \A z, o \in Pool : \A i \in DOMAIN m_list[z], j \in DOMAIN m_list[o] :
             m_list[z][i] = m_list[o][j] => z = o /\ i = j
        BY DEF IInv, ListInv
    <2> QED
        BY <2>1, <2>2, <2>3 DEF ChunksOwned
<1> QED
    BY <1>1, <1>2, <1>3, <1>4 DEF MemoryOwned

\* What a zone hands out is memory it owns, and nobody else's: its room is the rest of
\* its newest chunk, regions in use share no byte and are in chunks that are there,
\* and every chunk is in one list, once; for any number of zones, sizes and
\* alignments.
THEOREM CppZoneMemoryOwned == Spec => []MemoryOwned
    BY SpecInv, InvOwned, PTL

LEMMA InvDestroyed == IInv => DestroyedOnce
<1> SUFFICES ASSUME IInv PROVE DestroyedOnce
    OBVIOUS
<1>1. ASSUME pc \notin {"construct", "assign"}
      PROVE  /\ (UNION {Elements(m_fins[z]) : z \in Pool}) \ {Nowhere} = built
             /\ \A z, o \in Pool : \A i \in DOMAIN m_fins[z], j \in DOMAIN m_fins[o] :
                   m_fins[z][i] = m_fins[o][j] /\ m_fins[z][i] # Nowhere => z = o /\ i = j
    <2>1. Owed = built
        BY <1>1 DEF Owed
    <2> DEFINE all == UNION {Elements(m_fins[z]) : z \in Pool}
    <2>2. \A r : r \in all <=> \E z \in Pool : r \in Elements(m_fins[z])
        OBVIOUS
    <2>3. \A r : r \in all <=> \E z \in Pool : \E i \in DOMAIN m_fins[z] : m_fins[z][i] = r
        BY <2>2 DEF Elements
    <2> HIDE DEF all
    <2>4. ASSUME NEW r \in all, r # Nowhere PROVE r \in built
        BY <2>1, <2>3, <2>4 DEF IInv, FinInv
    <2>5. ASSUME NEW r \in built PROVE r \in all /\ r # Nowhere
        BY <1>1, <2>3, BuiltHas
    <2>6. all \ {Nowhere} = built
        BY <2>4, <2>5
    <2>7. \A z, o \in Pool : \A i \in DOMAIN m_fins[z], j \in DOMAIN m_fins[o] :
             m_fins[z][i] = m_fins[o][j] /\ m_fins[z][i] # Nowhere => z = o /\ i = j
        BY DEF IInv, FinInv
    <2>8. (UNION {Elements(m_fins[z]) : z \in Pool}) \ {Nowhere} = built
        BY <2>6 DEF all
    <2> QED
        BY <2>7, <2>8
<1>2. EachOnce
    BY <1>1 DEF EachOnce
<1>3. FinalizersReach
    <2> SUFFICES ASSUME NEW z \in Pool, NEW i \in DOMAIN m_fins[z]
                 PROVE  m_fins[z][i].chunk \notin freed
        BY DEF FinalizersReach
    <2>1. freed \subseteq 1 .. Len(size)
        BY DEF IInv, TypeOK
    <2>2. CASE m_fins[z][i] = Nowhere
        BY <2>1, <2>2 DEF Nowhere
    <2>3. CASE m_fins[z][i] # Nowhere
        <3>1. m_fins[z][i] \in Owed
            BY <2>3 DEF IInv, FinInv
        <3>2. Owed \subseteq given
            BY DEF Owed, IInv, TypeOK, CallInv
        <3> QED
            BY <3>1, <3>2 DEF IInv, RegionInv
    <2> QED
        BY <2>2, <2>3
<1> QED
    BY <1>2, <1>3 DEF DestroyedOnce

\* Every object that was made in a zone has one finalizer, in one zone, whose memory
\* is there until the finalizer has been called; one whose constructor threw has
\* none; for any sequence of moves, assignments, swaps, clears and throws.
THEOREM CppZoneDestroyedOnce == Spec => []DestroyedOnce
    BY SpecInv, InvDestroyed, PTL
=============================================================================
