---------------------------- MODULE Zone_proofs ----------------------------
(***************************************************************************)
(* The memory pool for every width of size_t, every alignment and every chunk *)
(* size: its bump pointer stays in the newest chunk, and what it hands out is  *)
(* disjoint.  The inductive invariant says where the regions of the newest     *)
(* chunk end, and what the doubling loop has reached.                         *)
(***************************************************************************)
EXTENDS Zone, SequenceTheorems, TLAPS

\* What malloc_expand was asked for, and how far its loop has come.
Progress ==
    /\ pc \in {"grow", "expand"} =>
         /\ want \in Want
         /\ want.size <= size
         /\ HEADER + size < Word /\ HEADER + sz < Word
         /\ HEADER + 2 * size < Word
    /\ pc = "expand" => size <= sz

\* The newest chunk is used up to ptr; the others keep their regions.
Room ==
    /\ pc # "gone" => /\ head > 0
                      /\ HEADER <= ptr
                      /\ ptr + free = chunks[head]
    /\ pc = "gone" => given = {}
    /\ head > 0 => chunks[1] = HEADER + chunk_size

RegionsInside ==
    \A r \in given : /\ r.chunk \in 1 .. head
                     /\ r.at + r.size <= chunks[r.chunk]
                     /\ r.chunk = head => r.at + r.size <= ptr

Behind == HeaderAligned => \A r \in given : HEADER <= r.at

Inv == TypeOK /\ Progress /\ Room /\ RegionsInside /\ Behind /\ Disjoint

\* A region is handed out that overlaps nothing handed out before.
Fresh == \E r \in given' : /\ given' = given \cup {r}
                           /\ \A s \in given : ~Overlap(r, s)

LEMMA WrapSmall == \A n \in Size : Wrap(n) = n
BY ZoneConstants DEF Size, Wrap

LEMMA WrapInSize == \A n \in Int : Wrap(n) \in Size
BY ZoneConstants DEF Size, Wrap

\* Rounding moves a place by less than ALIGN, and an aligned header not at all.
LEMMA AlignUpBounds ==
    \A p \in Nat : AlignUp(p) \in Nat /\ p <= AlignUp(p) /\ AlignUp(p) <= p + ALIGN - 1
BY ZoneConstants DEF AlignUp

LEMMA AlignDownBounds ==
    /\ AlignDown(HEADER) \in Nat /\ AlignDown(HEADER) <= HEADER
    /\ HeaderAligned => AlignDown(HEADER) = HEADER
BY ZoneConstants DEF AlignDown, HeaderAligned

LEMMA InitInv == Init => Inv
<1> SUFFICES ASSUME Init PROVE Inv
    OBVIOUS
<1>1. chunk_size \in Nat /\ HEADER \in Nat /\ HEADER + chunk_size < Word
    BY ZoneConstants DEF Init
<1>2. chunks \in Seq(Size) /\ Len(chunks) = 1 /\ chunks[1] = HEADER + chunk_size
    BY <1>1, ZoneConstants DEF Init, Size
<1> QED
    BY <1>1, <1>2, ZoneConstants
    DEF Init, Inv, TypeOK, Progress, Room, RegionsInside, Behind, Disjoint, Size, head

\* Handing out what is cut off the newest chunk: it begins at ptr or a little
\* later, and ends where ptr will be.
LEMMA CutOffInv ==
    ASSUME Inv, pc = "idle", NEW n \in Nat, NEW p \in Nat, NEW w \in Want,
           ptr <= p, p + w.size <= ptr + n, n <= free, CutOff(n, p, w),
           UNCHANGED <<chunk_size, fa, loop>>
    PROVE  Inv' /\ Fresh
<1> DEFINE r == [chunk |-> head, at |-> p, size |-> w.size]
<1>1. TypeOK /\ Progress /\ Room /\ RegionsInside /\ Behind /\ Disjoint
    BY DEF Inv
<1>2. /\ head \in Nat /\ chunks[head] \in Size /\ free \in Size /\ ptr \in Size
      /\ HEADER \in Nat /\ Word \in Nat
      /\ head > 0 /\ HEADER <= ptr /\ ptr + free = chunks[head]
    BY <1>1, ZoneConstants DEF TypeOK, Room, head
<1>3. w.size \in Nat
    BY ZoneConstants DEF Want
<1>4. free' = free - n /\ ptr' = ptr + n
    <2>1. ptr + n \in Size
        BY <1>2 DEF Size
    <2> QED
        BY <2>1, WrapSmall DEF CutOff
<1>5. /\ given' = given \cup {r} /\ r \in Region
      /\ r.chunk = head /\ r.at = p /\ r.size = w.size
    BY <1>2, <1>3 DEF CutOff, Give, Region
<1>6. UNCHANGED <<chunk_size, chunks, array, tail, fin, pc, want, size, sz, pushed, called>>
    BY DEF CutOff, fa, loop, local
<1>7. TypeOK'
    <2>1. free' \in Size /\ ptr' \in Size
        BY <1>2, <1>4 DEF Size
    <2> QED
        BY <1>1, <2>1, <1>5, <1>6 DEF TypeOK
<1>8. Progress' /\ Room'
    BY <1>1, <1>2, <1>4, <1>6 DEF Progress, Room, head, Size
<1>9. RegionsInside'
    <2> SUFFICES ASSUME NEW s \in given'
                 PROVE  /\ s.chunk \in 1 .. head
                        /\ s.at + s.size <= chunks[s.chunk]
                        /\ s.chunk = head => s.at + s.size <= ptr'
        BY <1>6 DEF RegionsInside, head
    <2>1. CASE s = r
        BY <2>1, <1>1, <1>2, <1>3, <1>4, <1>5 DEF Room, Size
    <2>2. CASE s \in given
        <3>1. s \in Region
            BY <2>2, <1>1 DEF TypeOK
        <3> QED
            BY <2>2, <3>1, <1>1, <1>2, <1>4 DEF RegionsInside, Region, Size
    <2> QED
        BY <2>1, <2>2, <1>5
<1>10. Behind'
    BY <1>1, <1>2, <1>5 DEF Behind, Size
<1>11. Disjoint' /\ Fresh
    <2>1. \A s \in given : ~Overlap(r, s) /\ ~Overlap(s, r)
        <3> SUFFICES ASSUME NEW s \in given, s.chunk = head
                     PROVE  ~Overlap(r, s) /\ ~Overlap(s, r)
            BY <1>5 DEF Overlap
        <3>1. s \in Region /\ s.at + s.size <= ptr
            BY <1>1 DEF TypeOK, RegionsInside
        <3> QED
            BY <3>1, <1>2, <1>3, <1>5 DEF Overlap, Region, Size
    <2> QED
        BY <2>1, <1>1, <1>5 DEF Disjoint, Fresh
<1> QED
    BY <1>7, <1>8, <1>9, <1>10, <1>11 DEF Inv

\* Going to the loop of malloc_expand.
LEMMA EnlargeInv ==
    ASSUME Inv, pc = "idle", NEW n \in Nat, NEW w \in Want,
           w.size <= n, HEADER + 2 * n < Word, Enlarge(w, n),
           UNCHANGED <<chunk_size, fa, loop>>
    PROVE  Inv'
<1>1. chunk_size \in Nat /\ HEADER \in Nat \ {0} /\ HEADER + chunk_size < Word
    BY ZoneConstants DEF Inv, TypeOK
<1>2. n \in Size /\ chunk_size \in Size /\ HEADER + n < Word
    BY <1>1, ZoneConstants DEF Size
<1>3. UNCHANGED <<chunk_size, chunks, free, ptr, given, array, tail, fin, pushed, called>>
    BY DEF Enlarge, list, fa, loop
<1>4. pc' = "grow" /\ want' = w /\ size' = n /\ sz' = chunk_size
    BY DEF Enlarge
<1>5. TypeOK'
    BY <1>2, <1>3, <1>4 DEF Inv, TypeOK
<1>6. Progress'
    BY <1>1, <1>2, <1>4 DEF Progress
<1>7. (Room /\ RegionsInside /\ Behind /\ Disjoint)'
    BY <1>3, <1>4 DEF Inv, Room, RegionsInside, Behind, Disjoint, head
<1> QED
    BY <1>5, <1>6, <1>7 DEF Inv

LEMMA MallocNoAlignInv == ASSUME Inv, NEW n \in Request, Malloc_NoAlign(n)
    PROVE  Inv' /\ (Fresh \/ UNCHANGED given)
<1> DEFINE w == [size |-> n, aligned |-> FALSE]
<1>1. /\ n \in Nat /\ HEADER + 2 * n < Word
      /\ w \in Want /\ w.size = n
    BY ZoneConstants DEF Want
<1>2. free \in Nat /\ ptr \in Nat
    BY ZoneConstants DEF Inv, TypeOK, Size
<1>3. pc = "idle" /\ UNCHANGED <<chunk_size, fa, loop>>
    BY DEF Malloc_NoAlign
<1>4. CASE free < n
    <2>1. Enlarge(w, n)
        BY <1>4 DEF Malloc_NoAlign
    <2> QED
        BY <2>1, <1>1, <1>3, EnlargeInv DEF Enlarge, list
<1>5. CASE ~(free < n)
    <2>1. CutOff(n, ptr, w)
        BY <1>5 DEF Malloc_NoAlign
    <2> HIDE DEF w
    <2> QED
        BY <2>1, <1>1, <1>2, <1>3, <1>5, CutOffInv
<1> QED
    BY <1>4, <1>5

LEMMA MallocInv == ASSUME Inv, NEW n \in Request, Malloc(n)
    PROVE  Inv' /\ (Fresh \/ UNCHANGED given)
<1> DEFINE w == [size |-> n, aligned |-> TRUE]
           p == AlignUp(ptr)
           a == n + (p - ptr)
           m == n + (ALIGN - 1)
<1>1. /\ n \in Nat /\ ALIGN \in Nat \ {0} /\ HEADER \in Nat /\ Word \in Nat
      /\ HEADER + 2 * m < Word
      /\ w \in Want /\ w.size = n
    BY ZoneConstants DEF Want
<1>2. free \in Nat /\ ptr \in Nat
    BY ZoneConstants DEF Inv, TypeOK, Size
<1>3. p \in Nat /\ ptr <= p /\ p <= ptr + ALIGN - 1
    BY <1>2, AlignUpBounds
<1>4. pc = "idle" /\ UNCHANGED <<chunk_size, fa, loop>>
    BY DEF Malloc
<1> HIDE DEF p
<1>5. /\ a \in Nat /\ a < Word /\ m \in Nat /\ m < Word
      /\ ptr + a = p + n /\ n <= m
    BY <1>1, <1>2, <1>3
<1>6. Wrap(a) = a /\ Wrap(m) = m
    BY <1>1, <1>5, WrapSmall DEF Size
<1>7. IF free >= a THEN CutOff(a, p, w) ELSE Enlarge(w, m)
    BY <1>6 DEF Malloc, p
<1> HIDE DEF w, a, m
<1>8. CASE free >= a
    <2>1. CutOff(a, p, w)
        BY <1>7, <1>8
    <2>2. p + w.size <= ptr + a /\ a <= free
        BY <1>1, <1>2, <1>3, <1>5, <1>8
    <2> QED
        BY <2>1, <2>2, <1>1, <1>3, <1>4, <1>5, CutOffInv
<1>9. CASE ~(free >= a)
    <2>1. Enlarge(w, m)
        BY <1>7, <1>9
    <2> QED
        BY <2>1, <1>1, <1>4, <1>5, EnlargeInv DEF Enlarge, list
<1> QED
    BY <1>8, <1>9

LEMMA GrowInv == ASSUME Inv, Grow PROVE Inv'
<1>1. TypeOK /\ Progress /\ pc = "grow"
    BY DEF Inv, Grow
<1>2. /\ HEADER \in Nat /\ Word \in Nat /\ size \in Nat /\ sz \in Nat
      /\ want \in Want /\ want.size <= size
      /\ HEADER + size < Word /\ HEADER + sz < Word /\ HEADER + 2 * size < Word
    BY <1>1, ZoneConstants DEF TypeOK, Progress, Size
<1>3. UNCHANGED <<chunk_size, chunks, free, ptr, given, array, tail, pushed,
                  fin, called, want, size>>
    BY DEF Grow, list, fa, loop
<1>4. sz < size => Wrap(sz * 2) = sz * 2
    <2>1. sz < size => sz * 2 \in Size
        BY <1>2 DEF Size
    <2> QED
        BY <2>1, WrapSmall
<1>5. pc' \in {"grow", "expand"} /\ (pc' = "expand" => size <= sz')
    BY <1>1, <1>2, <1>4 DEF Grow
<1>9. sz' \in Size /\ HEADER + sz' < Word
    BY <1>1, <1>2, <1>4 DEF Grow, Size
<1>6. TypeOK'
    BY <1>1, <1>3, <1>5, <1>9 DEF TypeOK
<1>7. Progress'
    BY <1>2, <1>3, <1>5, <1>9 DEF Progress
<1>8. (Room /\ RegionsInside /\ Behind /\ Disjoint)'
    BY <1>1, <1>3, <1>5 DEF Inv, Room, RegionsInside, Behind, Disjoint, head
<1> QED
    BY <1>6, <1>7, <1>8 DEF Inv

\* The region is the only one of the new chunk, in whose data it lies.
LEMMA ExpandInv == ASSUME Inv, Expand PROVE Inv' /\ Fresh
<1> DEFINE at == IF want.aligned THEN AlignDown(HEADER) ELSE HEADER
           r == [chunk |-> head + 1, at |-> at, size |-> want.size]
<1>1. TypeOK /\ Progress /\ Room /\ RegionsInside /\ Behind /\ Disjoint /\ pc = "expand"
    BY DEF Inv, Expand
<1>2. /\ HEADER \in Nat /\ Word \in Nat /\ size \in Nat /\ sz \in Nat
      /\ want \in Want /\ want.size <= size /\ size <= sz
      /\ HEADER + size < Word /\ HEADER + sz < Word
    BY <1>1, ZoneConstants DEF TypeOK, Progress, Size
<1>3. want.size \in Nat /\ want.aligned \in BOOLEAN
    BY <1>2, ZoneConstants DEF Want
<1>4. at \in Nat /\ at <= HEADER /\ (HeaderAligned => at = HEADER)
    BY <1>2, <1>3, AlignDownBounds
<1> HIDE DEF at
<1>5. chunks \in Seq(Size) /\ head \in Nat /\ head = Len(chunks) /\ head > 0
    BY <1>1 DEF TypeOK, Room, head
<1>6. /\ Wrap(HEADER + sz) = HEADER + sz /\ HEADER + sz \in Size
      /\ Wrap(sz - size) = sz - size /\ sz - size \in Size
      /\ Wrap(HEADER + size) = HEADER + size /\ HEADER + size \in Size
    <2>1. HEADER + sz \in Size /\ sz - size \in Size /\ HEADER + size \in Size
        BY <1>2 DEF Size
    <2> QED
        BY <2>1, WrapSmall
<1>7. /\ chunks' = Append(chunks, HEADER + sz)
      /\ free' = sz - size /\ ptr' = HEADER + size
      /\ given' = given \cup {r}
      /\ pc' = "idle" /\ want' = Nothing /\ size' = 0 /\ sz' = 0
      /\ UNCHANGED <<chunk_size, array, tail, pushed, fin, called>>
    BY <1>6 DEF Expand, Give, Return, fa, loop, at
<1>8. /\ chunks' \in Seq(Size) /\ head' = head + 1
      /\ chunks'[head + 1] = HEADER + sz
      /\ \A i \in 1 .. head : chunks'[i] = chunks[i]
    BY <1>5, <1>6, <1>7 DEF head
<1>9. /\ r \in Region /\ r.chunk = head + 1 /\ r.at = at /\ r.size = want.size
    BY <1>3, <1>4, <1>5 DEF Region
<1> HIDE DEF r
<1>10. TypeOK'
    <2>1. 0 \in Size
        BY <1>2 DEF Size
    <2>2. \A s \in given' : s \in Region
        BY <1>1, <1>7, <1>9 DEF TypeOK
    <2> QED
        BY <2>1, <2>2, <1>1, <1>6, <1>7, <1>8 DEF TypeOK
<1>11. Progress' /\ Room'
    BY <1>1, <1>2, <1>5, <1>7, <1>8 DEF Progress, Room
<1>12. RegionsInside'
    <2> SUFFICES ASSUME NEW s \in given'
                 PROVE  /\ s.chunk \in 1 .. head + 1
                        /\ s.at + s.size <= chunks'[s.chunk]
                        /\ s.chunk = head + 1 => s.at + s.size <= HEADER + size
        BY <1>7, <1>8 DEF RegionsInside
    <2>1. CASE s = r
        BY <2>1, <1>2, <1>3, <1>4, <1>5, <1>8, <1>9
    <2>2. CASE s \in given
        <3>1. s.chunk \in 1 .. head /\ s.at + s.size <= chunks[s.chunk]
            BY <2>2, <1>1 DEF RegionsInside
        <3> QED
            BY <3>1, <1>5, <1>8
    <2> QED
        BY <2>1, <2>2, <1>7
<1>13. Behind'
    BY <1>1, <1>2, <1>4, <1>7, <1>9 DEF Behind
<1>14. Disjoint' /\ Fresh
    <2>1. \A s \in given : ~Overlap(r, s) /\ ~Overlap(s, r)
        BY <1>1, <1>5, <1>9 DEF Overlap, RegionsInside
    <2> QED
        BY <2>1, <1>1, <1>7 DEF Disjoint, Fresh
<1> QED
    BY <1>10, <1>11, <1>12, <1>13, <1>14 DEF Inv

\* A push leaves the finalizers in the array where they are and adds its own,
\* whether the array grows or not.
LEMMA PushArray ==
    ASSUME TypeOK, PushFinalizer \/ PushFinalizer_Expand
    PROVE  /\ array' \in Seq(0 .. MaxFins)
           /\ tail' = tail + 1 /\ tail + 1 <= Len(array')
           /\ \A i \in 1 .. tail : array'[i] = array[i]
           /\ array'[tail + 1] = pushed + 1
           /\ pushed' = pushed + 1 /\ pushed' \in 0 .. MaxFins /\ pc = "idle"
           /\ UNCHANGED <<chunk_size, chunks, free, ptr, given, fin, called, pc,
                          want, size, sz>>
<1> DEFINE Fins == 0 .. MaxFins
<1>1. array \in Seq(Fins) /\ Len(array) \in Nat /\ tail \in 0 .. Len(array) /\ pushed \in Nat
    BY DEF TypeOK
<1>2. \A i \in 1 .. Len(array) : array[i] \in Fins
    <2> HIDE DEF Fins
    <2> QED
        BY <1>1, ElementOfSeq
<1>3. /\ pc = "idle" /\ pushed' = pushed + 1 /\ pushed + 1 \in Fins /\ 0 \in Fins
      /\ UNCHANGED <<chunk_size, chunks, free, ptr, given, fin, called, pc, want, size, sz>>
    BY <1>1, ZoneConstants
    DEF PushFinalizer, PushFinalizer_Expand, list, loop, local
<1>4. CASE PushFinalizer
    <2>1. tail < Len(array) /\ array' = [array EXCEPT ![tail + 1] = pushed + 1] /\ tail' = tail + 1
        BY <1>4 DEF PushFinalizer
    <2>2. tail + 1 \in 1 .. Len(array)
        BY <1>1, <2>1
    <2> HIDE DEF Fins
    <2>3. /\ array' \in Seq(Fins) /\ Len(array') = Len(array)
          /\ \A j \in 1 .. Len(array) : array'[j] = IF j = tail + 1 THEN pushed + 1 ELSE array[j]
        BY <1>1, <1>3, <2>1, <2>2, ExceptSeq
    <2> QED
        BY <1>1, <1>3, <2>1, <2>2, <2>3 DEF Fins
<1>5. CASE PushFinalizer_Expand
    <2> DEFINE nused == Len(array)
               nnext == IF nused = 0 THEN FIRST ELSE nused * 2
    <2>1. /\ tail = nused /\ tail' = nused + 1
          /\ array' = [i \in 1 .. nnext |-> IF i <= nused THEN array[i]
                         ELSE IF i = nused + 1 THEN pushed + 1 ELSE 0]
        BY <1>5 DEF PushFinalizer_Expand
    <2>2. nused \in Nat /\ nnext \in Nat /\ nused + 1 <= nnext
        BY <1>1, ZoneConstants
    <2> HIDE DEF nnext, Fins
    <2>3. array' \in [1 .. nnext -> Fins]
        BY <1>2, <1>3, <2>1, <2>2
    <2>4. array' \in Seq(Fins)
        BY <2>2, <2>3, SeqDef, SMTT(30)
    <2>5. Len(array') = nnext
        <3>1. DOMAIN array' = 1 .. Len(array') /\ Len(array') \in Nat
            BY <2>4, LenProperties
        <3>2. DOMAIN array' = 1 .. nnext
            BY <2>1
        <3>3. nnext \in DOMAIN array'
            BY <2>2, <3>2
        <3>4. nnext <= Len(array') /\ Len(array') \in DOMAIN array'
            BY <2>2, <3>1, <3>3
        <3> QED
            <4>1. Len(array') \in 1 .. nnext
                BY <3>2, <3>4
            <4>2. \A a, b \in Nat : a \in 1 .. b /\ b <= a => a = b
                OBVIOUS
            <4> QED
                BY <2>2, <3>1, <3>4, <4>1, <4>2
    <2> QED
        BY <1>1, <1>3, <2>1, <2>2, <2>4, <2>5 DEF Fins
<1> QED
    BY <1>4, <1>5

LEMMA StepInv == Inv /\ [Next]_vars => Inv'
<1> SUFFICES ASSUME Inv, [Next]_vars PROVE Inv'
    OBVIOUS
<1>0. /\ TypeOK /\ Progress /\ Room /\ RegionsInside /\ Behind /\ Disjoint
      /\ tail \in Nat /\ fin \in Nat /\ pushed \in Nat
    BY DEF Inv, TypeOK
<1>1. ASSUME NEW n \in Request, Malloc_NoAlign(n) PROVE Inv'
    BY <1>1, MallocNoAlignInv
<1>2. ASSUME NEW n \in Request, Malloc(n) PROVE Inv'
    BY <1>2, MallocInv
<1>3. CASE Grow
    BY <1>3, GrowInv
<1>4. CASE Expand
    BY <1>4, ExpandInv
<1>5. CASE ExpandFails
    <2>1. 0 \in Size
        BY ZoneConstants DEF Size
    <2> QED
        BY <1>5, <2>1, <1>0
        DEF ExpandFails, Return, list, fa, loop, Inv, TypeOK, Progress, Room,
            RegionsInside, Behind, Disjoint, head
<1>6. CASE PushFinalizer \/ PushFinalizer_Expand
    <2>1. array' \in Seq(0 .. MaxFins) /\ tail' \in 0 .. Len(array') /\ fin \in 0 .. tail'
        BY <1>0, <1>6, PushArray DEF TypeOK
    <2> QED
        BY <2>1, <1>0, <1>6, PushArray
        DEF Inv, TypeOK, Progress, Room, RegionsInside, Behind, Disjoint, head
<1>7. CASE Begin("clear") \/ Begin("destroy")
    BY <1>7, <1>0
    DEF Begin, list, fa, local, Inv, TypeOK, Progress, Room, RegionsInside, Behind,
        Disjoint, head
<1>8. CASE CallFinalizer
    <2>1. /\ UNCHANGED <<chunk_size, chunks, free, ptr, given, array, tail, pushed,
                         pc, want, size, sz>>
          /\ fin' \in 0 .. tail
        BY <1>8, <1>0 DEF CallFinalizer, list, fa, local, TypeOK
    <2>2. called' \in Seq(0 .. MaxFins)
        <3> DEFINE Fins == 0 .. MaxFins
        <3>1. array \in Seq(Fins) /\ fin \in 1 .. Len(array) /\ called \in Seq(Fins)
            BY <1>8, <1>0 DEF CallFinalizer, TypeOK
        <3> HIDE DEF Fins
        <3>2. array[fin] \in Fins
            BY <3>1, ElementOfSeq
        <3> QED
            BY <1>8, <3>1, <3>2 DEF CallFinalizer, Fins
    <2> QED
        BY <2>1, <2>2, <1>0
        DEF Inv, TypeOK, Progress, Room, RegionsInside, Behind, Disjoint, head
<1>9. CASE Clear
    <2>1. /\ pc = "clear" /\ fin = 0 /\ tail' = 0 /\ given' = {} /\ pc' = "idle"
          /\ chunks' = <<chunks[1]>> /\ free' = chunk_size /\ ptr' = HEADER
          /\ UNCHANGED <<chunk_size, array, pushed, fin, called, want, size, sz>>
        BY <1>9 DEF Clear, loop, local
    <2>2. /\ head > 0 /\ chunks \in Seq(Size) /\ chunks[1] \in Size
          /\ chunks[1] = HEADER + chunk_size
        BY <1>0, <2>1 DEF Room, TypeOK, head
    <2>3. /\ chunk_size \in Size /\ HEADER \in Size /\ HEADER \in Nat
          /\ chunk_size \in Nat
        BY <1>0, ZoneConstants DEF TypeOK, Size
    <2>4. chunks' \in Seq(Size) /\ Len(chunks') = 1 /\ chunks'[1] = HEADER + chunk_size
        BY <2>1, <2>2
    <2>5. TypeOK'
        BY <1>0, <2>1, <2>3, <2>4 DEF TypeOK
    <2>6. Room'
        BY <2>1, <2>3, <2>4 DEF Room, head
    <2> QED
        BY <1>0, <2>1, <2>5, <2>6 DEF Inv, Progress, RegionsInside, Behind, Disjoint
<1>10. CASE Destroy
    <2>1. /\ chunks' = << >> /\ given' = {} /\ pc' = "gone"
          /\ array' = << >> /\ tail' = 0 /\ fin = 0
          /\ UNCHANGED <<chunk_size, free, ptr, pushed, fin, called, want, size, sz>>
        BY <1>10 DEF Destroy, loop, local
    <2> QED
        BY <1>0, <2>1
        DEF Inv, TypeOK, Progress, Room, RegionsInside, Behind, Disjoint, head
<1>11. CASE UNCHANGED vars
    BY <1>0, <1>11
    DEF vars, Inv, TypeOK, Progress, Room, RegionsInside, Behind, Disjoint, head
<1> QED
    BY <1>1, <1>2, <1>3, <1>4, <1>5, <1>6, <1>7, <1>8, <1>9, <1>10, <1>11
    DEF Next, Continue

LEMMA Invariance == Spec => []Inv
BY InitInv, StepInv, PTL DEF Spec

\* Types of the zone's fields and of the call in progress; no sum wraps.
THEOREM ZoneTypeOK == Spec => []TypeOK
BY Invariance, PTL DEF Inv

\* free and ptr always describe the rest of the newest chunk.
THEOREM ZoneRoomExact == Spec => []RoomExact
<1>1. Inv => RoomExact
    BY DEF Inv, Room, RoomExact
<1> QED
    BY <1>1, Invariance, PTL

\* No two callers get the same byte, whatever the alignment.
THEOREM ZoneDisjoint == Spec => []Disjoint
BY Invariance, PTL DEF Inv

\* What is handed out lies in the data of a chunk, if the header keeps the
\* alignment.
THEOREM ZoneInData == ASSUME HeaderAligned PROVE Spec => []InData
<1>1. Inv => InData
    BY HeaderAligned DEF Inv, RegionsInside, Behind, InData
<1> QED
    BY <1>1, Invariance, PTL
-----------------------------------------------------------------------------
(* An empty zone *)

\* While nothing but empty regions is handed out, the first chunk is as it was made, and
\* no other is asked for.
Untouched ==
    pc # "gone" /\ (\A r \in given : r.size = 0) =>
        /\ head = 1 /\ ptr = HEADER
        /\ pc \in {"grow", "expand"} => want.size > 0

LEMMA AlignedHeader == HeaderAligned => AlignUp(HEADER) = HEADER
<1> SUFFICES ASSUME HEADER % ALIGN = 0 PROVE AlignUp(HEADER) = HEADER
    BY DEF HeaderAligned
<1> DEFINE q == HEADER \div ALIGN
<1>1. HEADER \in Nat /\ ALIGN \in Nat \ {0}
    BY ZoneConstants
<1>2. q \in Nat /\ HEADER = q * ALIGN
    BY <1>1
<1> HIDE DEF q
<1>3. (q * ALIGN + ALIGN - 1) \div ALIGN = q
    BY <1>1, <1>2
<1> QED
    BY <1>1, <1>2, <1>3 DEF AlignUp

LEMMA CutOffUntouched ==
    ASSUME Inv, Untouched, pc = "idle", NEW n \in Nat, NEW p \in Nat, NEW w \in Want,
           n <= free, CutOff(n, p, w), ptr = HEADER => n = w.size
    PROVE  Untouched'
<1> DEFINE r == [chunk |-> head, at |-> p, size |-> w.size]
<1>1. given' = given \cup {r} /\ r.size = w.size /\ UNCHANGED <<chunks, pc>>
    BY DEF CutOff, Give
<1> HIDE DEF r
<1>2. /\ ptr \in Nat /\ free \in Nat /\ HEADER \in Nat /\ Word \in Nat
      /\ ptr + free < Word
    BY ZoneConstants, SMTT(30) DEF Inv, TypeOK, Room, Size, head
<1>3. ptr' = ptr + n
    BY <1>2, WrapSmall DEF CutOff, Size
<1> SUFFICES ASSUME \A s \in given' : s.size = 0
             PROVE  head' = 1 /\ ptr' = HEADER
    BY <1>1 DEF Untouched
<1>4. w.size = 0 /\ head = 1 /\ ptr = HEADER
    BY <1>1 DEF Untouched
<1> QED
    BY <1>1, <1>2, <1>3, <1>4 DEF head

LEMMA EnlargeUntouched ==
    ASSUME Inv, Untouched, pc = "idle", NEW m \in Nat, NEW w \in Want, Enlarge(w, m),
           ptr = HEADER => w.size > 0
    PROVE  Untouched'
BY DEF Enlarge, list, Untouched, head

LEMMA StepUntouched ==
    ASSUME HeaderAligned PROVE Inv /\ Untouched /\ [Next]_vars => Untouched'
<1> SUFFICES ASSUME Inv, Untouched, [Next]_vars PROVE Untouched'
    OBVIOUS
<1>0. /\ free \in Nat /\ ptr \in Nat /\ Word \in Nat /\ HEADER \in Nat
      /\ ALIGN \in Nat \ {0} /\ free < Word
    BY ZoneConstants DEF Inv, TypeOK, Size
<1>1. ASSUME NEW n \in Request, Malloc_NoAlign(n) PROVE Untouched'
    <2> DEFINE w == [size |-> n, aligned |-> FALSE]
    <2>1. n \in Nat /\ w \in Want /\ w.size = n
        BY ZoneConstants DEF Want
    <2>2. pc = "idle" /\ IF free < n THEN Enlarge(w, n) ELSE CutOff(n, ptr, w)
        BY <1>1 DEF Malloc_NoAlign
    <2> HIDE DEF w
    <2>3. CASE free < n
        BY <1>0, <2>1, <2>2, <2>3, EnlargeUntouched
    <2>4. CASE ~(free < n)
        BY <1>0, <2>1, <2>2, <2>4, CutOffUntouched
    <2> QED
        BY <2>3, <2>4
<1>2. ASSUME NEW n \in Request, Malloc(n) PROVE Untouched'
    <2> DEFINE w == [size |-> n, aligned |-> TRUE]
               p == AlignUp(ptr)
               a == n + (p - ptr)
               m == n + (ALIGN - 1)
    <2>1. /\ n \in Nat /\ w \in Want /\ w.size = n /\ HEADER + 2 * m < Word
        BY ZoneConstants DEF Want
    <2>2. p \in Nat /\ ptr <= p /\ p <= ptr + ALIGN - 1 /\ (ptr = HEADER => p = ptr)
        BY <1>0, AlignUpBounds, AlignedHeader, HeaderAligned
    <2> HIDE DEF p
    <2>3. /\ a \in Nat /\ a < Word /\ m \in Nat /\ m < Word
          /\ ptr = HEADER => a = n
        BY <1>0, <2>1, <2>2
    <2>4. Wrap(a) = a /\ Wrap(m) = m
        BY <1>0, <2>3, WrapSmall DEF Size
    <2>5. pc = "idle" /\ IF free >= a THEN CutOff(a, p, w) ELSE Enlarge(w, m)
        BY <1>2, <2>4 DEF Malloc, p
    <2> HIDE DEF w, a, m
    <2>6. CASE free >= a
        BY <1>0, <2>1, <2>2, <2>3, <2>5, <2>6, CutOffUntouched
    <2>7. CASE ~(free >= a)
        BY <1>0, <2>1, <2>3, <2>5, <2>7, EnlargeUntouched
    <2> QED
        BY <2>6, <2>7
<1>3. CASE Expand
    <2> DEFINE r == [chunk |-> head + 1, size |-> want.size,
                     at |-> IF want.aligned THEN AlignDown(HEADER) ELSE HEADER]
    <2>1. /\ pc = "expand" /\ pc' = "idle"
          /\ given' = given \cup {r} /\ r.size = want.size
        BY <1>3 DEF Expand, Give, Return
    <2>2. want.size \in Nat
        BY <2>1, ZoneConstants DEF Inv, Progress, Want
    <2> HIDE DEF r
    <2> QED
        BY <2>1, <2>2 DEF Untouched
<1>4. CASE Clear
    <2>1. head' = 1 /\ ptr' = HEADER /\ pc' = "idle"
        BY <1>4 DEF Clear, head
    <2> QED
        BY <2>1 DEF Untouched
<1>5. CASE Destroy
    BY <1>5 DEF Destroy, Untouched
<1>6. CASE Grow \/ ExpandFails
    BY <1>6 DEF Grow, ExpandFails, Return, list, Untouched, head
<1>7. CASE PushFinalizer \/ PushFinalizer_Expand
    BY <1>7 DEF PushFinalizer, PushFinalizer_Expand, list, Untouched, head
<1>8. CASE Begin("clear") \/ Begin("destroy") \/ CallFinalizer
    BY <1>8 DEF Begin, CallFinalizer, list, Untouched, head
<1>9. CASE UNCHANGED vars
    BY <1>9 DEF vars, Untouched, head
<1> QED
    BY <1>1, <1>2, <1>3, <1>4, <1>5, <1>6, <1>7, <1>8, <1>9 DEF Next, Continue

\* is_empty says whether any byte is handed out or any finalizer waits: an allocation
\* of no bytes leaves no trace, and one that failed neither.
THEOREM ZoneEmptyHonest == ASSUME HeaderAligned PROVE Spec => []EmptyHonest
<1>1. Init => Untouched
    BY DEF Init, Untouched, head
<1>2. Inv /\ Untouched => EmptyHonest
    <2> SUFFICES ASSUME Inv, Untouched, pc = "idle"
                 PROVE  is_empty <=> tail = 0 /\ \A r \in given : r.size = 0
        BY DEF EmptyHonest
    <2>1. /\ HEADER \in Nat /\ ptr \in Nat /\ free \in Nat /\ chunk_size \in Nat
          /\ head > 0 /\ ptr + free = chunks[head] /\ chunks[1] = HEADER + chunk_size
        BY ZoneConstants DEF Inv, TypeOK, Room, Size
    <2>2. ASSUME is_empty, NEW r \in given PROVE r.size = 0
        <3>1. head = 1 /\ ptr = HEADER
            BY <2>1, <2>2 DEF is_empty
        <3>2. r \in Region /\ r.chunk \in 1 .. head /\ HEADER <= r.at
              /\ (r.chunk = head => r.at + r.size <= ptr)
            BY HeaderAligned DEF Inv, TypeOK, RegionsInside, Behind
        <3> QED
            BY <2>1, <3>1, <3>2 DEF Region
    <2>3. ASSUME tail = 0, \A r \in given : r.size = 0 PROVE is_empty
        BY <2>1, <2>3 DEF Untouched, is_empty
    <2> QED
        BY <2>2, <2>3 DEF is_empty
<1> QED
    BY <1>1, <1>2, StepUntouched, HeaderAligned, Invariance, PTL DEF Spec

\* Together: no byte is handed out that is not the zone's to give, and is_empty knows.
THEOREM ZoneHandedOutOnce == ASSUME HeaderAligned PROVE Spec => []HandedOutOnce
<1>1. RoomExact /\ InData /\ Disjoint /\ EmptyHonest => HandedOutOnce
    BY DEF HandedOutOnce
<1> QED
    BY <1>1, ZoneRoomExact, ZoneInData, ZoneDisjoint, ZoneEmptyHonest, HeaderAligned, PTL
-----------------------------------------------------------------------------
(* Finalizers, and the arena *)

\* How many finalizers of the array are still to be called.
Left == IF pc \in {"clear", "destroy"} THEN fin ELSE tail

\* FinalizersExact, said of the array.  It needs that no finalizer is twice in it.
FinOnce ==
    /\ \A i \in DOMAIN called : called[i] \in 1 .. pushed
    /\ \A i, j \in DOMAIN called : called[i] = called[j] => i = j
    /\ \A i, j \in 1 .. Left : array[i] = array[j] => i = j
    /\ \A f : (\E i \in 1 .. Left : array[i] = f)
              <=> f \in 1 .. pushed /\ \A i \in DOMAIN called : called[i] # f

LEMMA PendingIs ==
    ASSUME TypeOK
    PROVE  /\ Left \in 0 .. Len(array) /\ Len(array) \in Nat
           /\ Pending \in Seq(0 .. MaxFins) /\ Len(Pending) = Left
           /\ DOMAIN Pending = 1 .. Left
           /\ \A i \in 1 .. Left : Pending[i] = array[i]
<1> DEFINE Fins == 0 .. MaxFins
<1>1. array \in Seq(Fins) /\ Len(array) \in Nat /\ Left \in 0 .. Len(array)
    BY DEF TypeOK, Left
<1>2. Pending = SubSeq(array, 1, Left)
    BY DEF Pending, Left
<1> HIDE DEF Fins
<1>3. \A i \in 1 .. Left : array[i] \in Fins
    <2> SUFFICES ASSUME NEW i \in 1 .. Left PROVE array[i] \in Fins
        OBVIOUS
    <2>1. i \in 1 .. Len(array)
        BY <1>1
    <2> QED
        BY <1>1, <2>1, ElementOfSeq
<1>4. /\ Pending \in Seq(Fins)
      /\ Len(Pending) = IF 1 <= Left THEN Left - 1 + 1 ELSE 0
      /\ \A i \in 1 .. Left - 1 + 1 : Pending[i] = array[1 + i - 1]
    BY <1>1, <1>2, <1>3, SubSeqProperties
<1>5. Len(Pending) = Left /\ DOMAIN Pending = 1 .. Len(Pending)
    BY <1>1, <1>4, LenProperties
<1>6. ASSUME NEW i \in 1 .. Left PROVE Pending[i] = array[i]
    <2>1. i \in 1 .. Left - 1 + 1 /\ 1 + i - 1 = i
        BY <1>1
    <2> QED
        BY <1>4, <2>1
<1> QED
    BY <1>1, <1>4, <1>5, <1>6 DEF Fins

LEMMA InitFin == Init => FinOnce
BY DEF Init, FinOnce, Left

\* A call takes the last finalizer of those to be called.
LEMMA CallFin ==
    ASSUME TypeOK, CallFinalizer
    PROVE  /\ Left = fin /\ Left' = Left - 1 /\ Left > 0
           /\ UNCHANGED <<given, array, pushed>>
           /\ called' = Append(called, array[Left])
           /\ called \in Seq(0 .. MaxFins) /\ array[Left] \in 0 .. MaxFins
<1> DEFINE Fins == 0 .. MaxFins
<1>1. /\ pc \in {"clear", "destroy"} /\ fin > 0 /\ fin' = fin - 1 /\ pc' = pc
      /\ called' = Append(called, array[fin])
      /\ UNCHANGED <<given, array, pushed>>
    BY DEF CallFinalizer, list, fa, local
<1>2. array \in Seq(Fins) /\ called \in Seq(Fins) /\ fin \in 1 .. Len(array)
    BY <1>1 DEF TypeOK
<1> HIDE DEF Fins
<1>3. array[fin] \in Fins
    BY <1>2, ElementOfSeq
<1> QED
    BY <1>1, <1>2, <1>3 DEF Left, Fins

\* The other steps leave the finalizers to be called, and those called, alone.
LEMMA KeepFin ==
    ASSUME Inv, [Next]_vars, ~PushFinalizer, ~PushFinalizer_Expand, ~CallFinalizer
    PROVE  /\ UNCHANGED <<pushed, called>> /\ Left' = Left
           /\ Left = 0 \/ UNCHANGED array
<1>1. ASSUME NEW n \in Request, Malloc_NoAlign(n) \/ Malloc(n)
      PROVE  UNCHANGED <<pushed, called, array, tail, fin>>
             /\ pc = "idle" /\ pc' \in {"idle", "grow"}
    BY <1>1 DEF Malloc_NoAlign, Malloc, Enlarge, CutOff, fa, loop
<1>2. CASE Grow \/ Expand \/ ExpandFails
    BY <1>2 DEF Grow, Expand, ExpandFails, Return, fa, loop, Left
<1>3. CASE Begin("clear") \/ Begin("destroy")
    BY <1>3 DEF Begin, fa, Left
<1>4. CASE Clear
    BY <1>4 DEF Clear, loop, Left
<1>5. CASE Destroy
    BY <1>5 DEF Destroy, loop, Left
<1>6. CASE UNCHANGED vars
    BY <1>6 DEF vars, Left
<1>7. CASE \E n \in Request : Malloc_NoAlign(n) \/ Malloc(n)
    BY <1>1, <1>7 DEF Left
<1> QED
    BY <1>2, <1>3, <1>4, <1>5, <1>6, <1>7 DEF Next, Continue

LEMMA StepFin == Inv /\ FinOnce /\ [Next]_vars => FinOnce'
<1> SUFFICES ASSUME Inv, FinOnce, [Next]_vars PROVE FinOnce'
    OBVIOUS
<1>0. /\ TypeOK /\ Left \in Nat /\ pushed \in Nat
      /\ called \in Seq(0 .. MaxFins) /\ DOMAIN called = 1 .. Len(called)
      /\ Len(called) \in Nat
    <2>1. TypeOK
        BY DEF Inv
    <2> QED
        BY <2>1, PendingIs, LenProperties DEF TypeOK
<1>1. CASE PushFinalizer \/ PushFinalizer_Expand
    <2>1. Left = tail /\ Left' = tail + 1
        BY <1>0, <1>1, PushArray DEF Left
    <2>2. /\ array'[Left + 1] = pushed + 1 /\ pushed' = pushed + 1 /\ UNCHANGED called
          /\ \A i \in 1 .. Left : array'[i] = array[i]
        BY <1>0, <1>1, <2>1, PushArray
    <2>3. \A i \in DOMAIN called : called[i] # pushed + 1
        BY <1>0 DEF FinOnce
    <2>4. 1 .. Left' = 1 .. Left \cup {Left + 1} /\ 1 .. pushed' = 1 .. pushed \cup {pushed + 1}
        BY <1>0, <2>1, <2>2
    <2>5. \A i \in 1 .. Left : array'[i] \in 1 .. pushed
        BY <2>2 DEF FinOnce
    <2>6. \A i, j \in 1 .. Left' : array'[i] = array'[j] => i = j
        BY <1>0, <2>2, <2>4, <2>5 DEF FinOnce
    <2>7. \A f : (\E i \in 1 .. Left' : array'[i] = f)
                    <=> f \in 1 .. pushed' /\ \A i \in DOMAIN called : called[i] # f
        BY <2>2, <2>3, <2>4 DEF FinOnce
    <2> QED
        BY <1>0, <2>2, <2>4, <2>6, <2>7 DEF FinOnce
<1>2. CASE CallFinalizer
    <2>1. /\ Left' = Left - 1 /\ Left > 0 /\ UNCHANGED <<array, pushed>>
          /\ called' = Append(called, array[Left]) /\ array[Left] \in 0 .. MaxFins
        BY <1>0, <1>2, CallFin
    <2>2. /\ DOMAIN called' = 1 .. Len(called) + 1
          /\ \A i \in 1 .. Len(called) : called'[i] = called[i]
          /\ called'[Len(called) + 1] = array[Left]
        BY <1>0, <2>1
    <2>3. \A i \in DOMAIN called : called[i] # array[Left]
        BY <1>0, <2>1 DEF FinOnce
    <2>4. /\ 1 .. Left = 1 .. Left' \cup {Left} /\ Left \notin 1 .. Left'
          /\ 1 .. Len(called) + 1 = 1 .. Len(called) \cup {Len(called) + 1}
          /\ Left \in 1 .. Left
        BY <1>0, <2>1
    <2>5. array[Left] \in 1 .. pushed
        BY <2>4 DEF FinOnce
    <2>6. \A i \in DOMAIN called' : called'[i] \in 1 .. pushed
        BY <1>0, <2>2, <2>4, <2>5 DEF FinOnce
    <2>7. \A i, j \in DOMAIN called' : called'[i] = called'[j] => i = j
        BY <1>0, <2>2, <2>3, <2>4 DEF FinOnce
    <2>8. \A f : (\A i \in DOMAIN called' : called'[i] # f)
                    <=> f # array[Left] /\ \A i \in DOMAIN called : called[i] # f
        BY <1>0, <2>2, <2>4
    <2>9. \A f : (\E i \in 1 .. Left' : array[i] = f)
                    <=> f # array[Left] /\ \E i \in 1 .. Left : array[i] = f
        BY <2>4 DEF FinOnce
    <2>10. \A i, j \in 1 .. Left' : array[i] = array[j] => i = j
        BY <2>4 DEF FinOnce
    <2>11. \A f : (\E i \in 1 .. Left : array[i] = f)
                     <=> f \in 1 .. pushed /\ \A i \in DOMAIN called : called[i] # f
        BY DEF FinOnce
    <2>12. \A f : (\E i \in 1 .. Left' : array[i] = f)
                     <=> f \in 1 .. pushed /\ \A i \in DOMAIN called' : called'[i] # f
        BY ONLY <2>8, <2>9, <2>11
    <2>13. array' = array /\ pushed' = pushed
        BY <2>1
    <2> QED
        BY ONLY <2>6, <2>7, <2>10, <2>12, <2>13 DEF FinOnce
<1>3. CASE ~(PushFinalizer \/ PushFinalizer_Expand \/ CallFinalizer)
    <2>1. /\ UNCHANGED <<pushed, called>> /\ Left' = Left
          /\ Left = 0 \/ UNCHANGED array
        BY <1>3, KeepFin
    <2>2. CASE Left = 0
        BY <2>1, <2>2 DEF FinOnce
    <2>3. CASE UNCHANGED array
        BY <2>1, <2>3 DEF FinOnce
    <2> QED
        BY <2>1, <2>2, <2>3
<1> QED
    BY <1>1, <1>2, <1>3

LEMMA FinInvariance == Spec => []FinOnce
BY InitFin, StepFin, Invariance, PTL DEF Spec

\* No finalizer is lost when the array grows or called twice by a later clear.
THEOREM ZoneFinalizersExact == Spec => []FinalizersExact
<1>1. Inv /\ FinOnce => FinalizersExact
    <2> SUFFICES ASSUME Inv, FinOnce PROVE FinalizersExact
        OBVIOUS
    <2>1. /\ DOMAIN Pending = 1 .. Left
          /\ \A i \in 1 .. Left : Pending[i] = array[i]
        BY PendingIs DEF Inv
    <2> QED
        BY <2>1 DEF FinalizersExact, FinOnce
<1> QED
    BY <1>1, Invariance, FinInvariance, PTL

LEMMA InitImplements == Init => Memory!Init
BY SubSeqEmpty DEF Init, Memory!Init, Pending

LEMMA PushImplements ==
    ASSUME Inv, PushFinalizer \/ PushFinalizer_Expand
    PROVE  Memory!Push
<1> DEFINE Fins == 0 .. MaxFins
           longer == Append(Pending, pushed + 1)
<1>1. /\ TypeOK /\ TypeOK'
      /\ pushed \in Nat /\ pushed + 1 \in 1 .. MaxFins /\ pushed + 1 \in Fins
      /\ UNCHANGED <<given, called>>
    <2>1. TypeOK'
        BY StepInv DEF Inv, Next
    <2> QED
        BY <2>1, PushArray, ZoneConstants DEF Inv, TypeOK
<1>2. Left = tail /\ Left' = tail + 1 /\ Left \in Nat
    BY <1>1, PushArray, PendingIs DEF Left
<1>3. /\ Pending \in Seq(Fins) /\ Len(Pending) = Left
      /\ \A i \in 1 .. Left : Pending[i] = array[i]
    BY <1>1, PendingIs
<1>4. /\ Pending' \in Seq(Fins) /\ Len(Pending') = Left'
      /\ \A i \in 1 .. Left' : Pending'[i] = array'[i]
    <2>1. TypeOK' => /\ (Pending \in Seq(Fins))' /\ (Len(Pending) = Left)'
                     /\ (\A i \in 1 .. Left : Pending[i] = array[i])'
        BY PendingIs, PTL
    <2> QED
        BY <2>1, <1>1
<1>5. /\ array'[Left + 1] = pushed + 1
      /\ \A i \in 1 .. Left : array'[i] = array[i]
    BY <1>1, <1>2, PushArray
<1> HIDE DEF Fins
<1>6. /\ longer \in Seq(Fins) /\ Len(longer) = Left + 1
      /\ \A i \in 1 .. Left : longer[i] = Pending[i]
      /\ longer[Left + 1] = pushed + 1
    BY <1>1, <1>3, AppendProperties
<1>7. ASSUME NEW i \in 1 .. Len(longer) PROVE longer[i] = Pending'[i]
    BY <1>2, <1>3, <1>4, <1>5, <1>6
<1>8. Pending' = longer
    <2>1. Len(longer) = Len(Pending')
        BY <1>2, <1>4, <1>6
    <2> HIDE DEF longer
    <2> QED
        BY <2>1, <1>4, <1>6, <1>7, SeqEqual
<1> QED
    BY <1>1, <1>8 DEF Memory!Push

LEMMA CallImplements == ASSUME Inv, CallFinalizer PROVE Memory!Call
<1>1. /\ TypeOK /\ UNCHANGED given /\ array' = array
      /\ Left > 0 /\ Left' = Left - 1 /\ called' = Append(called, array[Left])
    BY CallFin DEF Inv
<1>2. /\ Left \in Nat /\ Left <= Len(array) /\ Len(array) \in Nat
      /\ Pending \in Seq(0 .. MaxFins) /\ Len(Pending) = Left
      /\ \A i \in 1 .. Left : Pending[i] = array[i]
    BY <1>1, PendingIs
<1>3. Pending # << >> /\ Pending[Len(Pending)] = array[Left]
    BY <1>1, <1>2
<1>4. Pending' = SubSeq(array, 1, Left - 1)
    BY <1>1 DEF Pending, Left
<1>5. SubSeq(array, 1, Left - 1) = SubSeq(Pending, 1, Left - 1)
    <2> DEFINE Fins == 0 .. MaxFins
               s == SubSeq(array, 1, Left - 1)
               t == SubSeq(Pending, 1, Left - 1)
    <2> HIDE DEF Fins
    <2>1. \A i \in 1 .. Left - 1 : i \in 1 .. Left /\ i \in 1 .. Len(array)
        BY <1>2
    <2>2. \A i \in 1 .. Left - 1 : Pending[i] \in Fins /\ array[i] = Pending[i]
        BY <1>2, <2>1, ElementOfSeq DEF Fins
    <2>3. /\ s \in Seq(Fins) /\ t \in Seq(Fins) /\ Len(s) = Len(t)
          /\ Len(s) = IF 1 <= Left - 1 THEN Left - 1 - 1 + 1 ELSE 0
          /\ \A i \in 1 .. Left - 1 - 1 + 1 : s[i] = array[1 + i - 1]
          /\ \A i \in 1 .. Left - 1 - 1 + 1 : t[i] = Pending[1 + i - 1]
        BY <1>2, <2>2, SubSeqProperties
    <2> HIDE DEF s, t
    <2>4. ASSUME NEW i \in 1 .. Len(s) PROVE s[i] = t[i]
        <3>1. i \in 1 .. Left - 1 /\ i \in 1 .. Left - 1 - 1 + 1 /\ 1 + i - 1 = i
            BY <1>2, <2>3
        <3> QED
            BY <2>2, <2>3, <3>1
    <2> QED
        BY <2>3, <2>4, SeqEqual DEF s, t
<1> QED
    BY <1>1, <1>2, <1>3, <1>4, <1>5 DEF Memory!Call

\* What an arena does when memory is handed out.
LEMMA FreshAllocates ==
    ASSUME Fresh, UNCHANGED <<Pending, called>> PROVE Memory!Allocate
<1>1. \A r, s : Overlap(r, s) <=> Memory!Overlap(r, s)
    BY DEF Overlap, Memory!Overlap
<1> QED
    BY <1>1 DEF Fresh, Memory!Allocate

LEMMA StepImplements == Inv /\ [Next]_vars => [Memory!Next]_Memory!vars
<1> SUFFICES ASSUME Inv, [Next]_vars PROVE [Memory!Next]_Memory!vars
    OBVIOUS
<1>1. CASE PushFinalizer \/ PushFinalizer_Expand
    BY <1>1, PushImplements DEF Memory!Next
<1>2. CASE CallFinalizer
    BY <1>2, CallImplements DEF Memory!Next
<1>3. ASSUME ~PushFinalizer, ~PushFinalizer_Expand, ~CallFinalizer
      PROVE  [Memory!Next]_Memory!vars
    <2>1. UNCHANGED <<Pending, called>>
        <3>1. called' = called /\ Left' = Left /\ (Left = 0 \/ array' = array)
            BY <1>3, KeepFin
        <3>2. Pending = SubSeq(array, 1, Left) /\ Pending' = SubSeq(array', 1, Left')
            BY DEF Pending, Left
        <3>3. CASE Left = 0
            BY <3>1, <3>2, <3>3, SubSeqEmpty
        <3> QED
            BY <3>1, <3>2, <3>3
    <2>2. ASSUME NEW n \in Request, Malloc_NoAlign(n) \/ Malloc(n)
          PROVE  Fresh \/ UNCHANGED given
        BY <2>2, MallocNoAlignInv, MallocInv
    <2>3. CASE Expand
        BY <2>3, ExpandInv, <2>1, FreshAllocates DEF Memory!Next
    <2>4. CASE Grow \/ ExpandFails \/ Begin("clear") \/ Begin("destroy") \/ UNCHANGED vars
        BY <2>4, <2>1 DEF Grow, ExpandFails, Begin, list, vars, Memory!vars
    <2>5. CASE Clear \/ Destroy
        <3>1. given' = {} /\ Left = 0
            BY <2>5 DEF Clear, Destroy, Left
        <3>2. Pending = << >>
            BY <3>1, SubSeqEmpty DEF Pending, Left
        <3> QED
            BY <2>1, <3>1, <3>2 DEF Memory!Drop, Memory!Next
    <2>6. CASE \E n \in Request : Malloc_NoAlign(n) \/ Malloc(n)
        <3>1. Fresh \/ UNCHANGED given
            BY <2>2, <2>6
        <3> QED
            BY <2>1, <3>1, FreshAllocates DEF Memory!Next, Memory!vars
    <2> QED
        BY <1>3, <2>3, <2>4, <2>5, <2>6 DEF Next, Continue
<1> QED
    BY <1>1, <1>2, <1>3

\* To its users the zone is an arena: the chunks are invisible.
THEOREM ZoneRefinesArena == Spec => RefinesArena
BY InitImplements, StepImplements, Invariance, PTL DEF RefinesArena, Memory!Spec, Spec
=============================================================================
