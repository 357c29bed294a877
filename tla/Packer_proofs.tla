---------------------------- MODULE Packer_proofs ---------------------------
(***************************************************************************)
(* The packer, and the buffer that most packers write to.                     *)
(*                                                                           *)
(* Sbuffer: it never writes outside its block and never hands out a byte      *)
(* nobody wrote, for every size_t, every initial size and every sequence of   *)
(* writes.  Its inductive invariant says what the doubling loop is for: when  *)
(* it ends, nsize holds what the write needs.                                 *)
(*                                                                           *)
(* Packer: what a number, a size or a time is packed to says that number,     *)
(* size or time, a number in the fewest bytes (NumbersExact), for every one   *)
(* that C's types have.  Numbers are sequences of bytes, and the claims about *)
(* 64-bit ones are claims about which of their bytes are 0 or 255.            *)
(*                                                                           *)
(* What a packer has put out is what its calls meant, an object not yet all   *)
(* out is none (StreamWhole), for every object that C's types hold and that a *)
(* reader can nest.  The reader is recursive and so is the packer; what both  *)
(* say is taken from what an object's bytes are wherever they stand (Code).   *)
(***************************************************************************)
EXTENDS PackedStream, Sbuffer, SequenceTheorems, WellFoundedInduction, TLAPS
-----------------------------------------------------------------------------
(* Sbuffer *)

\* What the write in progress has established when it reaches each place.
Progress ==
    /\ size <= alloc
    /\ pc \notin {"idle", "gone"} => size + Len(buf) \in Size
    /\ pc = "realloc" => size + Len(buf) <= nsize
    /\ CopyFits

Inv == TypeOK /\ Progress /\ NoGarbage

\* The value of a sum that fits in a size_t is not changed by the conversion.
LEMMA WrapSmall == \A n \in Size : Wrap(n) = n
BY SbufferConstants DEF Size, Wrap

LEMMA WrapInSize == \A n \in Int : Wrap(n) \in Size
BY SbufferConstants DEF Size, Wrap

\* Every argument of write, and the empty one between calls, is a sequence of
\* bytes, so it has a length and an element at each position.
LEMMA BufSeq == ASSUME TypeOK PROVE buf \in Seq(Char) /\ Len(buf) \in Nat
<1>1. << >> \in Seq(Char)
    OBVIOUS
<1>2. buf \in Seq(Char)
    BY <1>1, SbufferConstants DEF TypeOK
<1> QED
    BY <1>2

LEMMA InitInv == Init => Inv
BY SbufferConstants DEF Init, Inv, TypeOK, Progress, CopyFits, NoGarbage, Size

LEMMA StepInv == Inv /\ [Next]_vars => Inv'
<1> SUFFICES ASSUME Inv, [Next]_vars PROVE Inv'
    OBVIOUS
<1> USE SbufferConstants
<1> TypeOK /\ Progress /\ NoGarbage /\ CopyFits
    BY DEF Inv, Progress
<1>len. buf \in Seq(Char) /\ Len(buf) \in Nat
    BY BufSeq
<1>1. ASSUME NEW b \in Chunk, Write(b) PROVE Inv'
    <2>1. b \in Seq(Char) /\ Len(b) \in Nat
        OBVIOUS
    <2>2. Wrap(alloc - size) = alloc - size
        BY WrapSmall DEF TypeOK, Progress, Size
    <2>3. Wrap(alloc * 2) \in Size
        <3>1. alloc * 2 \in Int
            BY DEF TypeOK, Size
        <3> QED
            BY <3>1, WrapInSize
    <2> QED
        BY <1>1, <2>1, <2>2, <2>3, SMTT(30)
        DEF Write, Inv, TypeOK, Progress, CopyFits, NoGarbage, Size
<1>2. CASE Grow
    <2>1. pc = "grow" /\ UNCHANGED <<size, alloc, data, buf>>
        BY <1>2 DEF Grow
    <2>2. needed = size + Len(buf) /\ needed \in Size
        BY <2>1, WrapSmall DEF needed, Progress
    <2>3. Wrap(nsize * 2) \in Size
        <3>1. nsize * 2 \in Int
            BY DEF TypeOK, Size
        <3> QED
            BY <3>1, WrapInSize
    <2> QED
        BY <1>2, <1>len, <2>1, <2>2, <2>3
        DEF Grow, Inv, TypeOK, Progress, CopyFits, NoGarbage, Size
<1>3. CASE Realloc
    BY <1>3, <1>len DEF Realloc, Inv, TypeOK, Progress, CopyFits, NoGarbage, Size
<1>4. CASE ReallocFails
    BY <1>4 DEF ReallocFails, Inv, TypeOK, Progress, CopyFits, NoGarbage, Size
<1>5. CASE Copy
    <2>1. \A i \in 1 .. Len(buf) : buf[i] \in Char
        BY <1>len
    <2>2. size + Len(buf) \in Size /\ size + Len(buf) <= alloc
        BY <1>5 DEF Copy, Progress, CopyFits
    <2>3. data' \in [1 .. alloc -> Char \cup {Garbage}]
        BY <1>5, <1>len, <2>1 DEF Copy, TypeOK, Size
    <2>4. NoGarbage'
        BY <1>5, <1>len, <2>1, <2>2 DEF Copy, TypeOK, NoGarbage, Size
    <2> QED
        BY <1>5, <1>len, <2>2, <2>3, <2>4
        DEF Copy, Inv, TypeOK, Progress, CopyFits, Size
<1>6. CASE Clear
    BY <1>6, <1>len DEF Clear, Inv, TypeOK, Progress, CopyFits, NoGarbage, Size
<1>7. CASE Release
    BY <1>7, <1>len DEF Release, Inv, TypeOK, Progress, CopyFits, NoGarbage, Size
<1>8. CASE Destroy
    BY <1>8, <1>len DEF Destroy, Inv, TypeOK, Progress, CopyFits, NoGarbage, Size
<1>9. CASE UNCHANGED vars
    BY <1>9 DEF vars, Inv, TypeOK, Progress, CopyFits, NoGarbage
<1> QED
    BY <1>1, <1>2, <1>3, <1>4, <1>5, <1>6, <1>7, <1>8, <1>9 DEF Next

LEMMA Invariance == Spec => []Inv
BY InitInv, StepInv, PTL DEF Spec

\* Types of the buffer's fields and of the write in progress.
THEOREM SbufferTypeOK == Spec => []TypeOK
BY Invariance, PTL DEF Inv

\* The memcpy of msgpack_sbuffer_write stays inside the block.
THEOREM SbufferCopyFits == Spec => []CopyFits
BY Invariance, PTL DEF Inv, Progress

\* Every byte below size was written by a caller.
THEOREM SbufferNoGarbage == Spec => []NoGarbage
BY Invariance, PTL DEF Inv

\* Both together, for every sequence of calls.
THEOREM SbufferCopyExact == Spec => []CopyExact
BY SbufferCopyFits, SbufferNoGarbage, PTL DEF CopyExact
-----------------------------------------------------------------------------
(* The refinement: a write adds all its bytes at its last step or none, and the *)
(* block that is enlarged in between shows the same bytes.                     *)

\* The first n elements of a sequence that is a function, one by one.
LEMMA Prefix ==
    ASSUME NEW S, NEW m \in Nat, NEW n \in 0 .. m, NEW d \in [1 .. m -> S]
    PROVE  SubSeq(d, 1, n) = [i \in 1 .. n |-> d[i]]
<1>1. d \in Seq(S) /\ Len(d) = m
    OBVIOUS
<1> QED
    BY <1>1

\* What the sink holds before and after a step.
LEMMA ContentIs ==
    ASSUME Inv, Inv'
    PROVE  /\ Content = [i \in 1 .. size |-> data[i]]
           /\ Content' = [i \in 1 .. size' |-> data'[i]]
           /\ size \in Nat /\ size' \in Nat
<1>1. /\ alloc \in Nat /\ size \in 0 .. alloc
      /\ data \in [1 .. alloc -> Char \cup {Garbage}]
    BY SbufferConstants DEF Inv, TypeOK, Progress, Size
<1>2. /\ alloc' \in Nat /\ size' \in 0 .. alloc'
      /\ data' \in [1 .. alloc' -> Char \cup {Garbage}]
    BY SbufferConstants DEF Inv, TypeOK, Progress, Size
<1>3. Content = [i \in 1 .. size |-> data[i]]
    BY <1>1, Prefix DEF Content
<1>4. Content' = [i \in 1 .. size' |-> data'[i]]
    BY <1>2, Prefix DEF Content
<1> QED
    BY <1>1, <1>2, <1>3, <1>4

LEMMA SbufferInitImplements == Init => Sink!Init
BY DEF Init, Sink!Init, Content

LEMMA SbufferStepImplements == Inv /\ Inv' /\ [Next]_vars => [Sink!Next]_Content
<1> SUFFICES ASSUME Inv, Inv', [Next]_vars PROVE Sink!Next \/ Content' = Content
    BY DEF Sink!Next
<1>len. buf \in Seq(Char) /\ Len(buf) \in Nat
    BY BufSeq DEF Inv
<1>now. /\ Content = [i \in 1 .. size |-> data[i]]
        /\ Content' = [i \in 1 .. size' |-> data'[i]]
        /\ size \in Nat /\ size' \in Nat
    BY ContentIs
<1>same. ASSUME size' = size, \A i \in 1 .. size : data'[i] = data[i]
         PROVE  Content' = Content
    BY <1>now, <1>same
<1>1. ASSUME NEW b \in Chunk, Write(b) PROVE Content' = Content
    BY <1>1 DEF Write, Content
<1>2. CASE Grow
    BY <1>2 DEF Grow, Content
<1>3. CASE Realloc
    <2>1. size <= alloc /\ size <= nsize
        BY <1>3, <1>len, SbufferConstants DEF Realloc, Inv, TypeOK, Progress, Size
    <2>2. size' = size
        BY <1>3 DEF Realloc
    <2>3. \A i \in 1 .. size : data'[i] = data[i]
        BY <1>3, <2>1, SbufferConstants DEF Realloc, Inv, TypeOK, Size
    <2> QED
        BY <1>same, <2>2, <2>3
<1>4. CASE ReallocFails
    BY <1>4 DEF ReallocFails, Content
<1>5. CASE Copy
    <2>1. size' = size + Len(buf) /\ size + Len(buf) <= alloc
        BY <1>5 DEF Copy, Inv, Progress, CopyFits
    <2>2. \A i \in 1 .. size + Len(buf) :
             data'[i] = IF i <= size THEN data[i] ELSE buf[i - size]
        BY <1>5, <1>now, <1>len, <2>1, SbufferConstants DEF Copy, Inv, TypeOK, Size
    <2>3. Content \in Seq(Char) /\ Len(Content) = size
        <3>1. \A i \in 1 .. size : data[i] \in Char
            BY DEF Inv, NoGarbage
        <3> QED
            BY <1>now, <3>1
    <2>4. \A i \in 1 .. size : Content[i] = data[i]
        BY <1>now
    <2>5. Content' = Content \o buf
        <3>1. Content \o buf = [i \in 1 .. size + Len(buf) |->
                                   IF i <= size THEN Content[i] ELSE buf[i - size]]
            BY <1>len, <1>now, <2>3
        <3> QED
            BY <1>now, <1>len, <2>1, <2>2, <2>4, <3>1
    <2>6. CASE buf \in Chunk
        BY <2>5, <2>6 DEF Sink!Next, Sink!Accept
    <2>7. CASE buf = << >>
        BY <2>3, <2>5, <2>7
    <2> QED
        BY <2>6, <2>7 DEF Inv, TypeOK
<1>6. CASE Clear
    <2>1. Content' = << >>
        BY <1>6, <1>now DEF Clear
    <2> QED
        BY <2>1 DEF Sink!Next, Sink!Empty
<1>7. CASE Release
    <2>1. Content' = << >>
        BY <1>7, <1>now DEF Release
    <2> QED
        BY <2>1 DEF Sink!Next, Sink!Empty
<1>8. CASE Destroy
    <2>1. Content' = << >>
        BY <1>8, <1>now DEF Destroy
    <2> QED
        BY <2>1 DEF Sink!Next, Sink!Empty
<1>9. CASE UNCHANGED vars
    BY <1>9 DEF vars, Content
<1> QED
    BY <1>1, <1>2, <1>3, <1>4, <1>5, <1>6, <1>7, <1>8, <1>9 DEF Next

\* Sbuffer implements ByteSink: whole writes, in order, whatever realloc does.
THEOREM SbufferRefinesByteSink == Spec => RefinesByteSink
BY SbufferInitImplements, SbufferStepImplements, Invariance, PTL
   DEF RefinesByteSink, Sink!Spec, Spec

-----------------------------------------------------------------------------
(* Induction over the numbers, for a set and not for a predicate, and what a list of *)
(* sequences spells, which needs it                                                 *)

LEMMA HasLeast == ASSUME NEW T, T \subseteq Nat, T # {} PROVE \E n \in T : \A m \in T : n <= m
<1>1. PICK x \in T : \A y \in T : ~ (<<y, x>> \in OpToRel(<, Nat))
    BY NatLessThanWellFounded, WFMin
<1>2. \A y \in T : y \in Nat /\ x \in Nat /\ ~(y < x)
    BY <1>1 DEF OpToRel
<1>3. ASSUME NEW m \in T PROVE x <= m
    BY <1>2, <1>3
<1> QED
    BY <1>3

LEMMA Induction ==
    ASSUME NEW S, 0 \in S, \A n \in Nat : n \in S => n + 1 \in S
    PROVE  \A n \in Nat : n \in S
<1> DEFINE T == Nat \ S
<1>1. ASSUME T # {} PROVE FALSE
    <2>1. PICK n \in T : \A m \in T : n <= m
        BY <1>1, HasLeast
    <2>2. n \in Nat /\ n # 0 /\ n - 1 \in Nat /\ n - 1 \notin T /\ (n - 1) + 1 = n
        BY <2>1
    <2> QED
        BY <2>2
<1> QED
    BY <1>1

LEMMA ConcatIs ==
    ASSUME NEW S, NEW s \in Seq(S), NEW t \in Seq(S)
    PROVE  /\ s \o t \in Seq(S) /\ Len(s) \in Nat /\ Len(t) \in Nat
           /\ Len(s \o t) = Len(s) + Len(t) /\ DOMAIN (s \o t) = 1 .. Len(s) + Len(t)
           /\ \A i \in 1 .. Len(s) : (s \o t)[i] = s[i]
           /\ \A i \in Len(s) + 1 .. Len(s) + Len(t) :
                 (s \o t)[i] = t[i - Len(s)] /\ i - Len(s) \in 1 .. Len(t)
OBVIOUS


(* Packer: numbers as bytes. *)

\* Numbers: bytes, as many as a C integer may have.
Number == {d \in Seq(Byte) : Len(d) \in Width}

LEMMA NumberIs ==
    ASSUME NEW d \in Number
    PROVE  /\ Len(d) \in Width /\ Len(d) \in 1 .. 8 /\ 1 \in 1 .. Len(d)
           /\ d \in Seq(Byte)
           /\ \A i \in 1 .. Len(d) : d[i] \in Byte
<1>1. d \in Seq(Byte) /\ Len(d) \in Width
    BY DEF Number
<1>2. Len(d) \in 1 .. 8
    BY <1>1 DEF Width
<1>3. PICK n \in 1 .. 8 : Len(d) = n
    BY <1>2
<1>4. 1 \in 1 .. Len(d)
    BY <1>3
<1> QED
    BY <1>1, <1>2, <1>4, ElementOfSeq

\* The least of some widths.
LEMMA LeastIs ==
    ASSUME NEW S, S \subseteq Width, S # {}
    PROVE  Least(S) \in S /\ \A j \in S : Least(S) <= j
<1>1. \E k \in S : \A j \in S : k <= j
    <2>1. CASE 1 \in S
        BY <2>1 DEF Width
    <2>2. CASE 1 \notin S /\ 2 \in S
        BY <2>2 DEF Width
    <2>3. CASE 1 \notin S /\ 2 \notin S /\ 4 \in S
        BY <2>3 DEF Width
    <2>4. CASE 1 \notin S /\ 2 \notin S /\ 4 \notin S
        <3>1. \A j \in S : j = 8
            BY <2>4 DEF Width
        <3>2. PICK k \in S : TRUE
            OBVIOUS
        <3> QED
            BY <3>1, <3>2
    <2> QED
        BY <2>1, <2>2, <2>3, <2>4
<1> DEFINE P(k) == k \in S /\ \A j \in S : k <= j
<1>2. \E k : P(k)
    BY <1>1
<1>3. P(CHOOSE k : P(k))
    BY <1>2
<1>4. Least(S) = CHOOSE k : P(k)
    BY DEF Least
<1> QED
    BY <1>3, <1>4

\* A width that is the least of two sets is the same one.
LEMMA SameLeast ==
    ASSUME NEW S, NEW T, S \subseteq Width, S # {}, T \subseteq Width, T # {},
           Least(S) \in T, Least(T) \in S
    PROVE  Least(S) = Least(T)
<1>1. Least(S) <= Least(T) /\ Least(T) <= Least(S)
    BY LeastIs
<1>2. Least(S) \in Width /\ Least(T) \in Width
    BY LeastIs
<1>3. \A n \in Width : n \in Int
    BY DEF Width
<1> QED
    BY <1>1, <1>2, <1>3

\* The low bytes of a number.
LEMMA LowIs ==
    ASSUME NEW d \in Seq(Byte), NEW k \in 1 .. Len(d)
    PROVE  /\ Low(d, k) \in Seq(Byte) /\ Len(Low(d, k)) = k
           /\ \A i \in 1 .. k : Low(d, k)[i] = d[Len(d) - k + i]
<1>1. Len(d) \in Nat /\ \A i \in 1 .. Len(d) : d[i] \in Byte
    BY ElementOfSeq
<1>2. \A i \in Len(d) - k + 1 .. Len(d) : d[i] \in Byte
    BY <1>1
<1>3. Low(d, k) \in Seq(Byte) /\ Len(Low(d, k)) = k
    BY <1>1, <1>2, SubSeqProperties DEF Low
<1>4. \A i \in 1 .. k : Low(d, k)[i] = d[Len(d) - k + i]
    BY <1>1, <1>2, SubSeqProperties DEF Low
<1> QED
    BY <1>3, <1>4

\* c is a and then b, from place m on, and has k bytes.
IsJoin(c, a, b, m, k) ==
    /\ c \in Seq(Byte) /\ Len(c) = k
    /\ \A i \in 1 .. k : c[i] = IF i <= m THEN a[i] ELSE b[i - m]

LEMMA JoinIs ==
    ASSUME NEW a \in Seq(Byte), NEW b \in Seq(Byte), NEW m \in Nat, NEW n \in Nat,
           Len(a) = m, Len(b) = n
    PROVE  IsJoin(a \o b, a, b, m, m + n)
<1>1. /\ a \o b \in Seq(Byte) /\ Len(a \o b) = Len(a) + Len(b)
      /\ \A i \in 1 .. Len(a) + Len(b) : (a \o b)[i] =
             IF i <= Len(a) THEN a[i] ELSE b[i - Len(a)]
    BY ConcatProperties
<1> QED
    BY <1>1 DEF IsJoin

\* The same number in nine bytes.
LEMMA ExtendIs ==
    ASSUME NEW d \in Seq(Byte), NEW n \in 1 .. 9, Len(d) = n, NEW f \in Byte
    PROVE  /\ Extend(d, f) \in Seq(Byte) /\ Len(Extend(d, f)) = 9
           /\ \A i \in 1 .. 9 : Extend(d, f)[i] = IF i <= 9 - n THEN f ELSE d[i - (9 - n)]
<1> DEFINE fill == [i \in 1 .. 9 - n |-> f]
<1>1. fill \in Seq(Byte) /\ Len(fill) = 9 - n /\ \A i \in 1 .. 9 - n : fill[i] = f
    <2>1. 9 - n \in Nat
        OBVIOUS
    <2>2. fill \in [1 .. 9 - n -> Byte]
        OBVIOUS
    <2>3. fill \in Seq(Byte)
        BY <2>1, <2>2
    <2> QED
        BY <2>1, <2>3
<1> HIDE DEF fill
<1> DEFINE c == fill \o d
<1>2. /\ c \in Seq(Byte) /\ Len(c) = 9
      /\ \A i \in 1 .. 9 : c[i] = IF i <= 9 - n THEN fill[i] ELSE d[i - (9 - n)]
    <2>1. 9 - n \in Nat /\ (9 - n) + n = 9
        OBVIOUS
    <2>2. IsJoin(c, fill, d, 9 - n, (9 - n) + n)
        BY <1>1, <2>1, JoinIs
    <2> HIDE DEF c
    <2>3. IsJoin(c, fill, d, 9 - n, 9)
        BY <2>1, <2>2
    <2> QED
        BY <2>3 DEF IsJoin
<1>3. Extend(d, f) = c
    BY DEF Extend, fill
<1> HIDE DEF c
<1>4. ASSUME NEW i \in 1 .. 9
      PROVE  c[i] = IF i <= 9 - n THEN f ELSE d[i - (9 - n)]
    <2>1. c[i] = IF i <= 9 - n THEN fill[i] ELSE d[i - (9 - n)]
        BY <1>1, <1>2
    <2>2. i <= 9 - n => i \in 1 .. 9 - n
        OBVIOUS
    <2> QED
        BY <1>1, <2>1, <2>2
<1> QED
    BY <1>2, <1>3, <1>4

\* Nine bytes are equal when each is.
LEMMA NineEqual ==
    ASSUME NEW a \in Seq(Byte), NEW b \in Seq(Byte), Len(a) = 9, Len(b) = 9,
           \A i \in 1 .. 9 : a[i] = b[i]
    PROVE  a = b
BY SeqEqual

\* A narrower form has the number exactly if what it leaves away is the filling.
LEMMA Narrow ==
    ASSUME NEW d \in Seq(Byte), NEW n \in 1 .. 9, Len(d) = n, NEW k \in 1 .. n, NEW f \in Byte
    PROVE  (Extend(Low(d, k), f) = Extend(d, f)) <=> (\A i \in 1 .. n - k : d[i] = f)
<1>1. /\ Low(d, k) \in Seq(Byte) /\ Len(Low(d, k)) = k
      /\ \A i \in 1 .. k : Low(d, k)[i] = d[n - k + i]
    BY LowIs
<1> DEFINE a == Extend(Low(d, k), f)
           b == Extend(d, f)
<1>2. /\ a \in Seq(Byte) /\ Len(a) = 9
      /\ \A i \in 1 .. 9 : a[i] = IF i <= 9 - k THEN f ELSE Low(d, k)[i - (9 - k)]
    <2>1. k \in 1 .. 9
        OBVIOUS
    <2> QED
        BY <1>1, <2>1, ExtendIs, ZenonT(60)
<1>3. /\ b \in Seq(Byte) /\ Len(b) = 9
      /\ \A i \in 1 .. 9 : b[i] = IF i <= 9 - n THEN f ELSE d[i - (9 - n)]
    BY ExtendIs
<1> HIDE DEF a, b
<1>4. \A i \in 10 - k .. 9 : a[i] = b[i]
    <2> TAKE i \in 10 - k .. 9
    <2>1. i \in 1 .. 9 /\ ~(i <= 9 - k) /\ ~(i <= 9 - n) /\ i - (9 - k) \in 1 .. k
        OBVIOUS
    <2>2. a[i] = Low(d, k)[i - (9 - k)]
        BY <1>2, <2>1
    <2>3. Low(d, k)[i - (9 - k)] = d[n - k + (i - (9 - k))]
        BY <1>1, <2>1
    <2>4. n - k + (i - (9 - k)) = i - (9 - n)
        OBVIOUS
    <2> QED
        BY <1>3, <2>1, <2>2, <2>3, <2>4
<1>5. (\A i \in 1 .. n - k : d[i] = f) => a = b
    <2> HAVE \A i \in 1 .. n - k : d[i] = f
    <2>1. ASSUME NEW i \in 1 .. 9 PROVE a[i] = b[i]
        <3>1. CASE i <= 9 - n
            <4>1. i <= 9 - k
                BY <3>1
            <4> QED
                BY <1>2, <1>3, <3>1, <4>1
        <3>2. CASE i > 9 - n /\ i <= 9 - k
            <4>1. i - (9 - n) \in 1 .. n - k
                BY <3>2
            <4> QED
                BY <1>2, <1>3, <3>2, <4>1
        <3>3. CASE i > 9 - k
            BY <1>4, <3>3
        <3> QED
            BY <3>1, <3>2, <3>3
    <2> QED
        BY <1>2, <1>3, <2>1, NineEqual
<1>6. a = b => \A i \in 1 .. n - k : d[i] = f
    <2> HAVE a = b
    <2> TAKE i \in 1 .. n - k
    <2> DEFINE j == i + (9 - n)
    <2>1. j \in 1 .. 9 /\ j <= 9 - k /\ ~(j <= 9 - n) /\ j - (9 - n) = i
        OBVIOUS
    <2>2. a[j] = f /\ b[j] = d[i]
        BY <1>2, <1>3, <2>1
    <2> QED
        BY <2>2
<1> QED
    BY <1>5, <1>6 DEF a, b
-----------------------------------------------------------------------------
(* What a header says. *)

LEMMA LogIs == Log(1) = 0 /\ Log(2) = 1 /\ Log(4) = 2 /\ Log(8) = 3
<1> DEFINE P(k, i) == i \in 0 .. 3 /\ Bit(i) = k
<1>1. /\ \A i : P(1, i) <=> i = 0
      /\ \A i : P(2, i) <=> i = 1
      /\ \A i : P(4, i) <=> i = 2
      /\ \A i : P(8, i) <=> i = 3
    <2>1. Bit(0) = 1 /\ Bit(1) = 2 /\ Bit(2) = 4 /\ Bit(3) = 8
        BY DEF Bit
    <2>2. \A i : i \in 0 .. 3 <=> i = 0 \/ i = 1 \/ i = 2 \/ i = 3
        OBVIOUS
    <2> QED
        BY <2>1, <2>2
<1>2. \A k : Log(k) = CHOOSE i : P(k, i)
    BY DEF Log
<1> HIDE DEF P
<1> QED
    BY <1>1, <1>2

LEMMA LogWidth == \A k \in Width : Log(k) \in 0 .. 3
BY LogIs DEF Width

\* A header byte and what is behind it.
LEMMA HeadTail ==
    ASSUME NEW b \in Byte, NEW body \in Seq(Byte), NEW m \in Nat, Len(body) = m
    PROVE  /\ <<b>> \o body \in Seq(Byte)
           /\ Len(<<b>> \o body) = 1 + m
           /\ (<<b>> \o body)[1] = b
           /\ Tail(<<b>> \o body) = body
<1> DEFINE h == <<b>> \o body
<1>1. <<b>> \in Seq(Byte) /\ Len(<<b>>) = 1 /\ <<b>>[1] = b
    OBVIOUS
<1>2. /\ h \in Seq(Byte) /\ Len(h) = 1 + m
      /\ \A i \in 1 .. 1 + m : h[i] = IF i <= 1 THEN b ELSE body[i - 1]
    BY <1>1, ConcatProperties
<1> HIDE DEF h
<1>3. h # << >>
    BY <1>2
<1>4. /\ Tail(h) \in Seq(Byte) /\ Len(Tail(h)) = m
      /\ \A i \in 1 .. m : Tail(h)[i] = h[i + 1]
    BY <1>2, <1>3, HeadTailProperties
<1>5. \A i \in 1 .. m : h[i + 1] = body[i]
    <2> TAKE i \in 1 .. m
    <2>1. i + 1 \in 1 .. 1 + m /\ ~(i + 1 <= 1) /\ (i + 1) - 1 = i
        OBVIOUS
    <2> QED
        BY <1>2, <2>1
<1>6. Tail(h) = body
    BY <1>4, <1>5, SeqEqual
<1>7. h[1] = b
    BY <1>2
<1> QED
    BY <1>2, <1>6, <1>7 DEF h

LEMMA SaysFixnum ==
    ASSUME NEW h, NEW b \in PositiveFixnum \cup NegativeFixnum, h[1] = b
    PROVE  Says(h) = <<"int", Signed(<<b>>)>>
<1>1. /\ b \notin FixMap /\ b \notin FixArray /\ b \notin FixStr /\ b \notin FixExt
      /\ b \notin 196 .. 198 /\ b \notin 199 .. 201 /\ b \notin 204 .. 207
      /\ b \notin 208 .. 211 /\ b \notin 217 .. 219 /\ b \notin 220 .. 221
      /\ b \notin 222 .. 223
    BY DEF PositiveFixnum, NegativeFixnum, FixMap, FixArray, FixStr, FixExt
<1> QED
    BY <1>1 DEF Says

LEMMA SaysFixMap ==
    ASSUME NEW h, NEW b \in FixMap, h[1] = b
    PROVE  Says(h) = <<"map", Unsigned(<<b - 128>>)>>
<1>1. /\ b \notin PositiveFixnum \cup NegativeFixnum /\ b \notin FixArray /\ b \notin FixStr
      /\ b \notin FixExt /\ b \notin 196 .. 198 /\ b \notin 199 .. 201
      /\ b \notin 204 .. 207 /\ b \notin 208 .. 211 /\ b \notin 217 .. 219
      /\ b \notin 220 .. 221 /\ b \notin 222 .. 223
    BY DEF PositiveFixnum, NegativeFixnum, FixMap, FixArray, FixStr, FixExt
<1> QED
    BY <1>1 DEF Says

LEMMA SaysFixArray ==
    ASSUME NEW h, NEW b \in FixArray, h[1] = b
    PROVE  Says(h) = <<"array", Unsigned(<<b - 144>>)>>
<1>1. /\ b \notin PositiveFixnum \cup NegativeFixnum /\ b \notin FixMap /\ b \notin FixStr
      /\ b \notin FixExt /\ b \notin 196 .. 198 /\ b \notin 199 .. 201
      /\ b \notin 204 .. 207 /\ b \notin 208 .. 211 /\ b \notin 217 .. 219
      /\ b \notin 220 .. 221 /\ b \notin 222 .. 223
    BY DEF PositiveFixnum, NegativeFixnum, FixMap, FixArray, FixStr, FixExt
<1> QED
    BY <1>1 DEF Says

LEMMA SaysFixStr ==
    ASSUME NEW h, NEW b \in FixStr, h[1] = b
    PROVE  Says(h) = <<"str", Unsigned(<<b - 160>>)>>
<1>1. /\ b \notin PositiveFixnum \cup NegativeFixnum /\ b \notin FixMap /\ b \notin FixArray
      /\ b \notin FixExt /\ b \notin 196 .. 198 /\ b \notin 199 .. 201
      /\ b \notin 204 .. 207 /\ b \notin 208 .. 211 /\ b \notin 217 .. 219
      /\ b \notin 220 .. 221 /\ b \notin 222 .. 223
    BY DEF PositiveFixnum, NegativeFixnum, FixMap, FixArray, FixStr, FixExt
<1> QED
    BY <1>1 DEF Says

LEMMA SaysFixExt ==
    ASSUME NEW h, NEW b \in FixExt, h[1] = b
    PROVE  Says(h) = <<"ext", Unsigned(<<FixExtTrail(b) - 1>>)>>
<1>1. /\ b \notin PositiveFixnum \cup NegativeFixnum /\ b \notin FixMap /\ b \notin FixArray
      /\ b \notin FixStr /\ b \notin 196 .. 198 /\ b \notin 199 .. 201
      /\ b \notin 204 .. 207 /\ b \notin 208 .. 211 /\ b \notin 217 .. 219
      /\ b \notin 220 .. 221 /\ b \notin 222 .. 223
    BY DEF PositiveFixnum, NegativeFixnum, FixMap, FixArray, FixStr, FixExt
<1> QED
    BY <1>1 DEF Says

LEMMA SaysBin ==
    ASSUME NEW h, NEW b \in 196 .. 198, h[1] = b
    PROVE  Says(h) = <<"bin", Unsigned(Tail(h))>>
<1>1. /\ b \notin PositiveFixnum \cup NegativeFixnum /\ b \notin FixMap /\ b \notin FixArray
      /\ b \notin FixStr /\ b \notin FixExt /\ b \notin 199 .. 201
      /\ b \notin 204 .. 207 /\ b \notin 208 .. 211 /\ b \notin 217 .. 219
      /\ b \notin 220 .. 221 /\ b \notin 222 .. 223
    BY DEF PositiveFixnum, NegativeFixnum, FixMap, FixArray, FixStr, FixExt
<1> QED
    BY <1>1 DEF Says

LEMMA SaysExt ==
    ASSUME NEW h, NEW b \in 199 .. 201, h[1] = b
    PROVE  Says(h) = <<"ext", Unsigned(SubSeq(h, 2, Len(h) - 1))>>
<1>1. /\ b \notin PositiveFixnum \cup NegativeFixnum /\ b \notin FixMap /\ b \notin FixArray
      /\ b \notin FixStr /\ b \notin FixExt /\ b \notin 196 .. 198
      /\ b \notin 204 .. 207 /\ b \notin 208 .. 211 /\ b \notin 217 .. 219
      /\ b \notin 220 .. 221 /\ b \notin 222 .. 223
    BY DEF PositiveFixnum, NegativeFixnum, FixMap, FixArray, FixStr, FixExt
<1> QED
    BY <1>1 DEF Says

LEMMA SaysUint ==
    ASSUME NEW h, NEW b \in 204 .. 207, h[1] = b
    PROVE  Says(h) = <<"int", Unsigned(Tail(h))>>
<1>1. /\ b \notin PositiveFixnum \cup NegativeFixnum /\ b \notin FixMap /\ b \notin FixArray
      /\ b \notin FixStr /\ b \notin FixExt /\ b \notin 196 .. 198
      /\ b \notin 199 .. 201 /\ b \notin 208 .. 211 /\ b \notin 217 .. 219
      /\ b \notin 220 .. 221 /\ b \notin 222 .. 223
    BY DEF PositiveFixnum, NegativeFixnum, FixMap, FixArray, FixStr, FixExt
<1> QED
    BY <1>1 DEF Says

LEMMA SaysInt ==
    ASSUME NEW h, NEW b \in 208 .. 211, h[1] = b
    PROVE  Says(h) = <<"int", Signed(Tail(h))>>
<1>1. /\ b \notin PositiveFixnum \cup NegativeFixnum /\ b \notin FixMap /\ b \notin FixArray
      /\ b \notin FixStr /\ b \notin FixExt /\ b \notin 196 .. 198
      /\ b \notin 199 .. 201 /\ b \notin 204 .. 207 /\ b \notin 217 .. 219
      /\ b \notin 220 .. 221 /\ b \notin 222 .. 223
    BY DEF PositiveFixnum, NegativeFixnum, FixMap, FixArray, FixStr, FixExt
<1> QED
    BY <1>1 DEF Says

LEMMA SaysStr ==
    ASSUME NEW h, NEW b \in 217 .. 219, h[1] = b
    PROVE  Says(h) = <<"str", Unsigned(Tail(h))>>
<1>1. /\ b \notin PositiveFixnum \cup NegativeFixnum /\ b \notin FixMap /\ b \notin FixArray
      /\ b \notin FixStr /\ b \notin FixExt /\ b \notin 196 .. 198
      /\ b \notin 199 .. 201 /\ b \notin 204 .. 207 /\ b \notin 208 .. 211
      /\ b \notin 220 .. 221 /\ b \notin 222 .. 223
    BY DEF PositiveFixnum, NegativeFixnum, FixMap, FixArray, FixStr, FixExt
<1> QED
    BY <1>1 DEF Says

LEMMA SaysArray ==
    ASSUME NEW h, NEW b \in 220 .. 221, h[1] = b
    PROVE  Says(h) = <<"array", Unsigned(Tail(h))>>
<1>1. /\ b \notin PositiveFixnum \cup NegativeFixnum /\ b \notin FixMap /\ b \notin FixArray
      /\ b \notin FixStr /\ b \notin FixExt /\ b \notin 196 .. 198
      /\ b \notin 199 .. 201 /\ b \notin 204 .. 207 /\ b \notin 208 .. 211
      /\ b \notin 217 .. 219 /\ b \notin 222 .. 223
    BY DEF PositiveFixnum, NegativeFixnum, FixMap, FixArray, FixStr, FixExt
<1> QED
    BY <1>1 DEF Says

LEMMA SaysMap ==
    ASSUME NEW h, NEW b \in 222 .. 223, h[1] = b
    PROVE  Says(h) = <<"map", Unsigned(Tail(h))>>
<1>1. /\ b \notin PositiveFixnum \cup NegativeFixnum /\ b \notin FixMap /\ b \notin FixArray
      /\ b \notin FixStr /\ b \notin FixExt /\ b \notin 196 .. 198
      /\ b \notin 199 .. 201 /\ b \notin 204 .. 207 /\ b \notin 208 .. 211
      /\ b \notin 217 .. 219 /\ b \notin 220 .. 221
    BY DEF PositiveFixnum, NegativeFixnum, FixMap, FixArray, FixStr, FixExt
<1> QED
    BY <1>1 DEF Says
-----------------------------------------------------------------------------
(* Integers. *)

\* A sequence of one byte.
LEMMA OneByte ==
    ASSUME NEW s \in Seq(Byte), Len(s) = 1
    PROVE  s = <<s[1]>> /\ s[1] \in Byte
<1>1. s[1] \in Byte
    BY ElementOfSeq
<1>2. <<s[1]>> \in Seq(Byte) /\ Len(<<s[1]>>) = 1 /\ <<s[1]>>[1] = s[1]
    BY <1>1
<1> QED
    BY <1>1, <1>2, SeqEqual

LEMMA LastByte ==
    ASSUME NEW d \in Number
    PROVE  /\ Last(d) \in Byte /\ Low(d, 1) = <<Last(d)>>
           /\ Low(d, 1) \in Seq(Byte) /\ Len(Low(d, 1)) = 1 /\ Low(d, 1)[1] = Last(d)
<1>1. d \in Seq(Byte) /\ Len(d) \in 1 .. 8
    BY NumberIs
<1>2. 1 \in 1 .. Len(d)
    BY NumberIs
<1>3. Low(d, 1) \in Seq(Byte) /\ Len(Low(d, 1)) = 1 /\ Low(d, 1)[1] = d[Len(d) - 1 + 1]
    <2>1. 1 \in 1 .. 1
        OBVIOUS
    <2> QED
        BY <1>1, <1>2, <2>1, LowIs
<1>4. d[Len(d) - 1 + 1] = Last(d)
    BY <1>1 DEF Last
<1> QED
    BY <1>3, <1>4, OneByte

\* The whole of a number needs no byte in front of it.
LEMMA WholeFits ==
    ASSUME NEW d \in Number
    PROVE  Below(d, Len(d)) /\ Low(d, Len(d)) = d
<1>1. d \in Seq(Byte) /\ Len(d) \in 1 .. 8
    BY NumberIs
<1>2. Below(d, Len(d))
    BY <1>1 DEF Below
<1>3. Len(d) - Len(d) + 1 = 1
    BY <1>1
<1>4. Low(d, Len(d)) = d
    BY <1>1, <1>3, SubSeqFull DEF Low
<1> QED
    BY <1>2, <1>4

\* The width that msgpack_pack_real_uint chooses.
UintWidths(d) == {j \in Width : j <= Len(d) /\ Below(d, j)}

LEMMA UintWidth ==
    ASSUME NEW d \in Number
    PROVE  /\ UintWidths(d) # {} /\ UintWidths(d) \subseteq Width
           /\ Least(UintWidths(d)) \in UintWidths(d)
<1>1. Len(d) \in Width /\ Len(d) <= Len(d)
    BY NumberIs DEF Width
<1>2. Len(d) \in UintWidths(d)
    BY <1>1, WholeFits DEF UintWidths
<1>3. UintWidths(d) \subseteq Width
    BY DEF UintWidths
<1> QED
    BY <1>2, <1>3, LeastIs

\* A number that is not negative in fewer bytes is that number.
LEMMA UnsignedLow ==
    ASSUME NEW d \in Number, NEW k \in 1 .. Len(d)
    PROVE  Unsigned(Low(d, k)) = Unsigned(d) <=> Below(d, k)
<1>1. d \in Seq(Byte) /\ Len(d) \in 1 .. 8 /\ Len(d) \in 1 .. 9 /\ 0 \in Byte
    BY NumberIs DEF Byte
<1> QED
    BY <1>1, Narrow DEF Unsigned, Below

LEMMA UintForm ==
    ASSUME NEW d \in Number
    PROVE  \/ Below(d, 1) /\ Last(d) < 128 /\ pack_real_uint(d) = Low(d, 1)
           \/ /\ ~(Below(d, 1) /\ Last(d) < 128)
              /\ pack_real_uint(d) = <<204 + Log(Least(UintWidths(d)))>> \o Low(d, Least(UintWidths(d)))
BY DEF pack_real_uint, UintWidths

\* The header of an unsigned or of a signed number, and the k low bytes behind it.
LEMMA UintHeaded ==
    ASSUME NEW d \in Number, NEW k \in Width, k <= Len(d)
    PROVE  /\ <<204 + Log(k)>> \o Low(d, k) \in Seq(Byte)
           /\ Len(<<204 + Log(k)>> \o Low(d, k)) = 1 + k
           /\ Says(<<204 + Log(k)>> \o Low(d, k)) = <<"int", Unsigned(Low(d, k))>>
<1>1. k \in Nat /\ k \in 1 .. Len(d) /\ d \in Seq(Byte)
    BY NumberIs DEF Width
<1>2. Low(d, k) \in Seq(Byte) /\ Len(Low(d, k)) = k
    BY <1>1, LowIs
<1>3. 204 + Log(k) \in Byte /\ 204 + Log(k) \in 204 .. 207
    BY LogWidth DEF Byte
<1> DEFINE h == <<204 + Log(k)>> \o Low(d, k)
<1>4. h \in Seq(Byte) /\ Len(h) = 1 + k /\ h[1] = 204 + Log(k) /\ Tail(h) = Low(d, k)
    BY <1>1, <1>2, <1>3, HeadTail
<1> HIDE DEF h
<1>5. Says(h) = <<"int", Unsigned(Tail(h))>>
    BY <1>3, <1>4, SaysUint
<1> QED
    BY <1>4, <1>5 DEF h

LEMMA IntHeaded ==
    ASSUME NEW d \in Number, NEW k \in Width, k <= Len(d)
    PROVE  /\ <<208 + Log(k)>> \o Low(d, k) \in Seq(Byte)
           /\ Len(<<208 + Log(k)>> \o Low(d, k)) = 1 + k
           /\ Says(<<208 + Log(k)>> \o Low(d, k)) = <<"int", Signed(Low(d, k))>>
<1>1. k \in Nat /\ k \in 1 .. Len(d) /\ d \in Seq(Byte)
    BY NumberIs DEF Width
<1>2. Low(d, k) \in Seq(Byte) /\ Len(Low(d, k)) = k
    BY <1>1, LowIs
<1>3. 208 + Log(k) \in Byte /\ 208 + Log(k) \in 208 .. 211
    BY LogWidth DEF Byte
<1> DEFINE h == <<208 + Log(k)>> \o Low(d, k)
<1>4. h \in Seq(Byte) /\ Len(h) = 1 + k /\ h[1] = 208 + Log(k) /\ Tail(h) = Low(d, k)
    BY <1>1, <1>2, <1>3, HeadTail
<1> HIDE DEF h
<1>5. Says(h) = <<"int", Signed(Tail(h))>>
    BY <1>3, <1>4, SaysInt
<1> QED
    BY <1>4, <1>5 DEF h

\* A number that is not negative is the same in both readings.
LEMMA SignedIs ==
    ASSUME NEW d
    PROVE  /\ ~Negative(d) => Signed(d) = Unsigned(d)
           /\ Negative(d) => Signed(d) = Extend(d, 255)
BY DEF Signed, Unsigned

LEMMA UintSays ==
    ASSUME NEW d \in Number
    PROVE  /\ pack_real_uint(d) \in Seq(Byte)
           /\ Says(pack_real_uint(d)) = <<"int", Unsigned(d)>>
<1> DEFINE k == Least(UintWidths(d))
<1>0. d \in Seq(Byte) /\ Len(d) \in 1 .. 8
    BY NumberIs
<1>1. CASE Below(d, 1) /\ Last(d) < 128 /\ pack_real_uint(d) = Low(d, 1)
    <2>1. /\ Last(d) \in Byte /\ Low(d, 1) = <<Last(d)>>
          /\ Low(d, 1) \in Seq(Byte) /\ Low(d, 1)[1] = Last(d)
        BY LastByte
    <2>a. PICK b \in Byte : Last(d) = b
        BY <2>1
    <2>b. b < 128
        BY <1>1, <2>a
    <2>2. Last(d) \in PositiveFixnum \cup NegativeFixnum
        BY <2>a, <2>b DEF Byte, PositiveFixnum
    <2>3. Says(Low(d, 1)) = <<"int", Signed(Low(d, 1))>>
        BY <2>1, <2>2, SaysFixnum
    <2>4. ~Negative(Low(d, 1))
        BY <2>1, <2>a, <2>b DEF Negative, Byte
    <2>5. 1 \in 1 .. Len(d)
        BY NumberIs
    <2>6. Unsigned(Low(d, 1)) = Unsigned(d)
        BY <1>1, <2>5, UnsignedLow
    <2> QED
        BY <1>1, <2>1, <2>3, <2>4, <2>6, SignedIs
<1>2. CASE pack_real_uint(d) = <<204 + Log(k)>> \o Low(d, k)
    <2>1. k \in Width /\ k <= Len(d) /\ Below(d, k)
        BY UintWidth DEF UintWidths
    <2> HIDE DEF k
    <2>3. /\ <<204 + Log(k)>> \o Low(d, k) \in Seq(Byte)
          /\ Says(<<204 + Log(k)>> \o Low(d, k)) = <<"int", Unsigned(Low(d, k))>>
        BY <2>1, UintHeaded
    <2>4. k \in 1 .. Len(d)
        BY <1>0, <2>1 DEF Width
    <2> QED
        BY <1>2, <2>1, <2>3, <2>4, UnsignedLow
<1> QED
    BY <1>1, <1>2, UintForm

\* The sign of a number, and of its low bytes.
LEMMA SignByte ==
    ASSUME NEW d \in Number, NEW k \in 1 .. Len(d)
    PROVE  /\ Low(d, k)[1] = d[Len(d) - k + 1] /\ Low(d, k)[1] \in Byte
           /\ Negative(Low(d, k)) <=> d[Len(d) - k + 1] >= 128
<1>1. d \in Seq(Byte) /\ Len(d) \in 1 .. 8
    BY NumberIs
<1>2. PICK n \in 1 .. 8 : Len(d) = n
    BY <1>1
<1>3. 1 \in 1 .. k /\ k \in 1 .. n
    BY <1>2
<1>4. /\ Low(d, k) \in Seq(Byte) /\ Len(Low(d, k)) = k
      /\ Low(d, k)[1] = d[Len(d) - k + 1]
    BY <1>1, <1>3, LowIs
<1>5. Low(d, k)[1] \in Byte
    BY <1>3, <1>4, ElementOfSeq
<1> QED
    BY <1>4, <1>5 DEF Negative

\* The first bytes of a number.
Filled(d, m, f) == \A i \in 1 .. m : d[i] = f

LEMMA BelowFilled ==
    ASSUME NEW d \in Number, NEW k \in 1 .. Len(d)
    PROVE  /\ Below(d, k) <=> Filled(d, Len(d) - k, 0)
           /\ AtLeast(d, k) <=> d[Len(d) - k + 1] >= 128 /\ Filled(d, Len(d) - k, 255)
BY DEF Below, AtLeast, Filled

LEMMA FilledLow ==
    ASSUME NEW d \in Number, NEW k \in 1 .. Len(d), NEW f \in Byte
    PROVE  Extend(Low(d, k), f) = Extend(d, f) <=> \A i \in 1 .. Len(d) - k : d[i] = f
<1>1. d \in Seq(Byte) /\ Len(d) \in 1 .. 8 /\ Len(d) \in 1 .. 9
    BY NumberIs
<1> QED
    BY <1>1, Narrow

\* A negative number in fewer bytes is that number if the sign is still there.
LEMMA SignedLow ==
    ASSUME NEW d \in Number, Negative(d), NEW k \in 1 .. Len(d)
    PROVE  Signed(Low(d, k)) = Signed(d) <=> AtLeast(d, k)
<1>1. d \in Seq(Byte) /\ Len(d) \in 1 .. 8
    BY NumberIs
<1>2. PICK n \in 1 .. 8 : Len(d) = n
    BY <1>1
<1>3. k \in 1 .. n /\ n \in 1 .. 9 /\ k \in 1 .. 9 /\ 0 \in Byte /\ 255 \in Byte /\ 1 \in 1 .. 9
    BY <1>2 DEF Byte
<1>4. Low(d, k) \in Seq(Byte) /\ Len(Low(d, k)) = k
    BY <1>1, LowIs
<1>8. Len(d) \in 1 .. 9 /\ 255 \in Byte
    BY <1>2 DEF Byte
<1>5. Signed(d) = Extend(d, 255)
    BY SignedIs
<1>6. CASE Negative(Low(d, k))
    <2>1. Signed(Low(d, k)) = Extend(Low(d, k), 255)
        BY <1>6, SignedIs
    <2>2. Extend(Low(d, k), 255) = Extend(d, 255) <=> \A i \in 1 .. Len(d) - k : d[i] = 255
        BY <1>8, FilledLow
    <2> QED
        BY <1>5, <1>6, <2>1, <2>2, SignByte DEF AtLeast
<1>7. CASE ~Negative(Low(d, k))
    <2>1. Signed(Low(d, k)) = Extend(Low(d, k), 0)
        BY <1>7 DEF Signed
    <2>2. Extend(Low(d, k), 0)[1] = 0
        <3>1. 1 <= 9 - k
            BY <1>2, <1>3
        <3> QED
            BY <1>3, <1>4, <3>1, ExtendIs, ZenonT(60)
    <2>3. Extend(d, 255)[1] = 255
        <3>1. 1 <= 9 - n
            BY <1>2
        <3>2. \A i \in 1 .. 9 :
                  Extend(d, 255)[i] = IF i <= 9 - Len(d) THEN 255 ELSE d[i - (9 - Len(d))]
            BY <1>1, <1>8, ExtendIs, ZenonT(60)
        <3> QED
            BY <1>2, <1>3, <3>1, <3>2
    <2>4. Signed(Low(d, k)) # Signed(d)
        BY <1>5, <2>1, <2>2, <2>3
    <2> QED
        BY <1>7, <2>4, SignByte DEF AtLeast
<1> QED
    BY <1>6, <1>7

\* The width that msgpack_pack_real_int chooses for a negative number.
IntWidths(d) == {j \in Width : j <= Len(d) /\ AtLeast(d, j)}

LEMMA IntWidth ==
    ASSUME NEW d \in Number, Negative(d)
    PROVE  /\ IntWidths(d) # {} /\ IntWidths(d) \subseteq Width
           /\ Least(IntWidths(d)) \in IntWidths(d)
<1>1. Len(d) \in Width /\ Len(d) <= Len(d) /\ Len(d) \in 1 .. Len(d)
    BY NumberIs DEF Width
<1>2. AtLeast(d, Len(d))
    BY <1>1, WholeFits, SignedLow
<1>3. Len(d) \in IntWidths(d)
    BY <1>1, <1>2 DEF IntWidths
<1>4. IntWidths(d) \subseteq Width
    BY DEF IntWidths
<1> QED
    BY <1>3, <1>4, LeastIs

LEMMA IntForm ==
    ASSUME NEW d \in Number
    PROVE  \/ ~Negative(d) /\ pack_real_int(d) = pack_real_uint(d)
           \/ Negative(d) /\ AtLeast(d, 1) /\ Last(d) >= 224 /\ pack_real_int(d) = Low(d, 1)
           \/ /\ Negative(d) /\ ~(AtLeast(d, 1) /\ Last(d) >= 224)
              /\ pack_real_int(d) = <<208 + Log(Least(IntWidths(d)))>> \o Low(d, Least(IntWidths(d)))
BY DEF pack_real_int, IntWidths

LEMMA IntSays ==
    ASSUME NEW d \in Number
    PROVE  /\ pack_real_int(d) \in Seq(Byte)
           /\ Says(pack_real_int(d)) = <<"int", Signed(d)>>
<1> DEFINE k == Least(IntWidths(d))
<1>0. d \in Seq(Byte) /\ Len(d) \in 1 .. 8 /\ 1 \in 1 .. Len(d)
    BY NumberIs
<1>1. CASE ~Negative(d) /\ pack_real_int(d) = pack_real_uint(d)
    BY <1>1, UintSays, SignedIs
<1>2. CASE Negative(d) /\ AtLeast(d, 1) /\ Last(d) >= 224 /\ pack_real_int(d) = Low(d, 1)
    <2>1. /\ Last(d) \in Byte /\ Low(d, 1) = <<Last(d)>>
          /\ Low(d, 1) \in Seq(Byte) /\ Low(d, 1)[1] = Last(d)
        BY LastByte
    <2>2. PICK b \in Byte : Last(d) = b
        BY <2>1
    <2>3. b >= 224
        BY <1>2, <2>2
    <2>4. Last(d) \in PositiveFixnum \cup NegativeFixnum
        BY <2>2, <2>3 DEF Byte, NegativeFixnum
    <2>5. Says(Low(d, 1)) = <<"int", Signed(Low(d, 1))>>
        BY <2>1, <2>4, SaysFixnum
    <2> QED
        BY <1>0, <1>2, <2>1, <2>5, SignedLow
<1>3. CASE Negative(d) /\ pack_real_int(d) = <<208 + Log(k)>> \o Low(d, k)
    <2>1. k \in Width /\ k <= Len(d) /\ AtLeast(d, k)
        BY <1>3, IntWidth DEF IntWidths
    <2> HIDE DEF k
    <2>2. /\ <<208 + Log(k)>> \o Low(d, k) \in Seq(Byte)
          /\ Says(<<208 + Log(k)>> \o Low(d, k)) = <<"int", Signed(Low(d, k))>>
        BY <2>1, IntHeaded
    <2>3. k \in 1 .. Len(d)
        BY <1>0, <2>1 DEF Width
    <2> QED
        BY <1>3, <2>1, <2>2, <2>3, SignedLow
<1> QED
    BY <1>1, <1>2, <1>3, IntForm

LEMMA FixIntSays ==
    ASSUME NEW d \in Number
    PROVE  /\ pack_fix_uint(d) \in Seq(Byte) /\ Says(pack_fix_uint(d)) = <<"int", Unsigned(d)>>
           /\ pack_fix_int(d) \in Seq(Byte) /\ Says(pack_fix_int(d)) = <<"int", Signed(d)>>
<1> DEFINE k == Len(d)
<1>1. k \in Width /\ k <= Len(d) /\ Low(d, k) = d
    BY NumberIs, WholeFits DEF Width
<1> HIDE DEF k
<1>2. /\ <<204 + Log(k)>> \o Low(d, k) \in Seq(Byte)
      /\ Says(<<204 + Log(k)>> \o Low(d, k)) = <<"int", Unsigned(Low(d, k))>>
    BY <1>1, UintHeaded
<1>3. /\ <<208 + Log(k)>> \o Low(d, k) \in Seq(Byte)
      /\ Says(<<208 + Log(k)>> \o Low(d, k)) = <<"int", Signed(Low(d, k))>>
    BY <1>1, IntHeaded
<1> QED
    BY <1>1, <1>2, <1>3 DEF pack_fix_uint, pack_fix_int, k
-----------------------------------------------------------------------------
(* The shortest form. *)

Nine == {D \in Seq(Byte) : Len(D) = 9}

\* The widths that have the number of nine bytes.
Signeds(D) == {k \in Width : Signed(Low(D, k)) = D}
Unsigneds(D) == {k \in Width : Unsigned(Low(D, k)) = D}
Forms(D) == Signeds(D) \cup Unsigneds(D)

\* Nine bytes have no byte in front of them to fill.
LEMMA ExtendNine ==
    ASSUME NEW D \in Nine, NEW f \in Byte
    PROVE  Extend(D, f) = D
<1>1. D \in Seq(Byte) /\ Len(D) = 9 /\ 9 \in 1 .. 9
    BY DEF Nine
<1> DEFINE e == Extend(D, f)
<1>2. /\ e \in Seq(Byte) /\ Len(e) = 9
      /\ \A i \in 1 .. 9 : e[i] = IF i <= 9 - 9 THEN f ELSE D[i - (9 - 9)]
    BY <1>1, ExtendIs
<1> HIDE DEF e
<1>3. \A i \in 1 .. 9 : e[i] = D[i]
    BY <1>2
<1> QED
    BY <1>1, <1>2, <1>3, NineEqual DEF e

LEMMA NineNarrow ==
    ASSUME NEW D \in Nine, NEW k \in 1 .. 8, NEW f \in Byte
    PROVE  Extend(Low(D, k), f) = D <=> \A i \in 1 .. 9 - k : D[i] = f
<1>1. D \in Seq(Byte) /\ Len(D) = 9 /\ 9 \in 1 .. 9 /\ k \in 1 .. 9
    BY DEF Nine
<1>2. Extend(Low(D, k), f) = Extend(D, f) <=> \A i \in 1 .. 9 - k : D[i] = f
    BY <1>1, Narrow
<1> QED
    BY <1>2, ExtendNine

LEMMA NineSign ==
    ASSUME NEW D \in Nine, NEW k \in 1 .. 8
    PROVE  Negative(Low(D, k)) <=> D[10 - k] >= 128
<1>0. D \in Seq(Byte) /\ Len(D) = 9 /\ k \in 1 .. 9 /\ 1 \in 1 .. k
    BY DEF Nine
<1>1. k \in 1 .. Len(D)
    BY <1>0
<1>2. Low(D, k)[1] = D[Len(D) - k + 1]
    BY <1>0, <1>1, LowIs
<1>3. Len(D) - k + 1 = 10 - k
    BY <1>0
<1> QED
    BY <1>2, <1>3 DEF Negative

\* A width has the number if what it leaves away repeats the sign.
LEMMA FormsIs ==
    ASSUME NEW D \in Nine, NEW k \in Width
    PROVE  /\ D[1] = 0 => (k \in Forms(D) <=> Filled(D, 9 - k, 0))
           /\ D[1] = 255 => (k \in Forms(D) <=> D[10 - k] >= 128 /\ Filled(D, 9 - k, 255))
           /\ D[1] = 0 => (k \in Signeds(D) <=> ~(D[10 - k] >= 128) /\ Filled(D, 9 - k, 0))
           /\ D[1] = 255 => (k \in Signeds(D) <=> D[10 - k] >= 128 /\ Filled(D, 9 - k, 255))
<1>1. k \in 1 .. 8 /\ 1 \in 1 .. 9 - k /\ 0 \in Byte /\ 255 \in Byte
    BY DEF Width, Byte
<1>2. Extend(Low(D, k), 0) = D <=> Filled(D, 9 - k, 0)
    BY <1>1, NineNarrow DEF Filled
<1>3. Extend(Low(D, k), 255) = D <=> Filled(D, 9 - k, 255)
    BY <1>1, NineNarrow DEF Filled
<1>4. Negative(Low(D, k)) <=> D[10 - k] >= 128
    BY <1>1, NineSign
<1>5. k \in Unsigneds(D) <=> Extend(Low(D, k), 0) = D
    BY DEF Unsigneds, Unsigned
<1>6. k \in Signeds(D) <=> IF Negative(Low(D, k)) THEN Extend(Low(D, k), 255) = D
                                                  ELSE Extend(Low(D, k), 0) = D
    BY DEF Signeds, Signed
<1> DEFINE neg == D[10 - k] >= 128
           all0 == Filled(D, 9 - k, 0)
           all255 == Filled(D, 9 - k, 255)
<1>7. (D[1] = 0 => ~all255) /\ (D[1] = 255 => ~all0)
    BY <1>1 DEF Filled
<1>8. k \in Forms(D) <=> k \in Signeds(D) \/ k \in Unsigneds(D)
    BY DEF Forms
<1>9. (k \in Unsigneds(D) <=> all0) /\ (k \in Signeds(D) <=> IF neg THEN all255 ELSE all0)
    BY <1>2, <1>3, <1>4, <1>5, <1>6
<1> HIDE DEF neg, all0, all255
<1>10. /\ D[1] = 0 => (k \in Forms(D) <=> all0) /\ (k \in Signeds(D) <=> ~neg /\ all0)
       /\ D[1] = 255 => (k \in Forms(D) <=> neg /\ all255) /\ (k \in Signeds(D) <=> neg /\ all255)
    BY <1>7, <1>8, <1>9
<1> QED
    BY <1>10 DEF neg, all0, all255

\* The number in nine bytes has the sign and the filling that k of its bytes have.
NineMatch(d, k, f) ==
    /\ Extend(d, f)[10 - k] = d[Len(d) - k + 1]
    /\ Filled(Extend(d, f), 9 - k, f) <=> Filled(d, Len(d) - k, f)

\* A number in nine bytes.
LEMMA NineIs ==
    ASSUME NEW d \in Number, NEW f \in Byte
    PROVE  /\ Extend(d, f) \in Nine /\ Extend(d, f)[1] = f
           /\ Last(Extend(d, f)) = Last(d)
           /\ \A k \in 1 .. Len(d) : NineMatch(d, k, f)
<1>1. d \in Seq(Byte) /\ Len(d) \in 1 .. 8 /\ Len(d) \in 1 .. 9
    BY NumberIs
<1> DEFINE D == Extend(d, f)
<1>2. /\ D \in Seq(Byte) /\ Len(D) = 9
      /\ \A i \in 1 .. 9 : D[i] = IF i <= 9 - Len(d) THEN f ELSE d[i - (9 - Len(d))]
    BY <1>1, ExtendIs
<1>3. PICK n \in 1 .. 8 : Len(d) = n
    BY <1>1
<1> HIDE DEF D
<1>4. D \in Nine
    BY <1>2 DEF Nine
<1>5. \A i \in 1 .. 9 : D[i] = IF i <= 9 - n THEN f ELSE d[i - (9 - n)]
    BY <1>2, <1>3
<1>6. D[1] = f
    <2>1. 1 \in 1 .. 9 /\ 1 <= 9 - n
        OBVIOUS
    <2> QED
        BY <1>5, <2>1
<1>7. Last(D) = Last(d)
    <2>1. 9 \in 1 .. 9 /\ ~(9 <= 9 - n) /\ 9 - (9 - n) = n
        OBVIOUS
    <2> QED
        BY <1>2, <1>3, <1>5, <2>1 DEF Last
<1>8. ASSUME NEW k \in 1 .. n
      PROVE  /\ D[10 - k] = d[n - k + 1]
             /\ Filled(D, 9 - k, f) <=> Filled(d, n - k, f)
    <2>1. D[10 - k] = d[n - k + 1]
        <3>1. 10 - k \in 1 .. 9 /\ ~(10 - k <= 9 - n) /\ (10 - k) - (9 - n) = n - k + 1
            OBVIOUS
        <3> QED
            BY <1>5, <3>1
    <2>2. ASSUME \A i \in 1 .. 9 - k : D[i] = f
          PROVE  \A i \in 1 .. n - k : d[i] = f
        <3> TAKE i \in 1 .. n - k
        <3> DEFINE j == i + (9 - n)
        <3>1. j \in 1 .. 9 - k /\ j \in 1 .. 9 /\ ~(j <= 9 - n) /\ j - (9 - n) = i
            OBVIOUS
        <3> HIDE DEF j
        <3>2. D[j] = f /\ D[j] = d[j - (9 - n)]
            BY <1>5, <2>2, <3>1
        <3> QED
            BY <3>1, <3>2
    <2>3. ASSUME \A i \in 1 .. n - k : d[i] = f
          PROVE  \A i \in 1 .. 9 - k : D[i] = f
        <3> TAKE i \in 1 .. 9 - k
        <3>1. i \in 1 .. 9 /\ (~(i <= 9 - n) => i - (9 - n) \in 1 .. n - k)
            OBVIOUS
        <3> QED
            BY <1>5, <2>3, <3>1
    <2> QED
        BY <2>1, <2>2, <2>3 DEF Filled
<1> QED
    BY <1>3, <1>4, <1>6, <1>7, <1>8 DEF D, NineMatch

LEMMA ShortestIs ==
    ASSUME NEW D
    PROVE  Shortest(D) = IF 1 \in Signeds(D) /\ Last(D) \in PositiveFixnum \cup NegativeFixnum
                         THEN 1 ELSE 1 + Least(Forms(D))
<1>1. 1 \in Signeds(D) <=> Signed(Low(D, 1)) = D
    BY DEF Signeds, Width
<1> QED
    BY <1>1 DEF Shortest, Signeds, Unsigneds, Forms

\* The bytes of an unsigned number, or of one that is not negative.
LEMMA UintShortest ==
    ASSUME NEW d \in Number
    PROVE  Len(pack_real_uint(d)) = Shortest(Unsigned(d))
<1> DEFINE D == Extend(d, 0)
           W == UintWidths(d)
<1>1. Unsigned(d) = D
    BY DEF Unsigned
<1>2. Len(d) \in 1 .. 8 /\ 1 \in 1 .. Len(d) /\ 0 \in Byte
    BY NumberIs DEF Byte
<1>4. /\ D \in Nine /\ D[1] = 0 /\ Last(D) = Last(d)
      /\ \A k \in 1 .. Len(d) : NineMatch(d, k, 0)
    BY <1>2, NineIs
<1>3. PICK n \in 1 .. 8 : Len(d) = n
    BY <1>2
<1> HIDE DEF D
<1>5. ASSUME NEW k \in Width, k <= n
      PROVE  k \in Forms(D) <=> k \in W
    <2>1. k \in 1 .. Len(d) /\ k <= Len(d)
        BY <1>3, <1>5 DEF Width
    <2>2. k \in Forms(D) <=> Filled(D, 9 - k, 0)
        BY <1>4, FormsIs
    <2> QED
        <3>1. Below(d, k) <=> Filled(d, Len(d) - k, 0)
            BY <2>1, BelowFilled
        <3>2. Filled(D, 9 - k, 0) <=> Filled(d, Len(d) - k, 0)
            BY <1>4, <2>1 DEF NineMatch, D
        <3>3. k \in W <=> Below(d, k)
            BY <2>1 DEF UintWidths
        <3> QED
            BY <2>2, <3>1, <3>2, <3>3
<1>6. W # {} /\ W \subseteq Width /\ Least(W) \in W
    BY UintWidth
<1>7. Least(W) \in Forms(D)
    BY <1>3, <1>5, <1>6 DEF UintWidths
<1>8. Forms(D) \subseteq Width
    BY DEF Forms, Signeds, Unsigneds
<1>9. Least(Forms(D)) \in Forms(D) /\ Least(Forms(D)) <= Least(W)
    BY <1>7, <1>8, LeastIs
<1>10. Least(Forms(D)) \in W
    <2>1. Least(Forms(D)) \in Width /\ Least(W) \in Width /\ Least(W) <= n
        BY <1>3, <1>6, <1>8, <1>9 DEF UintWidths
    <2>2. Least(Forms(D)) <= n
        BY <1>9, <2>1 DEF Width
    <2> QED
        BY <1>5, <1>9, <2>1, <2>2
<1>11. Least(Forms(D)) = Least(W)
    BY <1>6, <1>7, <1>8, <1>10, SameLeast
<1>12. 1 \in Signeds(D) /\ Last(D) \in PositiveFixnum \cup NegativeFixnum
       <=> Below(d, 1) /\ Last(d) < 128
    <2>1. 1 \in Signeds(D) <=> ~(D[10 - 1] >= 128) /\ Filled(D, 9 - 1, 0)
        BY <1>4, FormsIs DEF Width
    <2>2. D[10 - 1] = d[Len(d) - 1 + 1] /\ (Filled(D, 9 - 1, 0) <=> Below(d, 1))
        <3>1. Below(d, 1) <=> Filled(d, Len(d) - 1, 0)
            BY <1>2, BelowFilled
        <3>2. D[10 - 1] = d[Len(d) - 1 + 1] /\ (Filled(D, 9 - 1, 0) <=> Filled(d, Len(d) - 1, 0))
            BY <1>2, <1>4 DEF NineMatch, D
        <3> QED
            BY <3>1, <3>2
    <2>3. d[Len(d) - 1 + 1] = Last(d)
        BY <1>3 DEF Last
    <2>4. PICK b \in Byte : Last(d) = b
        BY LastByte
    <2>5. ~(b >= 128) <=> b < 128
        BY DEF Byte
    <2>6. b < 128 => b \in PositiveFixnum
        BY DEF Byte, PositiveFixnum
    <2>7. 1 \in Signeds(D) <=> ~(b >= 128) /\ Below(d, 1)
        BY <2>1, <2>2, <2>3, <2>4
    <2> QED
        BY <1>4, <2>4, <2>5, <2>6, <2>7
<1>13. CASE Below(d, 1) /\ Last(d) < 128 /\ pack_real_uint(d) = Low(d, 1)
    BY <1>1, <1>12, <1>13, LastByte, ShortestIs
<1>14. CASE /\ ~(Below(d, 1) /\ Last(d) < 128)
            /\ pack_real_uint(d) = <<204 + Log(Least(W))>> \o Low(d, Least(W))
    <2>1. Least(W) \in Width /\ Least(W) <= Len(d)
        BY <1>6 DEF UintWidths
    <2>2. Len(pack_real_uint(d)) = 1 + Least(W)
        BY <1>14, <2>1, UintHeaded, ZenonT(60)
    <2>3. Shortest(D) = 1 + Least(Forms(D))
        BY <1>12, <1>14, ShortestIs
    <2> QED
        BY <1>1, <1>11, <2>2, <2>3
<1> QED
    BY <1>13, <1>14, UintForm

\* The bytes of a signed number.
LEMMA IntShortest ==
    ASSUME NEW d \in Number
    PROVE  Len(pack_real_int(d)) = Shortest(Signed(d))
<1>0. CASE ~Negative(d)
    BY <1>0, SignedIs, UintShortest, IntForm
<1>neg. SUFFICES ASSUME Negative(d) PROVE Len(pack_real_int(d)) = Shortest(Signed(d))
    BY <1>0
<1> DEFINE D == Extend(d, 255)
           W == IntWidths(d)
<1>1. Signed(d) = D
    BY <1>neg, SignedIs
<1>2. Len(d) \in 1 .. 8 /\ 1 \in 1 .. Len(d) /\ 255 \in Byte
    BY NumberIs DEF Byte
<1>4. /\ D \in Nine /\ D[1] = 255 /\ Last(D) = Last(d)
      /\ \A k \in 1 .. Len(d) : NineMatch(d, k, 255)
    BY <1>2, NineIs
<1>3. PICK n \in 1 .. 8 : Len(d) = n
    BY <1>2
<1> HIDE DEF D
<1>5. ASSUME NEW k \in Width, k <= n
      PROVE  k \in Forms(D) <=> k \in W
    <2>1. k \in 1 .. Len(d) /\ k <= Len(d)
        BY <1>3, <1>5 DEF Width
    <2>2. k \in Forms(D) <=> D[10 - k] >= 128 /\ Filled(D, 9 - k, 255)
        BY <1>4, FormsIs
    <2> QED
        <3>1. AtLeast(d, k) <=> d[Len(d) - k + 1] >= 128 /\ Filled(d, Len(d) - k, 255)
            BY <2>1, BelowFilled
        <3>2. /\ D[10 - k] = d[Len(d) - k + 1]
              /\ Filled(D, 9 - k, 255) <=> Filled(d, Len(d) - k, 255)
            BY <1>4, <2>1 DEF NineMatch, D
        <3>3. k \in W <=> AtLeast(d, k)
            BY <2>1 DEF IntWidths
        <3> QED
            BY <2>2, <3>1, <3>2, <3>3
<1>6. W # {} /\ W \subseteq Width /\ Least(W) \in W
    BY <1>neg, IntWidth
<1>7. Least(W) \in Forms(D)
    BY <1>3, <1>5, <1>6 DEF IntWidths
<1>8. Forms(D) \subseteq Width
    BY DEF Forms, Signeds, Unsigneds
<1>9. Least(Forms(D)) \in Forms(D) /\ Least(Forms(D)) <= Least(W)
    BY <1>7, <1>8, LeastIs
<1>10. Least(Forms(D)) \in W
    <2>1. Least(Forms(D)) \in Width /\ Least(W) \in Width /\ Least(W) <= n
        BY <1>3, <1>6, <1>8, <1>9 DEF IntWidths
    <2>2. Least(Forms(D)) <= n
        BY <1>9, <2>1 DEF Width
    <2> QED
        BY <1>5, <1>9, <2>1, <2>2
<1>11. Least(Forms(D)) = Least(W)
    BY <1>6, <1>7, <1>8, <1>10, SameLeast
<1>12. 1 \in Signeds(D) /\ Last(D) \in PositiveFixnum \cup NegativeFixnum
       <=> AtLeast(d, 1) /\ Last(d) >= 224
    <2>1. 1 \in Signeds(D) <=> D[10 - 1] >= 128 /\ Filled(D, 9 - 1, 255)
        BY <1>4, FormsIs DEF Width
    <2>2. 1 \in Signeds(D) <=> AtLeast(d, 1)
        <3>1. AtLeast(d, 1) <=> d[Len(d) - 1 + 1] >= 128 /\ Filled(d, Len(d) - 1, 255)
            BY <1>2, BelowFilled
        <3>2. /\ D[10 - 1] = d[Len(d) - 1 + 1]
              /\ Filled(D, 9 - 1, 255) <=> Filled(d, Len(d) - 1, 255)
            BY <1>2, <1>4 DEF NineMatch, D
        <3> QED
            BY <2>1, <3>1, <3>2
    <2>3. AtLeast(d, 1) => Last(d) >= 128
        <3>1. n - 1 + 1 = n
            OBVIOUS
        <3> QED
            BY <1>3, <3>1 DEF AtLeast, Last
    <2>4. PICK b \in Byte : Last(d) = b
        BY LastByte
    <2>5. b >= 128 => (b \in PositiveFixnum \cup NegativeFixnum <=> b >= 224)
        BY DEF Byte, PositiveFixnum, NegativeFixnum
    <2>6. b >= 224 => b >= 128
        BY DEF Byte
    <2> QED
        BY <1>4, <2>2, <2>3, <2>4, <2>5, <2>6
<1>13. CASE AtLeast(d, 1) /\ Last(d) >= 224 /\ pack_real_int(d) = Low(d, 1)
    BY <1>1, <1>12, <1>13, LastByte, ShortestIs
<1>14. CASE /\ ~(AtLeast(d, 1) /\ Last(d) >= 224)
            /\ pack_real_int(d) = <<208 + Log(Least(W))>> \o Low(d, Least(W))
    <2>1. Least(W) \in Width /\ Least(W) <= Len(d)
        BY <1>6 DEF IntWidths
    <2>2. Len(pack_real_int(d)) = 1 + Least(W)
        BY <1>14, <2>1, IntHeaded
    <2>3. Shortest(D) = 1 + Least(Forms(D))
        BY <1>12, <1>14, ShortestIs
    <2> QED
        BY <1>1, <1>11, <2>2, <2>3
<1> QED
    BY <1>neg, <1>13, <1>14, IntForm
-----------------------------------------------------------------------------
(* Sizes. *)

\* A size_t that four bytes hold.
SizeT == {n \in Seq(Byte) : Len(n) = 8 /\ Below(n, 4)}

LEMMA SizeIs ==
    ASSUME NEW n \in SizeT
    PROVE  n \in Number /\ n \in Seq(Byte) /\ Len(n) = 8 /\ Below(n, 4)
BY DEF SizeT, Number, Width

LEMMA LeastWidths == Least({2, 4}) = 2 /\ Least({1, 2, 4}) = 1
<1>1. {2, 4} \subseteq Width /\ {2, 4} # {} /\ {1, 2, 4} \subseteq Width /\ {1, 2, 4} # {}
    BY DEF Width
<1>2. Least({2, 4}) \in {2, 4} /\ Least({2, 4}) <= 2
    BY <1>1, LeastIs
<1>3. Least({1, 2, 4}) \in {1, 2, 4} /\ Least({1, 2, 4}) <= 1
    BY <1>1, LeastIs
<1> QED
    BY <1>2, <1>3

\* The widths of a header go from that of first to four bytes.
Offset(W) == IF W = {2, 4} THEN 1 ELSE 0

\* A header for a size: the size itself, or its k low bytes.
OfSize(n, fix, limit, first, W, h) ==
    \/ Below(n, 1) /\ Last(n) < limit /\ h = <<fix + Last(n)>>
    \/ \E k \in W : Below(n, k) /\ h = <<first + Log(k) - Offset(W)>> \o Low(n, k)

LEMMA SizeForm ==
    ASSUME NEW n \in SizeT, NEW fix, NEW limit, NEW first, NEW W \in {{2, 4}, {1, 2, 4}}
    PROVE  OfSize(n, fix, limit, first, W, SizeHeader(n, fix, limit, first, W))
<1> DEFINE S == {w \in W : w = 4 \/ Below(n, w)}
           k == Least(S)
<1>1. Below(n, 4)
    BY SizeIs
<1>2. S \subseteq Width /\ 4 \in S
    BY DEF Width
<1>3. k \in S
    BY <1>2, LeastIs
<1>4. k \in W /\ Below(n, k)
    BY <1>1, <1>3
<1>5. Log(Least(W)) = Offset(W)
    <2>1. {1, 2, 4} # {2, 4}
        OBVIOUS
    <2> QED
        BY <2>1, LeastWidths, LogIs DEF Offset
<1>6. SizeHeader(n, fix, limit, first, W) =
          IF Below(n, 1) /\ Last(n) < limit THEN <<fix + Last(n)>>
          ELSE <<first + Log(k) - Offset(W)>> \o Low(n, k)
    BY <1>5 DEF SizeHeader
<1> HIDE DEF k
<1> QED
    BY <1>4, <1>6 DEF OfSize

\* The bytes of a size that fits in k of them.
LEMMA SizeLow ==
    ASSUME NEW n \in SizeT, NEW k \in {1, 2, 4}, Below(n, k), NEW c \in Byte
    PROVE  /\ Low(n, k) \in Seq(Byte) /\ Len(Low(n, k)) = k
           /\ Unsigned(Low(n, k)) = Unsigned(n)
           /\ <<c>> \o Low(n, k) \in Seq(Byte) /\ Len(<<c>> \o Low(n, k)) = 1 + k
           /\ (<<c>> \o Low(n, k))[1] = c /\ Tail(<<c>> \o Low(n, k)) = Low(n, k)
<1>1. n \in Number /\ n \in Seq(Byte) /\ Len(n) = 8
    BY SizeIs
<1>2. k \in 1 .. Len(n) /\ k \in Nat
    BY <1>1
<1>3. Low(n, k) \in Seq(Byte) /\ Len(Low(n, k)) = k
    BY <1>1, <1>2, LowIs
<1>4. Unsigned(Low(n, k)) = Unsigned(n)
    BY <1>1, <1>2, UnsignedLow
<1> QED
    BY <1>2, <1>3, <1>4, HeadTail

\* A size in the header itself.
LEMMA SizeFix ==
    ASSUME NEW n \in SizeT, Below(n, 1)
    PROVE  Last(n) \in Byte /\ Unsigned(<<Last(n)>>) = Unsigned(n)
<1>1. n \in Number /\ Low(n, 1) = <<Last(n)>> /\ Last(n) \in Byte
    BY SizeIs, LastByte
<1>2. 1 \in {1, 2, 4} /\ 0 \in Byte
    BY DEF Byte
<1> QED
    BY <1>1, <1>2, SizeLow

LEMMA ArraySays ==
    ASSUME NEW n \in SizeT
    PROVE  pack_array(n) \in Seq(Byte) /\ Says(pack_array(n)) = <<"array", Unsigned(n)>>
<1>1. {2, 4} \in {{2, 4}, {1, 2, 4}} /\ Offset({2, 4}) = 1
    <2>1. {1, 2, 4} # {2, 4}
        OBVIOUS
    <2> QED
        BY <2>1 DEF Offset
<1>2. \/ Below(n, 1) /\ Last(n) < 16 /\ pack_array(n) = <<144 + Last(n)>>
      \/ \E k \in {2, 4} : Below(n, k) /\ pack_array(n) = <<220 + Log(k) - 1>> \o Low(n, k)
    <2>1. OfSize(n, 144, 16, 220, {2, 4}, pack_array(n))
        BY <1>1, SizeForm DEF pack_array
    <2> QED
        BY <1>1, <2>1 DEF OfSize
<1>3. CASE Below(n, 1) /\ Last(n) < 16 /\ pack_array(n) = <<144 + Last(n)>>
    <2>1. PICK b \in Byte : Last(n) = b
        BY <1>3, SizeFix
    <2>2. 144 + b \in FixArray /\ 144 + b \in Byte /\ (144 + b) - 144 = b
        BY <1>3, <2>1 DEF Byte, FixArray
    <2>3. Says(<<144 + b>>) = <<"array", Unsigned(<<(144 + b) - 144>>)>>
        BY <2>2, SaysFixArray
    <2> QED
        BY <1>3, <2>1, <2>2, <2>3, SizeFix
<1>4. CASE \E k \in {2, 4} : Below(n, k) /\ pack_array(n) = <<220 + Log(k) - 1>> \o Low(n, k)
    <2>1. PICK k \in {2, 4} : Below(n, k) /\ pack_array(n) = <<220 + Log(k) - 1>> \o Low(n, k)
        BY <1>4
    <2> DEFINE c == 220 + Log(k) - 1
    <2>2. c \in Byte /\ c \in 220 .. 221 /\ k \in {1, 2, 4}
        BY LogIs DEF Byte
    <2> HIDE DEF c
    <2>3. pack_array(n) = <<c>> \o Low(n, k)
        BY <2>1 DEF c
    <2>4. /\ pack_array(n)[1] = c /\ Tail(pack_array(n)) = Low(n, k)
          /\ Unsigned(Low(n, k)) = Unsigned(n) /\ pack_array(n) \in Seq(Byte)
        BY <2>1, <2>2, <2>3, SizeLow
    <2> QED
        BY <2>2, <2>4, SaysArray
<1> QED
    BY <1>2, <1>3, <1>4

LEMMA MapSays ==
    ASSUME NEW n \in SizeT
    PROVE  pack_map(n) \in Seq(Byte) /\ Says(pack_map(n)) = <<"map", Unsigned(n)>>
<1>1. {2, 4} \in {{2, 4}, {1, 2, 4}} /\ Offset({2, 4}) = 1
    <2>1. {1, 2, 4} # {2, 4}
        OBVIOUS
    <2> QED
        BY <2>1 DEF Offset
<1>2. \/ Below(n, 1) /\ Last(n) < 16 /\ pack_map(n) = <<128 + Last(n)>>
      \/ \E k \in {2, 4} : Below(n, k) /\ pack_map(n) = <<222 + Log(k) - 1>> \o Low(n, k)
    <2>1. OfSize(n, 128, 16, 222, {2, 4}, pack_map(n))
        BY <1>1, SizeForm DEF pack_map
    <2> QED
        BY <1>1, <2>1 DEF OfSize
<1>3. CASE Below(n, 1) /\ Last(n) < 16 /\ pack_map(n) = <<128 + Last(n)>>
    <2>1. PICK b \in Byte : Last(n) = b
        BY <1>3, SizeFix
    <2>2. 128 + b \in FixMap /\ 128 + b \in Byte /\ (128 + b) - 128 = b
        BY <1>3, <2>1 DEF Byte, FixMap
    <2>3. Says(<<128 + b>>) = <<"map", Unsigned(<<(128 + b) - 128>>)>>
        BY <2>2, SaysFixMap
    <2> QED
        BY <1>3, <2>1, <2>2, <2>3, SizeFix
<1>4. CASE \E k \in {2, 4} : Below(n, k) /\ pack_map(n) = <<222 + Log(k) - 1>> \o Low(n, k)
    <2>1. PICK k \in {2, 4} : Below(n, k) /\ pack_map(n) = <<222 + Log(k) - 1>> \o Low(n, k)
        BY <1>4
    <2> DEFINE c == 222 + Log(k) - 1
    <2>2. c \in Byte /\ c \in 222 .. 223 /\ k \in {1, 2, 4}
        BY LogIs DEF Byte
    <2> HIDE DEF c
    <2>3. pack_map(n) = <<c>> \o Low(n, k)
        BY <2>1 DEF c
    <2>4. /\ pack_map(n)[1] = c /\ Tail(pack_map(n)) = Low(n, k)
          /\ Unsigned(Low(n, k)) = Unsigned(n) /\ pack_map(n) \in Seq(Byte)
        BY <2>1, <2>2, <2>3, SizeLow
    <2> QED
        BY <2>2, <2>4, SaysMap
<1> QED
    BY <1>2, <1>3, <1>4

LEMMA StrSays ==
    ASSUME NEW n \in SizeT
    PROVE  pack_str(n) \in Seq(Byte) /\ Says(pack_str(n)) = <<"str", Unsigned(n)>>
<1>1. {1, 2, 4} \in {{2, 4}, {1, 2, 4}} /\ Offset({1, 2, 4}) = 0
    <2>1. {1, 2, 4} # {2, 4}
        OBVIOUS
    <2> QED
        BY <2>1 DEF Offset
<1>2. \/ Below(n, 1) /\ Last(n) < 32 /\ pack_str(n) = <<160 + Last(n)>>
      \/ \E k \in {1, 2, 4} : Below(n, k) /\ pack_str(n) = <<217 + Log(k) - 0>> \o Low(n, k)
    <2>1. OfSize(n, 160, 32, 217, {1, 2, 4}, pack_str(n))
        BY <1>1, SizeForm DEF pack_str
    <2> QED
        BY <1>1, <2>1 DEF OfSize
<1>3. CASE Below(n, 1) /\ Last(n) < 32 /\ pack_str(n) = <<160 + Last(n)>>
    <2>1. PICK b \in Byte : Last(n) = b
        BY <1>3, SizeFix
    <2>2. 160 + b \in FixStr /\ 160 + b \in Byte /\ (160 + b) - 160 = b
        BY <1>3, <2>1 DEF Byte, FixStr
    <2>3. Says(<<160 + b>>) = <<"str", Unsigned(<<(160 + b) - 160>>)>>
        BY <2>2, SaysFixStr
    <2> QED
        BY <1>3, <2>1, <2>2, <2>3, SizeFix
<1>4. CASE \E k \in {1, 2, 4} : Below(n, k) /\ pack_str(n) = <<217 + Log(k) - 0>> \o Low(n, k)
    <2>1. PICK k \in {1, 2, 4} : Below(n, k) /\ pack_str(n) = <<217 + Log(k) - 0>> \o Low(n, k)
        BY <1>4
    <2> DEFINE c == 217 + Log(k) - 0
    <2>2. c \in Byte /\ c \in 217 .. 219 /\ k \in {1, 2, 4}
        BY LogIs DEF Byte
    <2> HIDE DEF c
    <2>3. pack_str(n) = <<c>> \o Low(n, k)
        BY <2>1 DEF c
    <2>4. /\ pack_str(n)[1] = c /\ Tail(pack_str(n)) = Low(n, k)
          /\ Unsigned(Low(n, k)) = Unsigned(n) /\ pack_str(n) \in Seq(Byte)
        BY <2>1, <2>2, <2>3, SizeLow
    <2> QED
        BY <2>2, <2>4, SaysStr
<1> QED
    BY <1>2, <1>3, <1>4

LEMMA V4rawSays ==
    ASSUME NEW n \in SizeT
    PROVE  pack_v4raw(n) \in Seq(Byte) /\ Says(pack_v4raw(n)) = <<"str", Unsigned(n)>>
<1>1. {2, 4} \in {{2, 4}, {1, 2, 4}} /\ Offset({2, 4}) = 1
    <2>1. {1, 2, 4} # {2, 4}
        OBVIOUS
    <2> QED
        BY <2>1 DEF Offset
<1>2. \/ Below(n, 1) /\ Last(n) < 32 /\ pack_v4raw(n) = <<160 + Last(n)>>
      \/ \E k \in {2, 4} : Below(n, k) /\ pack_v4raw(n) = <<218 + Log(k) - 1>> \o Low(n, k)
    <2>1. OfSize(n, 160, 32, 218, {2, 4}, pack_v4raw(n))
        BY <1>1, SizeForm DEF pack_v4raw
    <2> QED
        BY <1>1, <2>1 DEF OfSize
<1>3. CASE Below(n, 1) /\ Last(n) < 32 /\ pack_v4raw(n) = <<160 + Last(n)>>
    <2>1. PICK b \in Byte : Last(n) = b
        BY <1>3, SizeFix
    <2>2. 160 + b \in FixStr /\ 160 + b \in Byte /\ (160 + b) - 160 = b
        BY <1>3, <2>1 DEF Byte, FixStr
    <2>3. Says(<<160 + b>>) = <<"str", Unsigned(<<(160 + b) - 160>>)>>
        BY <2>2, SaysFixStr
    <2> QED
        BY <1>3, <2>1, <2>2, <2>3, SizeFix
<1>4. CASE \E k \in {2, 4} : Below(n, k) /\ pack_v4raw(n) = <<218 + Log(k) - 1>> \o Low(n, k)
    <2>1. PICK k \in {2, 4} : Below(n, k) /\ pack_v4raw(n) = <<218 + Log(k) - 1>> \o Low(n, k)
        BY <1>4
    <2> DEFINE c == 218 + Log(k) - 1
    <2>2. c \in Byte /\ c \in 217 .. 219 /\ k \in {1, 2, 4}
        BY LogIs DEF Byte
    <2> HIDE DEF c
    <2>3. pack_v4raw(n) = <<c>> \o Low(n, k)
        BY <2>1 DEF c
    <2>4. /\ pack_v4raw(n)[1] = c /\ Tail(pack_v4raw(n)) = Low(n, k)
          /\ Unsigned(Low(n, k)) = Unsigned(n) /\ pack_v4raw(n) \in Seq(Byte)
        BY <2>1, <2>2, <2>3, SizeLow
    <2> QED
        BY <2>2, <2>4, SaysStr
<1> QED
    BY <1>2, <1>3, <1>4

LEMMA BinSays ==
    ASSUME NEW n \in SizeT
    PROVE  pack_bin(n) \in Seq(Byte) /\ Says(pack_bin(n)) = <<"bin", Unsigned(n)>>
<1>1. {1, 2, 4} \in {{2, 4}, {1, 2, 4}} /\ Offset({1, 2, 4}) = 0
    <2>1. {1, 2, 4} # {2, 4}
        OBVIOUS
    <2> QED
        BY <2>1 DEF Offset
<1>2. \/ Below(n, 1) /\ Last(n) < 0 /\ pack_bin(n) = <<0 + Last(n)>>
      \/ \E k \in {1, 2, 4} : Below(n, k) /\ pack_bin(n) = <<196 + Log(k) - 0>> \o Low(n, k)
    <2>1. OfSize(n, 0, 0, 196, {1, 2, 4}, pack_bin(n))
        BY <1>1, SizeForm DEF pack_bin
    <2> QED
        BY <1>1, <2>1 DEF OfSize
<1>3. ~(Below(n, 1) /\ Last(n) < 0)
    <2>1. PICK b \in Byte : Last(n) = b
        BY SizeIs, LastByte
    <2> QED
        BY <2>1 DEF Byte
<1>4. CASE \E k \in {1, 2, 4} : Below(n, k) /\ pack_bin(n) = <<196 + Log(k) - 0>> \o Low(n, k)
    <2>1. PICK k \in {1, 2, 4} : Below(n, k) /\ pack_bin(n) = <<196 + Log(k) - 0>> \o Low(n, k)
        BY <1>4
    <2> DEFINE c == 196 + Log(k) - 0
    <2>2. c \in Byte /\ c \in 196 .. 198 /\ k \in {1, 2, 4}
        BY LogIs DEF Byte
    <2> HIDE DEF c
    <2>3. pack_bin(n) = <<c>> \o Low(n, k)
        BY <2>1 DEF c
    <2>4. /\ pack_bin(n)[1] = c /\ Tail(pack_bin(n)) = Low(n, k)
          /\ Unsigned(Low(n, k)) = Unsigned(n) /\ pack_bin(n) \in Seq(Byte)
        BY <2>1, <2>2, <2>3, SizeLow
    <2> QED
        BY <2>2, <2>4, SaysBin
<1> QED
    BY <1>2, <1>3, <1>4

\* A header of one of the five sizes that have a form of their own.
FixExtCode(s) == CHOOSE i \in 0 .. 4 : <<1, 2, 4, 8, 16>>[i + 1] = s

LEMMA FixExtIs ==
    ASSUME NEW s \in FixExtSize
    PROVE  FixExtCode(s) \in 0 .. 4 /\ FixExtTrail(212 + FixExtCode(s)) - 1 = s
<1> DEFINE P(i) == i \in 0 .. 4 /\ <<1, 2, 4, 8, 16>>[i + 1] = s
<1>1. FixExtCode(s) = CHOOSE i : P(i)
    BY DEF FixExtCode
<1>2. \E i : P(i)
    <2>1. s = 1 \/ s = 2 \/ s = 4 \/ s = 8 \/ s = 16
        BY DEF FixExtSize
    <2>2. /\ <<1, 2, 4, 8, 16>>[0 + 1] = 1 /\ <<1, 2, 4, 8, 16>>[1 + 1] = 2
          /\ <<1, 2, 4, 8, 16>>[2 + 1] = 4 /\ <<1, 2, 4, 8, 16>>[3 + 1] = 8
          /\ <<1, 2, 4, 8, 16>>[4 + 1] = 16
        OBVIOUS
    <2>3. 0 \in 0 .. 4 /\ 1 \in 0 .. 4 /\ 2 \in 0 .. 4 /\ 3 \in 0 .. 4 /\ 4 \in 0 .. 4
        OBVIOUS
    <2> QED
        BY <2>1, <2>2, <2>3
<1>3. P(FixExtCode(s))
    BY <1>1, <1>2
<1>4. \A i \in 0 .. 4 : FixExtTrail(212 + i) - 1 = <<1, 2, 4, 8, 16>>[i + 1]
    <2>1. /\ FixExtTrail(212) = 2 /\ FixExtTrail(213) = 3 /\ FixExtTrail(214) = 5
          /\ FixExtTrail(215) = 9 /\ FixExtTrail(216) = 17
        <3>1. 212 % 4 = 0 /\ 213 % 4 = 1 /\ 214 % 4 = 2 /\ 215 % 4 = 3
            OBVIOUS
        <3>2. Bit(0) = 1 /\ Bit(1) = 2 /\ Bit(2) = 4 /\ Bit(3) = 8
            BY DEF Bit
        <3> QED
            BY <3>1, <3>2 DEF FixExtTrail
    <2> TAKE i \in 0 .. 4
    <2>2. i = 0 \/ i = 1 \/ i = 2 \/ i = 3 \/ i = 4
        OBVIOUS
    <2> QED
        BY <2>1, <2>2
<1> QED
    BY <1>3, <1>4

\* A sequence of two bytes.
LEMMA TwoBytes ==
    ASSUME NEW a \in Byte, NEW b \in Byte
    PROVE  <<a, b>> \in Seq(Byte) /\ Len(<<a, b>>) = 2 /\ <<a, b>>[1] = a /\ <<a, b>>[2] = b
OBVIOUS

\* A byte, a body and another byte.
LEMMA Framed ==
    ASSUME NEW c \in Byte, NEW body \in Seq(Byte), NEW m \in Nat, Len(body) = m, NEW t \in Byte
    PROVE  LET h == <<c>> \o body \o <<t>>
           IN  /\ h \in Seq(Byte) /\ Len(h) = m + 2 /\ h[1] = c /\ h[m + 2] = t
               /\ SubSeq(h, 2, Len(h) - 1) = body
<1> DEFINE g == <<c>> \o body
           h == g \o <<t>>
<1>1. /\ g \in Seq(Byte) /\ Len(g) = 1 + m
      /\ \A i \in 1 .. 1 + m : g[i] = IF i <= 1 THEN c ELSE body[i - 1]
    <2>1. <<c>> \in Seq(Byte) /\ Len(<<c>>) = 1 /\ <<c>>[1] = c
        OBVIOUS
    <2> QED
        BY <2>1, ConcatProperties
<1> HIDE DEF g
<1>2. /\ h \in Seq(Byte) /\ Len(h) = 1 + m + 1
      /\ \A i \in 1 .. 1 + m + 1 : h[i] = IF i <= 1 + m THEN g[i] ELSE <<t>>[i - (1 + m)]
    <2>1. <<t>> \in Seq(Byte) /\ Len(<<t>>) = 1
        OBVIOUS
    <2> QED
        BY <1>1, <2>1, ConcatProperties
<1> HIDE DEF h
<1>3. h[1] = c /\ h[m + 2] = t
    <2>1. 1 \in 1 .. 1 + m /\ 1 \in 1 .. 1 + m + 1 /\ 1 <= 1 + m
        OBVIOUS
    <2>2. m + 2 \in 1 .. 1 + m + 1 /\ ~(m + 2 <= 1 + m) /\ (m + 2) - (1 + m) = 1
        OBVIOUS
    <2> QED
        BY <1>1, <1>2, <2>1, <2>2
<1>4. SubSeq(h, 2, 1 + m) = body
    <2>1. 2 \in 1 .. Len(h) + 1 /\ 1 + m \in 2 - 1 .. Len(h)
        BY <1>2
    <2>2. \A i \in 2 .. 1 + m : h[i] \in Byte
        BY <1>2, ElementOfSeq
    <2>3. /\ SubSeq(h, 2, 1 + m) \in Seq(Byte)
          /\ Len(SubSeq(h, 2, 1 + m)) = m
          /\ \A i \in 1 .. m : SubSeq(h, 2, 1 + m)[i] = h[2 + i - 1]
        BY <1>2, <2>1, <2>2, SubSeqProperties
    <2>4. \A i \in 1 .. m : h[2 + i - 1] = body[i]
        <3> TAKE i \in 1 .. m
        <3>1. 2 + i - 1 \in 1 .. 1 + m /\ 2 + i - 1 \in 1 .. 1 + m + 1 /\ 2 + i - 1 <= 1 + m
              /\ ~(2 + i - 1 <= 1) /\ (2 + i - 1) - 1 = i
            OBVIOUS
        <3> QED
            BY <1>1, <1>2, <3>1
    <2> QED
        BY <2>3, <2>4, SeqEqual
<1>5. Len(h) = m + 2 /\ Len(h) - 1 = 1 + m
    BY <1>2
<1> QED
    BY <1>2, <1>3, <1>4, <1>5 DEF g, h

\* The header of an extension: its size and, at its end, its type.
LEMMA ExtSays ==
    ASSUME NEW n \in SizeT, NEW type \in Byte
    PROVE  /\ pack_ext(n, type) \in Seq(Byte) /\ Len(pack_ext(n, type)) \in Nat \ {0}
           /\ Says(pack_ext(n, type)) = <<"ext", Unsigned(n)>>
           /\ Len(pack_ext(n, type)) = ExtHead(pack_ext(n, type)[1])
           /\ pack_ext(n, type)[Len(pack_ext(n, type))] = type
<1> DEFINE h == pack_ext(n, type)
<1>1. CASE Below(n, 1) /\ Last(n) \in FixExtSize
    <2> DEFINE i == FixExtCode(Last(n))
    <2>1. h = <<212 + i, type>>
        BY <1>1 DEF pack_ext, FixExtCode
    <2>2. i \in 0 .. 4 /\ FixExtTrail(212 + i) - 1 = Last(n)
        BY <1>1, FixExtIs
    <2> HIDE DEF h, i
    <2>3. 212 + i \in FixExt /\ 212 + i \in Byte
        BY <2>2 DEF FixExt, Byte
    <2>4. h \in Seq(Byte) /\ Len(h) = 2 /\ h[1] = 212 + i /\ h[2] = type
        BY <2>1, <2>3, TwoBytes
    <2>5. Says(h) = <<"ext", Unsigned(<<Last(n)>>)>>
        BY <2>2, <2>3, <2>4, SaysFixExt
    <2>6. ExtHead(h[1]) = 2
        BY <2>3, <2>4 DEF ExtHead
    <2> QED
        BY <1>1, <2>4, <2>5, <2>6, SizeFix DEF h
<1>2. CASE ~(Below(n, 1) /\ Last(n) \in FixExtSize)
    <2>1. h = SizeHeader(n, 0, 0, 199, {1, 2, 4}) \o <<type>>
        BY <1>2 DEF pack_ext
    <2>2. {1, 2, 4} \in {{2, 4}, {1, 2, 4}} /\ Offset({1, 2, 4}) = 0
        <3>1. {1, 2, 4} # {2, 4}
            OBVIOUS
        <3> QED
            BY <3>1 DEF Offset
    <2>3. OfSize(n, 0, 0, 199, {1, 2, 4}, SizeHeader(n, 0, 0, 199, {1, 2, 4}))
        BY <2>2, SizeForm
    <2>4. ~(Below(n, 1) /\ Last(n) < 0)
        <3>1. PICK b \in Byte : Last(n) = b
            BY SizeIs, LastByte
        <3> QED
            BY <3>1 DEF Byte
    <2>5. PICK k \in {1, 2, 4} :
              Below(n, k) /\ SizeHeader(n, 0, 0, 199, {1, 2, 4}) = <<199 + Log(k) - 0>> \o Low(n, k)
        BY <2>2, <2>3, <2>4 DEF OfSize
    <2> DEFINE c == 199 + Log(k) - 0
    <2>6. c \in Byte /\ c \in 199 .. 201
        BY LogIs DEF Byte
    <2>7. c \notin FixExt /\ FixedTrail(c) = k
        <3>1. Bit(0) = 1 /\ Bit(1) = 2 /\ Bit(2) = 4
            BY DEF Bit
        <3>2. (199 + 1) % 4 = 0 /\ (200 + 1) % 4 = 1 /\ (201 + 1) % 4 = 2
            OBVIOUS
        <3>3. (k = 1 /\ c = 199) \/ (k = 2 /\ c = 200) \/ (k = 4 /\ c = 201)
            BY LogIs
        <3>4. \A b \in 199 .. 201 : FixedTrail(b) = Bit((b + 1) % 4)
            BY DEF FixedTrail
        <3>5. FixedTrail(199) = 1 /\ FixedTrail(200) = 2 /\ FixedTrail(201) = 4
            BY <3>1, <3>2, <3>4
        <3> QED
            BY <3>3, <3>5 DEF FixExt
    <2> HIDE DEF c, h
    <2>8. h = <<c>> \o Low(n, k) \o <<type>>
        BY <2>1, <2>5 DEF c
    <2>9. Low(n, k) \in Seq(Byte) /\ Len(Low(n, k)) = k /\ Unsigned(Low(n, k)) = Unsigned(n)
        BY <2>5, <2>6, SizeLow, ZenonT(60)
    <2>10. /\ h \in Seq(Byte) /\ Len(h) = k + 2 /\ h[1] = c /\ h[k + 2] = type
           /\ SubSeq(h, 2, Len(h) - 1) = Low(n, k)
        BY <2>6, <2>8, <2>9, Framed, SMTT(30)
    <2>11. Says(h) = <<"ext", Unsigned(n)>>
        BY <2>6, <2>9, <2>10, SaysExt
    <2>12. ExtHead(h[1]) = k + 2
        BY <2>7, <2>10 DEF ExtHead
    <2> QED
        BY <2>10, <2>11, <2>12 DEF h
<1> QED
    BY <1>1, <1>2
-----------------------------------------------------------------------------
(* Timestamps. *)

\* The two parts of a concatenation.
LEMMA FrontAndBack ==
    ASSUME NEW a \in Seq(Byte), NEW b \in Seq(Byte), NEW m \in Nat, NEW n \in Nat,
           Len(a) = m, Len(b) = n
    PROVE  /\ IsJoin(a \o b, a, b, m, m + n)
           /\ SubSeq(a \o b, 1, m) = a
           /\ Low(a \o b, n) = b
<1> DEFINE c == a \o b
<1>1. /\ c \in Seq(Byte) /\ Len(c) = m + n
      /\ \A i \in 1 .. m + n : c[i] = IF i <= m THEN a[i] ELSE b[i - m]
    <2>1. IsJoin(c, a, b, m, m + n)
        BY JoinIs
    <2> HIDE DEF c
    <2> QED
        BY <2>1 DEF IsJoin
<1> HIDE DEF c
<1>2. SubSeq(c, 1, m) = a
    <2>1. \A i \in 1 .. m : c[i] \in Byte
        BY <1>1, ElementOfSeq
    <2>2. /\ SubSeq(c, 1, m) \in Seq(Byte)
          /\ Len(SubSeq(c, 1, m)) = IF 1 <= m THEN m - 1 + 1 ELSE 0
          /\ \A i \in 1 .. m - 1 + 1 : SubSeq(c, 1, m)[i] = c[1 + i - 1]
        BY <2>1, SubSeqProperties
    <2>3. Len(SubSeq(c, 1, m)) = m
        BY <2>2
    <2>4. ASSUME NEW i \in 1 .. m PROVE SubSeq(c, 1, m)[i] = a[i]
        <3>1. i \in 1 .. m - 1 + 1 /\ 1 + i - 1 = i /\ i \in 1 .. m + n /\ i <= m
            OBVIOUS
        <3> QED
            BY <1>1, <2>2, <3>1
    <2> QED
        BY <2>2, <2>3, <2>4, SeqEqual
<1>3. SubSeq(c, m + 1, m + n) = b
    <2>1. \A i \in m + 1 .. m + n : c[i] \in Byte
        BY <1>1, ElementOfSeq
    <2>2. /\ SubSeq(c, m + 1, m + n) \in Seq(Byte)
          /\ Len(SubSeq(c, m + 1, m + n)) = IF m + 1 <= m + n THEN m + n - (m + 1) + 1 ELSE 0
          /\ \A i \in 1 .. m + n - (m + 1) + 1 : SubSeq(c, m + 1, m + n)[i] = c[m + 1 + i - 1]
        BY <2>1, SubSeqProperties
    <2>3. Len(SubSeq(c, m + 1, m + n)) = n
        BY <2>2
    <2>4. ASSUME NEW i \in 1 .. n PROVE SubSeq(c, m + 1, m + n)[i] = b[i]
        <3>1. /\ i \in 1 .. m + n - (m + 1) + 1 /\ m + 1 + i - 1 = m + i
              /\ m + i \in 1 .. m + n /\ ~(m + i <= m) /\ (m + i) - m = i
            OBVIOUS
        <3> QED
            BY <1>1, <2>2, <3>1
    <2> QED
        BY <2>2, <2>3, <2>4, SeqEqual
<1>4. Low(c, n) = b
    <2>1. Len(c) - n + 1 = m + 1
        BY <1>1
    <2> QED
        BY <1>1, <1>3, <2>1 DEF Low
<1> QED
    BY <1>1, <1>2, <1>4 DEF c, IsJoin

\* Four bytes and eight.
Four == {s \in Seq(Byte) : Len(s) = 4}
Eight == {s \in Seq(Byte) : Len(s) = 8}

LEMMA FourIs ==
    ASSUME NEW s \in Four
    PROVE  /\ s \in Seq(Byte) /\ Len(s) = 4
           /\ s[1] \in Byte /\ s[2] \in Byte /\ s[3] \in Byte /\ s[4] \in Byte
           /\ s = <<s[1], s[2], s[3], s[4]>>
<1>1. s \in Seq(Byte) /\ Len(s) = 4
    BY DEF Four
<1>2. s[1] \in Byte /\ s[2] \in Byte /\ s[3] \in Byte /\ s[4] \in Byte
    <2>1. 1 \in 1 .. 4 /\ 2 \in 1 .. 4 /\ 3 \in 1 .. 4 /\ 4 \in 1 .. 4
        OBVIOUS
    <2> QED
        BY <1>1, <2>1, ElementOfSeq
<1> DEFINE t == <<s[1], s[2], s[3], s[4]>>
<1>3. /\ t \in Seq(Byte) /\ Len(t) = 4
      /\ t[1] = s[1] /\ t[2] = s[2] /\ t[3] = s[3] /\ t[4] = s[4]
    BY <1>2
<1> HIDE DEF t
<1>4. \A i \in 1 .. 4 : s[i] = t[i]
    <2>1. \A i \in 1 .. 4 : i = 1 \/ i = 2 \/ i = 3 \/ i = 4
        OBVIOUS
    <2> QED
        BY <1>3, <2>1
<1>5. s = t
    BY <1>1, <1>3, <1>4, SeqEqual
<1> QED
    BY <1>1, <1>2, <1>5 DEF t

LEMMA FourMade ==
    ASSUME NEW a \in Byte, NEW b \in Byte, NEW c \in Byte, NEW e \in Byte
    PROVE  /\ <<a, b, c, e>> \in Four
           /\ <<a, b, c, e>>[1] = a /\ <<a, b, c, e>>[2] = b
           /\ <<a, b, c, e>>[3] = c /\ <<a, b, c, e>>[4] = e
BY DEF Four

\* Eight bytes are their upper four and their lower four.
LEMMA Halves ==
    ASSUME NEW s \in Eight
    PROVE  /\ Low(s, 4) \in Four
           /\ s[1] \in Byte /\ s[2] \in Byte /\ s[3] \in Byte /\ s[4] \in Byte
           /\ s = <<s[1], s[2], s[3], s[4]>> \o Low(s, 4)
<1>1. s \in Seq(Byte) /\ Len(s) = 8
    BY DEF Eight
<1>2. /\ Low(s, 4) \in Seq(Byte) /\ Len(Low(s, 4)) = 4
      /\ \A i \in 1 .. 4 : Low(s, 4)[i] = s[8 - 4 + i]
    <2>1. 4 \in 1 .. Len(s)
        BY <1>1
    <2> QED
        BY <1>1, <2>1, LowIs, ZenonT(60)
<1>3. s[1] \in Byte /\ s[2] \in Byte /\ s[3] \in Byte /\ s[4] \in Byte
    <2>1. 1 \in 1 .. 8 /\ 2 \in 1 .. 8 /\ 3 \in 1 .. 8 /\ 4 \in 1 .. 8
        OBVIOUS
    <2> QED
        BY <1>1, <2>1, ElementOfSeq
<1> DEFINE u == <<s[1], s[2], s[3], s[4]>>
<1>4. /\ u \in Seq(Byte) /\ Len(u) = 4
      /\ u[1] = s[1] /\ u[2] = s[2] /\ u[3] = s[3] /\ u[4] = s[4]
    BY <1>3
<1> HIDE DEF u
<1> DEFINE v == Low(s, 4)
<1>5. v \in Seq(Byte) /\ Len(v) = 4
    BY <1>2
<1> HIDE DEF v
<1> DEFINE c == u \o v
<1>6. /\ c \in Seq(Byte) /\ Len(c) = 8
      /\ \A i \in 1 .. 8 : c[i] = IF i <= 4 THEN u[i] ELSE v[i - 4]
    <2>1. IsJoin(c, u, v, 4, 4 + 4)
        BY <1>4, <1>5, JoinIs
    <2> HIDE DEF c
    <2>2. IsJoin(c, u, v, 4, 8)
        BY <2>1
    <2> QED
        BY <2>2 DEF IsJoin
<1> HIDE DEF c
<1>7. ASSUME NEW i \in 1 .. 8 PROVE c[i] = s[i]
    <2>1. CASE i <= 4
        <3>1. i = 1 \/ i = 2 \/ i = 3 \/ i = 4
            BY <2>1
        <3> QED
            BY <1>4, <1>6, <2>1, <3>1
    <2>2. CASE ~(i <= 4)
        <3>1. i - 4 \in 1 .. 4 /\ 8 - 4 + (i - 4) = i
            BY <2>2
        <3>2. v[i - 4] = s[8 - 4 + (i - 4)]
            BY <1>2, <3>1 DEF v
        <3> QED
            BY <1>6, <2>2, <3>1, <3>2
    <2> QED
        BY <2>1, <2>2
<1>8. c = s
    BY <1>1, <1>6, <1>7, SeqEqual
<1> QED
    BY <1>2, <1>3, <1>8 DEF u, v, c, Four

\* Two bits of the byte behind come in, and go out again.
LEMMA Split64 ==
    ASSUME NEW b \in Byte
    PROVE  /\ b \div 64 \in 0 .. 3 /\ b % 64 \in 0 .. 63
           /\ b = (64 * (b \div 64)) + (b % 64)
           /\ b < 64 => b % 64 = b
           /\ b < 4 => b % 4 = b
           /\ b % 4 \in 0 .. 3
<1>1. b \in Int /\ 0 <= b /\ b < 256
    BY DEF Byte
<1>2. b % 64 \in 0 .. 63 /\ b % 4 \in 0 .. 3
    BY <1>1
<1>3. b = (64 * (b \div 64)) + (b % 64)
    BY <1>1
<1>4. b \div 64 \in 0 .. 3
    BY <1>1
<1>5. b < 64 => b % 64 = b
    BY <1>1
<1>6. b < 4 => b % 4 = b
    BY <1>1
<1> QED
    BY <1>2, <1>3, <1>4, <1>5, <1>6

LEMMA Shifted ==
    ASSUME NEW b \in Byte, NEW x \in 0 .. 3
    PROVE  /\ ((b * 4) % 256) + x \in Byte
           /\ (((b * 4) % 256) + x) \div 4 = b % 64
           /\ (((b * 4) % 256) + x) % 4 = x
<1>1. PICK q \in 0 .. 3, r \in 0 .. 63 : b = (64 * q) + r /\ b % 64 = r
    BY Split64
<1>2. b * 4 = 256 * q + 4 * r /\ 4 * r \in 0 .. 255
    BY <1>1
<1>3. (256 * q + 4 * r) % 256 = 4 * r
    BY <1>1, <1>2
<1>4. (b * 4) % 256 = 4 * r
    BY <1>2, <1>3
<1>5. 4 * r + x \in 0 .. 255 /\ (4 * r + x) \div 4 = r /\ (4 * r + x) % 4 = x
    BY <1>1
<1> QED
    BY <1>1, <1>4, <1>5 DEF Byte

LEMMA FourOf ==
    ASSUME NEW f \in [1 .. 4 -> Byte]
    PROVE  f \in Seq(Byte) /\ Len(f) = 4
<1>1. \A n \in Nat : \A g \in [1 .. n -> Byte] : g \in Seq(Byte) /\ Len(g) = n
    <2> TAKE n \in Nat
    <2> TAKE g \in [1 .. n -> Byte]
    <2>1. g \in Seq(Byte)
        OBVIOUS
    <2> QED
        BY <2>1
<1>2. 4 \in Nat
    OBVIOUS
<1> QED
    BY <1>1, <1>2

\* What is shifted up comes back.
LEMMA ShiftBack ==
    ASSUME NEW nsec \in Four, nsec[1] < 64, NEW sec, sec[4] \in Byte
    PROVE  /\ ShiftUp(nsec, sec) \in Four
           /\ ShiftDown(ShiftUp(nsec, sec)) = nsec
           /\ ShiftUp(nsec, sec)[4] % 4 = sec[4] % 4
<1> DEFINE hi == ShiftUp(nsec, sec)
<1>1. /\ nsec[1] \in Byte /\ nsec[2] \in Byte /\ nsec[3] \in Byte /\ nsec[4] \in Byte
      /\ nsec = <<nsec[1], nsec[2], nsec[3], nsec[4]>>
    BY FourIs
<1> DEFINE p == ((nsec[1] * 4) % 256) + (nsec[2] \div 64)
           q == ((nsec[2] * 4) % 256) + (nsec[3] \div 64)
           r == ((nsec[3] * 4) % 256) + (nsec[4] \div 64)
           t == ((nsec[4] * 4) % 256) + (sec[4] % 4)
<1>2. /\ nsec[2] \div 64 \in 0 .. 3 /\ nsec[3] \div 64 \in 0 .. 3
      /\ nsec[4] \div 64 \in 0 .. 3 /\ sec[4] % 4 \in 0 .. 3
      /\ nsec[1] % 64 = nsec[1]
    BY <1>1, Split64
<1>3. p \in Byte /\ p \div 4 = nsec[1] % 64 /\ p % 4 = nsec[2] \div 64
    BY <1>1, <1>2, Shifted
<1>4. q \in Byte /\ q \div 4 = nsec[2] % 64 /\ q % 4 = nsec[3] \div 64
    BY <1>1, <1>2, Shifted
<1>5. r \in Byte /\ r \div 4 = nsec[3] % 64 /\ r % 4 = nsec[4] \div 64
    BY <1>1, <1>2, Shifted
<1>6. t \in Byte /\ t \div 4 = nsec[4] % 64 /\ t % 4 = sec[4] % 4
    BY <1>1, <1>2, Shifted
<1>7. /\ hi = [i \in 1 .. 4 |-> ((nsec[i] * 4) % 256)
                      + (IF i < 4 THEN nsec[i + 1] \div 64 ELSE sec[4] % 4)]
    BY DEF ShiftUp
<1> HIDE DEF hi
<1>8. hi[1] = p /\ hi[2] = q /\ hi[3] = r /\ hi[4] = t
    <2>1. 1 + 1 = 2 /\ 2 + 1 = 3 /\ 3 + 1 = 4
        OBVIOUS
    <2> QED
        BY <1>7, <2>1
<1> HIDE DEF p, q, r, t
<1>9. hi \in Four
    <2>1. \A i \in 1 .. 4 : i = 1 \/ i = 2 \/ i = 3 \/ i = 4
        OBVIOUS
    <2>2. \A i \in 1 .. 4 : hi[i] \in Byte
        BY <1>3, <1>4, <1>5, <1>6, <1>8, <2>1
    <2>3. hi \in [1 .. 4 -> Byte]
        BY <1>7, <2>2
    <2>4. hi \in Seq(Byte) /\ Len(hi) = 4
        BY <2>3, FourOf
    <2> QED
        BY <2>4 DEF Four
<1> DEFINE d == ShiftDown(hi)
<1>10. d = [i \in 1 .. 4 |-> (hi[i] \div 4) + (IF i = 1 THEN 0 ELSE 64 * (hi[i - 1] % 4))]
    BY DEF ShiftDown
<1> HIDE DEF d
<1>11. /\ d[1] = (p \div 4) + 0
       /\ d[2] = (q \div 4) + (64 * (p % 4))
       /\ d[3] = (r \div 4) + (64 * (q % 4))
       /\ d[4] = (t \div 4) + (64 * (r % 4))
    <2>1. 2 - 1 = 1 /\ 3 - 1 = 2 /\ 4 - 1 = 3
        OBVIOUS
    <2> QED
        BY <1>8, <1>10, <2>1
<1>12. /\ d[1] = (nsec[1] % 64) + 0
       /\ d[2] = (nsec[2] % 64) + (64 * (nsec[2] \div 64))
       /\ d[3] = (nsec[3] % 64) + (64 * (nsec[3] \div 64))
       /\ d[4] = (nsec[4] % 64) + (64 * (nsec[4] \div 64))
    BY <1>3, <1>4, <1>5, <1>6, <1>11
<1>13. d[1] = nsec[1] /\ d[2] = nsec[2] /\ d[3] = nsec[3] /\ d[4] = nsec[4]
    <2>1. \A b \in Byte : (b % 64) + (64 * (b \div 64)) = b
        <3> TAKE b \in Byte
        <3>1. b = (64 * (b \div 64)) + (b % 64) /\ b \div 64 \in 0 .. 3 /\ b % 64 \in 0 .. 63
            BY Split64
        <3> QED
            BY <3>1
    <2>2. nsec[1] + 0 = nsec[1]
        BY <1>1 DEF Byte
    <2> QED
        BY <1>1, <1>2, <1>12, <2>1, <2>2
<1>14. d = nsec
    <2>1. \A i \in 1 .. 4 : i = 1 \/ i = 2 \/ i = 3 \/ i = 4
        OBVIOUS
    <2>2. \A i \in 1 .. 4 : d[i] \in Byte /\ d[i] = nsec[i]
        BY <1>1, <1>13, <2>1
    <2>3. d \in [1 .. 4 -> Byte]
        BY <1>10, <2>2
    <2>4. d \in Seq(Byte) /\ Len(d) = 4
        BY <2>3, FourOf
    <2>5. nsec \in Seq(Byte) /\ Len(nsec) = 4
        BY FourIs
    <2> QED
        BY <2>2, <2>4, <2>5, SeqEqual
<1>15. hi[4] % 4 = sec[4] % 4
    BY <1>6, <1>8
<1> QED
    BY <1>9, <1>14, <1>15 DEF hi, d

LEMMA PartsOf ==
    ASSUME NEW a \in Four, NEW b \in Seq(Byte), NEW n \in {4, 8}, Len(b) = n
    PROVE  /\ a \o b \in Seq(Byte) /\ Len(a \o b) = 4 + n
           /\ \A i \in 1 .. 4 : (a \o b)[i] = a[i]
           /\ SubSeq(a \o b, 1, 4) = a
           /\ Low(a \o b, n) = b
<1>1. a \in Seq(Byte) /\ Len(a) = 4 /\ 4 \in Nat /\ n \in Nat
    BY FourIs
<1> DEFINE c == a \o b
<1>2. IsJoin(c, a, b, 4, 4 + n) /\ SubSeq(c, 1, 4) = a /\ Low(c, n) = b
    BY <1>1, FrontAndBack, ZenonT(60)
<1> HIDE DEF c
<1>3. /\ c \in Seq(Byte) /\ Len(c) = 4 + n
      /\ \A i \in 1 .. 4 + n : c[i] = IF i <= 4 THEN a[i] ELSE b[i - 4]
    BY <1>2 DEF IsJoin
<1>4. \A i \in 1 .. 4 : c[i] = a[i]
    <2> TAKE i \in 1 .. 4
    <2>1. i \in 1 .. 4 + n /\ i <= 4
        BY <1>1
    <2> QED
        BY <1>3, <2>1
<1> QED
    BY <1>2, <1>3, <1>4 DEF c

LEMMA ReadTwelve ==
    ASSUME NEW nsec \in Four, NEW sec \in Eight
    PROVE  /\ nsec \o sec \in Seq(Byte) /\ Len(nsec \o sec) = 12
           /\ ToTimestamp(nsec \o sec) = <<sec, nsec>>
<1> DEFINE c == nsec \o sec
<1>1. sec \in Seq(Byte) /\ Len(sec) = 8 /\ 8 \in {4, 8}
    BY DEF Eight
<1>2. /\ c \in Seq(Byte) /\ Len(c) = 4 + 8
      /\ SubSeq(c, 1, 4) = nsec /\ Low(c, 8) = sec
    BY <1>1, PartsOf
<1> HIDE DEF c
<1>3. Len(c) = 12
    BY <1>2
<1>4. ToTimestamp(c) = <<Low(c, 8), SubSeq(c, 1, 4)>>
    BY <1>3 DEF ToTimestamp
<1> QED
    BY <1>2, <1>3, <1>4 DEF c

LEMMA ReadEight ==
    ASSUME NEW hi \in Four, NEW lo \in Four
    PROVE  /\ hi \o lo \in Seq(Byte) /\ Len(hi \o lo) = 8
           /\ ToTimestamp(hi \o lo) = <<<<0, 0, 0, hi[4] % 4>> \o lo, ShiftDown(hi)>>
<1> DEFINE c == hi \o lo
<1>1. lo \in Seq(Byte) /\ Len(lo) = 4 /\ 4 \in {4, 8} /\ 4 \in 1 .. 4
    BY FourIs
<1>2. /\ c \in Seq(Byte) /\ Len(c) = 4 + 4 /\ \A i \in 1 .. 4 : c[i] = hi[i]
      /\ SubSeq(c, 1, 4) = hi /\ Low(c, 4) = lo
    BY <1>1, PartsOf
<1> HIDE DEF c
<1>3. Len(c) = 8 /\ c[4] = hi[4]
    BY <1>1, <1>2
<1>4. ToTimestamp(c) = <<<<0, 0, 0, c[4] % 4>> \o Low(c, 4), ShiftDown(SubSeq(c, 1, 4))>>
    BY <1>3 DEF ToTimestamp
<1> QED
    BY <1>2, <1>3, <1>4 DEF c

LEMMA ReadFour ==
    ASSUME NEW lo \in Four
    PROVE  /\ lo \in Seq(Byte) /\ Len(lo) = 4
           /\ ToTimestamp(lo) = <<ZeroWord \o lo, ZeroWord>>
<1>1. lo \in Seq(Byte) /\ Len(lo) = 4
    BY FourIs
<1>2. ToTimestamp(lo) = <<ZeroWord \o Low(lo, 4), ZeroWord>>
    BY <1>1 DEF ToTimestamp
<1>3. Low(lo, 4) = lo
    <2>1. Len(lo) - 4 + 1 = 1 /\ Len(lo) = 4
        BY <1>1
    <2>2. Low(lo, 4) = SubSeq(lo, 1, Len(lo))
        BY <2>1 DEF Low
    <2> QED
        BY <1>1, <2>2, SubSeqFull
<1> QED
    BY <1>1, <1>2, <1>3

\* Nothing shifted down is nothing.
LEMMA ShiftZero ==
    ASSUME NEW hi, hi[1] = 0, hi[2] = 0, hi[3] = 0, hi[4] = 0
    PROVE  ShiftDown(hi) = ZeroWord
<1> DEFINE d == ShiftDown(hi)
           z == <<0, 0, 0, 0>>
<1>1. d = [i \in 1 .. 4 |-> (hi[i] \div 4) + (IF i = 1 THEN 0 ELSE 64 * (hi[i - 1] % 4))]
    BY DEF ShiftDown
<1>2. z \in Seq(Byte) /\ Len(z) = 4 /\ z[1] = 0 /\ z[2] = 0 /\ z[3] = 0 /\ z[4] = 0
    BY DEF Byte
<1> HIDE DEF d, z
<1>3. d[1] = 0 /\ d[2] = 0 /\ d[3] = 0 /\ d[4] = 0
    <2>1. 2 - 1 = 1 /\ 3 - 1 = 2 /\ 4 - 1 = 3
        OBVIOUS
    <2>2. /\ d[1] = (0 \div 4) + 0 /\ d[2] = (0 \div 4) + (64 * (0 % 4))
          /\ d[3] = (0 \div 4) + (64 * (0 % 4)) /\ d[4] = (0 \div 4) + (64 * (0 % 4))
        BY <1>1, <2>1
    <2>3. 0 \div 4 = 0 /\ 0 % 4 = 0
        OBVIOUS
    <2> QED
        BY <2>2, <2>3
<1>4. \A i \in 1 .. 4 : i = 1 \/ i = 2 \/ i = 3 \/ i = 4
    OBVIOUS
<1>5. \A i \in 1 .. 4 : d[i] = 0
    BY <1>3, <1>4
<1>6. d \in Seq(Byte) /\ Len(d) = 4
    <2>1. d \in [1 .. 4 -> Byte]
        BY <1>1, <1>5 DEF Byte
    <2> QED
        BY <2>1, FourOf, SMTT(30)
<1>7. d = z
    BY <1>2, <1>4, <1>5, <1>6, SeqEqual
<1> QED
    BY <1>7 DEF d, z, ZeroWord

\* What is read back of a timestamp's body is what it was made of.
LEMMA TimestampBack ==
    ASSUME NEW sec \in Eight, NEW nsec \in Four, nsec[1] < 64
    PROVE  /\ TimestampBody(sec, nsec) \in Seq(Byte)
           /\ Len(TimestampBody(sec, nsec)) \in {4, 8, 12}
           /\ ToTimestamp(TimestampBody(sec, nsec)) = <<sec, nsec>>
<1> DEFINE hi == ShiftUp(nsec, sec)
           lo == Low(sec, 4)
<1>1. CASE ~SecondsFit(sec)
    <2>1. TimestampBody(sec, nsec) = nsec \o sec
        BY <1>1 DEF TimestampBody
    <2> QED
        BY <2>1, ReadTwelve
<1>2. CASE SecondsFit(sec)
    <2>1. /\ lo \in Four /\ sec[4] \in Byte
          /\ sec = <<sec[1], sec[2], sec[3], sec[4]>> \o lo
        BY Halves
    <2>2. hi \in Four /\ ShiftDown(hi) = nsec /\ hi[4] % 4 = sec[4] % 4
        BY <2>1, ShiftBack
    <2>3. TimestampBody(sec, nsec) = IF Below(hi \o lo, 4) THEN lo ELSE hi \o lo
        BY <1>2 DEF TimestampBody
    <2> HIDE DEF hi, lo
    <2>4. sec[1] = 0 /\ sec[2] = 0 /\ sec[3] = 0 /\ sec[4] < 4
        <3>1. 1 \in 1 .. 3 /\ 2 \in 1 .. 3 /\ 3 \in 1 .. 3
            OBVIOUS
        <3> QED
            BY <1>2, <3>1 DEF SecondsFit
    <2>5. sec[4] % 4 = sec[4]
        BY <2>1, <2>4, Split64
    <2>6. sec = <<0, 0, 0, sec[4]>> \o lo
        BY <2>1, <2>4
    <2>7. CASE Below(hi \o lo, 4)
        <3>1. /\ Len(hi \o lo) = 4 + 4 /\ \A i \in 1 .. 4 : (hi \o lo)[i] = hi[i]
            <4>1. lo \in Seq(Byte) /\ Len(lo) = 4 /\ 4 \in {4, 8}
                BY <2>1, FourIs
            <4> QED
                BY <2>2, <4>1, PartsOf
        <3>2. \A i \in 1 .. 4 : hi[i] = 0
            <4>1. Len(hi \o lo) - 4 = 4
                BY <3>1
            <4>2. \A i \in 1 .. 4 : (hi \o lo)[i] = 0
                BY <2>7, <4>1 DEF Below
            <4> QED
                BY <3>1, <4>2
        <3>3. hi[1] = 0 /\ hi[2] = 0 /\ hi[3] = 0 /\ hi[4] = 0
            <4>1. 1 \in 1 .. 4 /\ 2 \in 1 .. 4 /\ 3 \in 1 .. 4 /\ 4 \in 1 .. 4
                OBVIOUS
            <4> QED
                BY <3>2, <4>1
        <3>4. nsec = ZeroWord
            BY <2>2, <3>3, ShiftZero
        <3>5. sec[4] = 0
            <4>1. 0 % 4 = 0
                OBVIOUS
            <4> QED
                BY <2>2, <2>5, <3>3, <4>1
        <3>6. TimestampBody(sec, nsec) = lo
            BY <2>3, <2>7
        <3>7. /\ lo \in Seq(Byte) /\ Len(lo) = 4
              /\ ToTimestamp(lo) = <<ZeroWord \o lo, ZeroWord>>
            BY <2>1, ReadFour
        <3>8. sec = ZeroWord \o lo
            BY <2>6, <3>5 DEF ZeroWord
        <3> QED
            BY <3>4, <3>6, <3>7, <3>8
    <2>8. CASE ~Below(hi \o lo, 4)
        <3>1. TimestampBody(sec, nsec) = hi \o lo
            BY <2>3, <2>8
        <3>2. /\ hi \o lo \in Seq(Byte) /\ Len(hi \o lo) = 8
              /\ ToTimestamp(hi \o lo) = <<<<0, 0, 0, hi[4] % 4>> \o lo, ShiftDown(hi)>>
            BY <2>1, <2>2, ReadEight
        <3>3. <<0, 0, 0, hi[4] % 4>> \o lo = sec
            BY <2>2, <2>5, <2>6
        <3> QED
            BY <2>2, <3>1, <3>2, <3>3
    <2> QED
        BY <2>7, <2>8
<1> QED
    BY <1>1, <1>2
-----------------------------------------------------------------------------
(* What one call packs. *)

\* Not recursive: a header, or a timestamp.
Simple(c) == IsHeader(c) \/ c.is = "timestamp"

\* The bytes of a header call's only append.
HeaderOf(c) == Pieces(c)[1].bytes

\* What a call that is not refused puts into the stream.
BodyOf(c) == TimestampBody(c.sec, c.nsec)
TimeHead(c) == pack_ext(Int64(Len(BodyOf(c))), 255)

LEMMA GivenCall ==
    ASSUME PackerConstants, NEW s \in Session, NEW c \in Call[s]
    PROVE  Given(c) /\ c # NoPacking
<1>1. Given(c)
    BY DEF PackerConstants
<1>2. c.is # "none"
    BY <1>1 DEF Given, NumberCall, SizeCall, Bodied
<1> QED
    BY <1>1, <1>2 DEF NoPacking

\* A call for a header appends it at once, and it says what the call was given.
HeaderGood(c, h) ==
    /\ h \in Seq(Byte)
    /\ Says(h) = Meant(c)
    /\ c.is \in {"int", "uint"} => Len(h) = Shortest(Meant(c)[2])

LEMMA HeaderIs ==
    ASSUME NEW c, Given(c), IsHeader(c)
    PROVE  \E h : Pieces(c) = <<append(h)>> /\ HeaderGood(c, h)
<1>1. c.is \in NumberCall \cup SizeCall
    BY DEF Given, IsHeader
<1>2. CASE c.is = "int"
    <2>1. c.d \in Number
        BY <1>2 DEF Given, NumberCall, Number
    <2>2. Pieces(c) = <<append(pack_real_int(c.d))>>
        BY <1>2 DEF Pieces, IntegerPieces
    <2>3. Meant(c) = <<"int", Signed(c.d)>>
        BY <1>2 DEF Meant
    <2> QED
        BY <2>1, <2>2, <2>3, IntSays, IntShortest DEF HeaderGood
<1>3. CASE c.is = "uint"
    <2>1. c.d \in Number
        BY <1>3 DEF Given, NumberCall, Number
    <2>2. Pieces(c) = <<append(pack_real_uint(c.d))>>
        BY <1>3 DEF Pieces, IntegerPieces
    <2>3. Meant(c) = <<"int", Unsigned(c.d)>>
        BY <1>3 DEF Meant
    <2> QED
        BY <2>1, <2>2, <2>3, UintSays, UintShortest DEF HeaderGood
<1>4. CASE c.is = "fix_int"
    <2>1. c.d \in Number
        BY <1>4 DEF Given, NumberCall, Number
    <2>2. Pieces(c) = <<append(pack_fix_int(c.d))>>
        BY <1>4 DEF Pieces
    <2>3. Meant(c) = <<"int", Signed(c.d)>>
        BY <1>4 DEF Meant
    <2>4. c.is \notin {"int", "uint"}
        BY <1>4
    <2> QED
        BY <2>1, <2>2, <2>3, <2>4, FixIntSays DEF HeaderGood
<1>5. CASE c.is = "fix_uint"
    <2>1. c.d \in Number
        BY <1>5 DEF Given, NumberCall, Number
    <2>2. Pieces(c) = <<append(pack_fix_uint(c.d))>>
        BY <1>5 DEF Pieces
    <2>3. Meant(c) = <<"int", Unsigned(c.d)>>
        BY <1>5 DEF Meant
    <2>4. c.is \notin {"int", "uint"}
        BY <1>5
    <2> QED
        BY <2>1, <2>2, <2>3, <2>4, FixIntSays DEF HeaderGood
<1>6. CASE c.is \in SizeCall
    <2>1. c.d \in SizeT /\ c.is \notin {"int", "uint"}
        BY <1>6 DEF Given, SizeCall, SizeT
    <2>2. CASE c.is = "array"
        <3>1. Pieces(c) = <<append(pack_array(c.d))>>
            BY <2>2 DEF Pieces
        <3>2. Meant(c) = <<"array", Unsigned(c.d)>>
            BY <2>2 DEF Meant
        <3> QED
            BY <2>1, <3>1, <3>2, ArraySays DEF HeaderGood
    <2>3. CASE c.is = "map"
        <3>1. Pieces(c) = <<append(pack_map(c.d))>>
            BY <2>3 DEF Pieces
        <3>2. Meant(c) = <<"map", Unsigned(c.d)>>
            BY <2>3 DEF Meant
        <3> QED
            BY <2>1, <3>1, <3>2, MapSays DEF HeaderGood
    <2>4. CASE c.is = "str"
        <3>1. Pieces(c) = <<append(pack_str(c.d))>>
            BY <2>4 DEF Pieces
        <3>2. Meant(c) = <<"str", Unsigned(c.d)>>
            BY <2>4 DEF Meant
        <3> QED
            BY <2>1, <3>1, <3>2, StrSays DEF HeaderGood
    <2>5. CASE c.is = "v4raw"
        <3>1. Pieces(c) = <<append(pack_v4raw(c.d))>>
            BY <2>5 DEF Pieces
        <3>2. Meant(c) = <<"str", Unsigned(c.d)>>
            BY <2>5 DEF Meant
        <3> QED
            BY <2>1, <3>1, <3>2, V4rawSays DEF HeaderGood
    <2>6. CASE c.is = "bin"
        <3>1. Pieces(c) = <<append(pack_bin(c.d))>>
            BY <2>6 DEF Pieces
        <3>2. Meant(c) = <<"bin", Unsigned(c.d)>>
            BY <2>6 DEF Meant
        <3> QED
            BY <2>1, <3>1, <3>2, BinSays DEF HeaderGood
    <2>7. CASE c.is = "ext"
        <3>1. Pieces(c) = <<append(pack_ext(c.d, c.type))>> /\ c.type \in Byte
            BY <2>7 DEF Pieces, Given
        <3>2. Meant(c) = <<"ext", Unsigned(c.d)>>
            BY <2>7 DEF Meant
        <3> QED
            BY <2>1, <3>1, <3>2, ExtSays DEF HeaderGood
    <2> QED
        BY <1>6, <2>2, <2>3, <2>4, <2>5, <2>6, <2>7 DEF SizeCall
<1> QED
    BY <1>1, <1>2, <1>3, <1>4, <1>5, <1>6 DEF NumberCall

\* A small size.
LEMMA SmallSize == \A n \in {4, 8, 12} : Int64(n) \in SizeT
<1> TAKE n \in {4, 8, 12}
<1>1. n >= 0 /\ n \div 256 = 0 /\ 0 \div 256 = 0 /\ 0 % 256 = 0 /\ n % 256 = n
    OBVIOUS
<1>2. Int64(n) = Digits(n)
    BY <1>1 DEF Int64
<1>3. Int64(n) = <<0, 0, 0, 0, 0, 0, 0, n>>
    <2>1. Digits(n) = <<0, 0, 0, 0, 0, 0, 0, n>>
        BY <1>1 DEF Digits
    <2> QED
        BY <1>2, <2>1, Zenon
<1> DEFINE z == <<0, 0, 0, 0, 0, 0, 0, n>>
<1>4. /\ z \in Seq(Byte) /\ Len(z) = 8
      /\ z[1] = 0 /\ z[2] = 0 /\ z[3] = 0 /\ z[4] = 0
    <2>1. 0 \in Byte /\ n \in Byte
        BY DEF Byte
    <2> QED
        BY <2>1
<1> HIDE DEF z
<1>5. Below(z, 4)
    <2>1. \A i \in 1 .. 4 : i = 1 \/ i = 2 \/ i = 3 \/ i = 4
        OBVIOUS
    <2>2. Len(z) - 4 = 4
        BY <1>4
    <2> QED
        BY <1>4, <2>1, <2>2 DEF Below
<1> QED
    BY <1>3, <1>4, <1>5 DEF z, SizeT

\* The two appends of a timestamp, and that they read back.
TimeGood(c, out_) ==
    LET n    == ExtHead(out_[1])
        body == SubSeq(out_, n + 1, Len(out_))
    IN  /\ Says(SubSeq(out_, 1, n)) = <<"ext", Unsigned(Int64(Len(body)))>>
        /\ out_[n] = 255
        /\ ToTimestamp(body) = <<c.sec, c.nsec>>

LEMMA TimeIs ==
    ASSUME NEW c, Given(c), c.is = "timestamp"
    PROVE  /\ Pieces(c) = <<Unchecked(TimeHead(c)), append(BodyOf(c))>>
           /\ TimeHead(c) \in Seq(Byte) /\ TimeHead(c) # << >>
           /\ BodyOf(c) \in Seq(Byte) /\ BodyOf(c) # << >>
           /\ TimeGood(c, TimeHead(c) \o BodyOf(c))
<1> DEFINE h == TimeHead(c)
           b == BodyOf(c)
           n == Len(b)
           m == Len(h)
<1>1. c.sec \in Eight /\ c.nsec \in Four /\ c.nsec[1] < 64
    BY DEF Given, Eight, Four
<1>2. b \in Seq(Byte) /\ n \in {4, 8, 12} /\ ToTimestamp(b) = <<c.sec, c.nsec>>
    BY <1>1, TimestampBack DEF BodyOf
<1>3. Pieces(c) = <<Unchecked(h), append(b)>>
    BY DEF Pieces, TimestampPieces, TimeHead, BodyOf
<1> HIDE DEF b
<1>4. Int64(n) \in SizeT /\ 255 \in Byte
    <2>1. Int64(n) \in SizeT
        BY <1>2, SmallSize
    <2>2. 255 \in Byte
        BY DEF Byte
    <2> QED
        BY <2>1, <2>2
<1>5. /\ h \in Seq(Byte) /\ m \in Nat \ {0} /\ m = ExtHead(h[1]) /\ h[m] = 255
      /\ Says(h) = <<"ext", Unsigned(Int64(n))>>
    BY <1>4, ExtSays DEF TimeHead, b
<1> HIDE DEF h
<1>6. n \in Nat /\ n # 0
    BY <1>2
<1> DEFINE o == h \o b
<1>7. IsJoin(o, h, b, m, m + n) /\ SubSeq(o, 1, m) = h /\ Low(o, n) = b
    BY <1>2, <1>5, <1>6, FrontAndBack
<1> HIDE DEF o
<1>8. o[1] = h[1] /\ o[m] = h[m] /\ Len(o) = m + n
    <2>1. 1 \in 1 .. m + n /\ m \in 1 .. m + n /\ 1 <= m /\ m <= m
        BY <1>5, <1>6
    <2> QED
        BY <1>7, <2>1 DEF IsJoin
<1>9. SubSeq(o, m + 1, Len(o)) = b
    <2>1. Len(o) - n + 1 = m + 1
        BY <1>5, <1>6, <1>8
    <2> QED
        BY <1>7, <2>1 DEF Low
<1>10. TimeGood(c, o)
    BY <1>2, <1>5, <1>7, <1>8, <1>9 DEF TimeGood
<1>11. h # << >> /\ b # << >>
    BY <1>5, <1>6
<1> QED
    BY <1>2, <1>3, <1>5, <1>10, <1>11 DEF h, b, o

LEMMA HeaderMade ==
    ASSUME NEW c, Given(c), IsHeader(c)
    PROVE  /\ Pieces(c) = <<append(HeaderOf(c))>> /\ HeaderGood(c, HeaderOf(c))
           /\ c.is # "timestamp"
<1>1. PICK h : Pieces(c) = <<append(h)>> /\ HeaderGood(c, h)
    BY HeaderIs
<1>2. Pieces(c)[1] = append(h)
    BY <1>1
<1>3. append(h).bytes = h
    BY DEF append
<1>4. c.is # "timestamp"
    BY DEF IsHeader, Bodied
<1> QED
    BY <1>1, <1>2, <1>3, <1>4 DEF HeaderOf
-----------------------------------------------------------------------------
(* Steps of a call. *)

\* Its appends can be told beforehand: it has no object to take apart, and no append that
\* is refused and goes unnoticed.
Certain(c) == IsHeader(c) \/ (c.is = "timestamp" /\ ~MayRefuse[session])

Done(c) == IF IsHeader(c) THEN HeaderOf(c) ELSE TimeHead(c) \o BodyOf(c)

\* Where the first call of a stream is.
UnderWay(c) ==
    \/ agenda = Pieces(c) /\ out = << >> /\ result = 0
    \/ /\ ~IsHeader(c) /\ result = 0
       /\ agenda = <<append(BodyOf(c))>> /\ out = TimeHead(c)
    \/ agenda = << >> /\ (result = 0 => out = Done(c))

PackerInv ==
    /\ session \in Session
    /\ packing \in Call[session] \cup {NoPacking}
    /\ packed \in Seq(Call[session])
    /\ packing = NoPacking => agenda = << >>
    /\ packing = NoPacking /\ result = 0 /\ packed = << >> => out = << >>
    /\ packing # NoPacking /\ packed = << >> /\ Certain(packing) => UnderWay(packing)
    /\ Single /\ Certain(packed[1]) => out = Done(packed[1])

LEMMA CertainPieces ==
    ASSUME NEW c, Given(c), Certain(c)
    PROVE  /\ Pieces(c) # << >> /\ Pieces(c)[1].is = "append"
           /\ IsHeader(c) => /\ Tail(Pieces(c)) = << >> /\ Pieces(c)[1].checked
                             /\ Pieces(c)[1].bytes = Done(c) /\ Done(c) \in Seq(Byte)
           /\ ~IsHeader(c) => /\ Tail(Pieces(c)) = <<append(BodyOf(c))>>
                              /\ Pieces(c)[1].bytes = TimeHead(c)
                              /\ TimeHead(c) \in Seq(Byte) /\ TimeHead(c) # << >>
                              /\ BodyOf(c) # << >> /\ ~MayRefuse[session]
                              /\ Done(c) = TimeHead(c) \o BodyOf(c)
<1>1. CASE IsHeader(c)
    <2>1. Pieces(c) = <<append(HeaderOf(c))>> /\ HeaderOf(c) \in Seq(Byte)
        BY <1>1, HeaderMade DEF HeaderGood
    <2>2. Done(c) = HeaderOf(c)
        BY <1>1 DEF Done
    <2>3. /\ append(HeaderOf(c)).is = "append" /\ append(HeaderOf(c)).bytes = HeaderOf(c)
          /\ append(HeaderOf(c)).checked
        BY DEF append
    <2>4. /\ Pieces(c) # << >> /\ Pieces(c)[1] = append(HeaderOf(c))
          /\ Tail(Pieces(c)) = << >>
        BY <2>1
    <2> QED
        BY <1>1, <2>1, <2>2, <2>3, <2>4
<1>2. CASE ~IsHeader(c)
    <2>1. c.is = "timestamp" /\ ~MayRefuse[session]
        BY <1>2 DEF Certain
    <2> DEFINE u == Unchecked(TimeHead(c))
               a == append(BodyOf(c))
    <2>2. /\ Pieces(c) = <<u, a>>
          /\ TimeHead(c) \in Seq(Byte) /\ TimeHead(c) # << >> /\ BodyOf(c) # << >>
        BY <2>1, TimeIs
    <2>3. u.is = "append" /\ u.bytes = TimeHead(c)
        BY DEF Unchecked, append
    <2> HIDE DEF u, a
    <2>4. Pieces(c) # << >> /\ Pieces(c)[1] = u /\ Tail(Pieces(c)) = <<a>>
        BY <2>2
    <2>5. Done(c) = TimeHead(c) \o BodyOf(c)
        BY <1>2 DEF Done
    <2> QED
        BY <1>2, <2>1, <2>2, <2>3, <2>4, <2>5 DEF a
<1> QED
    BY <1>1, <1>2

LEMMA PackerInitInv ==
    ASSUME PackerConstants, Packer_Init
    PROVE  PackerInv
<1>1. packed = << >> /\ packed \in Seq(Call[session])
    BY DEF Packer_Init
<1>2. Len(packed) = 0
    BY <1>1
<1> QED
    BY <1>1, <1>2 DEF Packer_Init, PackerInv, Single

LEMMA PackerStepInv ==
    ASSUME PackerConstants, PackerInv, [Packer_Next]_packer_vars
    PROVE  PackerInv'
<1> USE DEF PackerInv
<1>1. packing # NoPacking => packing \in Call[session] /\ Given(packing)
    BY GivenCall
<1>2. ASSUME NEW c \in Call[session], Begin(c) PROVE PackerInv'
    <2>1. /\ packing = NoPacking /\ result = 0 /\ packing' = c /\ agenda' = Pieces(c)
          /\ session' = session /\ out' = out /\ result' = result /\ packed' = packed
        BY <1>2 DEF Begin
    <2>2. c # NoPacking
        BY GivenCall
    <2>3. ~Single'
        BY <2>1, <2>2 DEF Single
    <2>4. packed = << >> => UnderWay(c)'
        BY <2>1 DEF UnderWay
    <2>5. packing' # NoPacking /\ packing' = c
        BY <2>1, <2>2
    <2>6. packed' = << >> => UnderWay(packing)'
        BY <2>1, <2>4
    <2> QED
        BY <2>1, <2>3, <2>5, <2>6
<1>3. ASSUME Open PROVE PackerInv'
    <2>1. /\ agenda # << >> /\ agenda[1].is = "object"
          /\ session' = session /\ out' = out /\ packing' = packing /\ result' = result
          /\ packed' = packed
        BY <1>3 DEF Open
    <2>2. packing # NoPacking /\ ~Single'
        BY <2>1 DEF Single
    <2>3. ~(packed = << >> /\ Certain(packing))
        <3> SUFFICES ASSUME packed = << >>, Certain(packing) PROVE FALSE
            OBVIOUS
        <3>1. UnderWay(packing) /\ Given(packing)
            BY <1>1, <2>2
        <3>2. Pieces(packing)[1].is = "append"
            BY <3>1, CertainPieces
        <3>3. append(BodyOf(packing)).is = "append"
            BY DEF append
        <3>4. <<append(BodyOf(packing))>>[1] = append(BodyOf(packing))
            OBVIOUS
        <3> QED
            BY <2>1, <3>1, <3>2, <3>3, <3>4 DEF UnderWay
    <2>4. Certain(packing)' <=> Certain(packing)
        BY <2>1 DEF Certain
    <2> QED
        BY <2>1, <2>2, <2>3, <2>4
<1>4. ASSUME Append_ PROVE PackerInv'
    <2>1. /\ agenda # << >> /\ out' = out \o agenda[1].bytes /\ result' = 0
          /\ agenda' = Tail(agenda)
          /\ session' = session /\ packing' = packing /\ packed' = packed
        BY <1>4 DEF Append_
    <2>2. packing # NoPacking /\ ~Single'
        BY <2>1 DEF Single
    <2>3. ASSUME packed = << >>, Certain(packing) PROVE UnderWay(packing)'
        <3>1. UnderWay(packing) /\ Given(packing)
            BY <1>1, <2>2, <2>3
        <3>2. CASE agenda = Pieces(packing) /\ out = << >>
            <4>1. CASE IsHeader(packing)
                <5>1. /\ Tail(agenda) = << >> /\ agenda[1].bytes = Done(packing)
                      /\ Done(packing) \in Seq(Byte)
                    BY <2>3, <3>1, <3>2, <4>1, CertainPieces
                <5>2. out' = Done(packing)
                    BY <2>1, <3>2, <5>1
                <5> QED
                    BY <2>1, <5>1, <5>2 DEF UnderWay, Done
            <4>2. CASE ~IsHeader(packing)
                <5>1. /\ Tail(agenda) = <<append(BodyOf(packing))>>
                      /\ agenda[1].bytes = TimeHead(packing)
                      /\ TimeHead(packing) \in Seq(Byte)
                    BY <2>3, <3>1, <3>2, <4>2, CertainPieces
                <5>2. out' = TimeHead(packing)
                    BY <2>1, <3>2, <5>1
                <5> QED
                    BY <2>1, <4>2, <5>1, <5>2 DEF UnderWay
            <4> QED
                BY <4>1, <4>2
        <3>3. CASE /\ ~IsHeader(packing) /\ agenda = <<append(BodyOf(packing))>>
                   /\ out = TimeHead(packing)
            <4>1. Done(packing) = TimeHead(packing) \o BodyOf(packing)
                BY <3>3 DEF Done
            <4>2. agenda[1].bytes = BodyOf(packing) /\ Tail(agenda) = << >>
                BY <3>3 DEF append
            <4>3. out' = Done(packing)
                BY <2>1, <3>3, <4>1, <4>2
            <4> QED
                BY <2>1, <4>2, <4>3 DEF UnderWay, Done
        <3> QED
            BY <2>1, <3>1, <3>2, <3>3 DEF UnderWay
    <2>4. Certain(packing)' <=> Certain(packing)
        BY <2>1 DEF Certain
    <2> QED
        BY <2>1, <2>2, <2>3, <2>4
<1>5. ASSUME Refuse PROVE PackerInv'
    <2>1. /\ agenda # << >> /\ Refuses(agenda[1].bytes) /\ result' = -1
          /\ agenda' = IF agenda[1].checked THEN << >> ELSE Tail(agenda)
          /\ session' = session /\ packing' = packing /\ packed' = packed
        BY <1>5 DEF Refuse
    <2>2. packing # NoPacking /\ ~Single'
        BY <2>1 DEF Single
    <2>3. ASSUME packed = << >>, Certain(packing) PROVE UnderWay(packing)'
        <3>1. UnderWay(packing) /\ Given(packing)
            BY <1>1, <2>2, <2>3
        <3>2. CASE agenda = Pieces(packing) /\ out = << >>
            <4>1. CASE IsHeader(packing)
                <5>1. agenda[1].checked
                    BY <2>3, <3>1, <3>2, <4>1, CertainPieces
                <5>2. agenda' = << >> /\ result' # 0
                    BY <2>1, <5>1
                <5> QED
                    BY <5>2 DEF UnderWay
            <4>2. CASE ~IsHeader(packing)
                <5>1. agenda[1].bytes # << >> /\ ~MayRefuse[session]
                    BY <2>3, <3>1, <3>2, <4>2, CertainPieces
                <5> QED
                    BY <2>1, <5>1 DEF Refuses
            <4> QED
                BY <4>1, <4>2
        <3>3. CASE ~IsHeader(packing) /\ agenda = <<append(BodyOf(packing))>>
            <4>1. BodyOf(packing) # << >> /\ ~MayRefuse[session]
                BY <2>3, <3>1, <3>3, CertainPieces
            <4>2. agenda[1].bytes = BodyOf(packing)
                BY <3>3 DEF append
            <4> QED
                BY <2>1, <4>1, <4>2 DEF Refuses
        <3> QED
            BY <2>1, <3>1, <3>2, <3>3 DEF UnderWay
    <2>4. Certain(packing)' <=> Certain(packing)
        BY <2>1 DEF Certain
    <2> QED
        BY <2>1, <2>2, <2>3, <2>4
<1>6. ASSUME Return PROVE PackerInv'
    <2>1. /\ packing # NoPacking /\ agenda = << >> /\ packing' = NoPacking
          /\ packed' = IF result = 0 THEN Append(packed, packing) ELSE packed
          /\ session' = session /\ out' = out /\ agenda' = agenda /\ result' = result
        BY <1>6 DEF Return
    <2>2. packed' \in Seq(Call[session])
        <3>1. packed \in Seq(Call[session]) /\ packing \in Call[session]
            BY <1>1, <2>1
        <3>2. Append(packed, packing) \in Seq(Call[session])
            BY <3>1, AppendProperties
        <3> QED
            BY <2>1, <3>1, <3>2
    <2>3. result' = 0 => packed' # << >>
        BY <1>1, <2>1
    <2>4. ASSUME Single', Certain(packed[1])' PROVE out' = Done(packed[1])'
        <3>1. result = 0 /\ packed' = Append(packed, packing) /\ Len(packed') = 1
            BY <2>1, <2>4 DEF Single
        <3>2. packed = << >> /\ packed'[1] = packing
            <4>1. Len(packed') = Len(packed) + 1
                BY <1>1, <2>1, <3>1
            <4>2. Len(packed) = 0
                BY <3>1, <4>1
            <4>3. packed = << >>
                BY <4>2
            <4> QED
                BY <3>1, <4>3
        <3>3. Certain(packing)
            BY <2>1, <2>4, <3>2 DEF Certain
        <3>4. UnderWay(packing) /\ Pieces(packing) # << >>
            BY <1>1, <2>1, <3>2, <3>3, CertainPieces
        <3>5. out = Done(packing)
            BY <2>1, <3>1, <3>4 DEF UnderWay
        <3> QED
            BY <2>1, <3>2, <3>5 DEF Done
    <2> QED
        BY <2>1, <2>2, <2>3, <2>4
<1>7. ASSUME Packer_Clear PROVE PackerInv'
    <2>1. /\ packing = NoPacking /\ out' = << >> /\ packed' = << >>
          /\ session' = session /\ agenda' = agenda /\ packing' = packing
        BY <1>7 DEF Packer_Clear
    <2>2. Len(packed') = 0 /\ packed' \in Seq(Call[session])
        BY <2>1
    <2>3. ~Single'
        BY <2>2 DEF Single
    <2> QED
        BY <2>1, <2>2, <2>3
<1>8. ASSUME UNCHANGED packer_vars PROVE PackerInv'
    BY <1>8 DEF packer_vars, Single, Certain, UnderWay
<1> QED
    BY <1>2, <1>3, <1>4, <1>5, <1>6, <1>7, <1>8 DEF Packer_Next

\* What the header, the length and the body of the only call say.
LEMMA PackerInvExact ==
    ASSUME PackerConstants, PackerInv
    PROVE  NumbersExact
<1>1. ASSUME Single PROVE packed[1] \in Call[session] /\ Given(packed[1])
    <2>1. packed \in Seq(Call[session]) /\ Len(packed) = 1
        BY <1>1 DEF PackerInv, Single
    <2>2. 1 \in 1 .. Len(packed)
        BY <2>1
    <2>3. packed[1] \in Call[session]
        BY <2>1, <2>2, ElementOfSeq
    <2> QED
        BY <2>3, GivenCall DEF PackerInv
<1>2. ASSUME Single, IsHeader(packed[1]) PROVE HeaderGood(packed[1], out)
    <2>1. Certain(packed[1])
        BY <1>2 DEF Certain
    <2>2. out = HeaderOf(packed[1])
        BY <1>2, <2>1 DEF PackerInv, Done
    <2> QED
        BY <1>1, <1>2, <2>2, HeaderMade
<1>3. HeaderSaysNumber
    BY <1>2 DEF HeaderSaysNumber, HeaderGood
<1>4. MinimumSize
    <2> SUFFICES ASSUME Single, packed[1].is \in {"int", "uint"}
                 PROVE  Len(out) = Shortest(Meant(packed[1])[2])
        BY DEF MinimumSize
    <2>1. IsHeader(packed[1])
        BY DEF IsHeader, Bodied
    <2> QED
        BY <1>2, <2>1 DEF HeaderGood
<1>5. TimestampKept
    <2> SUFFICES ASSUME Single, packed[1].is = "timestamp", ~MayRefuse[session]
                 PROVE  TimeGood(packed[1], out)
        BY DEF TimestampKept, TimeGood
    <2>1. Certain(packed[1]) /\ ~IsHeader(packed[1])
        BY DEF Certain, IsHeader, Bodied
    <2>2. out = TimeHead(packed[1]) \o BodyOf(packed[1])
        BY <2>1 DEF PackerInv, Done
    <2> QED
        BY <1>1, <2>2, TimeIs
<1> QED
    BY <1>3, <1>4, <1>5 DEF NumbersExact

\* Whatever number, size or time a call is given, of whatever width, the only call of a
\* stream leaves there what says that number, in the fewest bytes.
THEOREM PackerNumbersExact ==
    ASSUME PackerConstants
    PROVE  Packer_Spec => []NumbersExact
<1>1. Packer_Init => PackerInv
    BY PackerInitInv
<1>2. PackerInv /\ [Packer_Next]_packer_vars => PackerInv'
    BY PackerStepInv
<1>3. PackerInv => NumbersExact
    BY PackerInvExact
<1> QED
    BY <1>1, <1>2, <1>3, PTL DEF Packer_Spec

\* The number that the first n bytes say.
LEMMA BigEndianIs ==
    ASSUME NEW bs
    PROVE  \E f : /\ f[0] = 0
                  /\ \A n \in Nat : f[n + 1] = 256 * f[n] + bs[n + 1]
                  /\ Reader!BigEndian(bs) = f[Len(bs)]
  <1> DEFINE Step(k, x) == IF k = 0 THEN 0 ELSE 256 * x + bs[k]
             Is(f, n) == f = [k \in 0 .. n |-> Step(k, f[k - 1])]
             IsChosen(f) == f = [k \in Nat |-> IF k = 0 THEN 0 ELSE 256 * f[k - 1] + bs[k]]
             Chosen == CHOOSE f : IsChosen(f)
  <1>1. \A x, y : Step(0, x) = Step(0, y)
    OBVIOUS
  <1>2. \A f : IsChosen(f) <=> f = [k \in Nat |-> Step(k, f[k - 1])]
    OBVIOUS
  <1>3. \E f : f = [k \in Nat |-> Step(k, f[k - 1])]
    <2> HIDE DEF Step
    <2> DEFINE S == {n \in Nat : \E f : Is(f, n)}
    <2>1. 0 \in S
      <3> DEFINE f == [k \in 0 .. 0 |-> Step(0, 0)]
      <3>1. f = [k \in 0 .. 0 |-> Step(k, f[k - 1])]
        BY <1>1
      <3> QED  BY <3>1
    <2>2. ASSUME NEW n \in Nat, n \in S PROVE n + 1 \in S
      <3>1. PICK f : Is(f, n)
        BY <2>2
      <3> DEFINE g == [k \in 0 .. n + 1 |-> IF k <= n THEN f[k] ELSE Step(k, f[n])]
      <3>2. ASSUME NEW k \in 0 .. n + 1 PROVE g[k] = Step(k, g[k - 1])
        <4>1. CASE k = 0
          BY <3>1, <4>1, <1>1
        <4>2. CASE k # 0
          <5>1. k - 1 \in 0 .. n /\ g[k - 1] = f[k - 1]
            BY <4>2
          <5> QED  BY <3>1, <5>1
        <4> QED  BY <4>1, <4>2
      <3>3. Is(g, n + 1)
        BY <3>2
      <3> HIDE DEF g, Is
      <3> QED  BY <3>3
    <2>3. \A n \in Nat : \E f : Is(f, n)
      <3> HIDE DEF Is
      <3>1. \A n \in Nat : n \in S
        BY <2>1, <2>2, Induction
      <3> QED  BY <3>1
    <2> DEFINE h(n) == CHOOSE f : Is(f, n)
    <2>4. \A n \in Nat : Is(h(n), n)
      <3> HIDE DEF Is
      <3> QED  BY <2>3
    <2>5. \A n \in Nat : \A k \in 0 .. n : h(n)[k] = Step(k, h(n)[k - 1])
      <3> SUFFICES ASSUME NEW n \in Nat, NEW k \in 0 .. n
                   PROVE  h(n)[k] = Step(k, h(n)[k - 1])
        OBVIOUS
      <3>1. Is(h(n), n)
        BY <2>4
      <3> HIDE DEF h
      <3> QED  BY <3>1
    <2> HIDE DEF h
    <2> DEFINE T == {k \in Nat : \A n \in Nat : k <= n => h(n)[k] = h(k)[k]}
    <2>6. 0 \in T
      BY <2>5, <1>1
    <2>7. ASSUME NEW k \in Nat, k \in T PROVE k + 1 \in T
      <3>1. \A n \in Nat : k + 1 <= n => h(n)[k + 1] = Step(k + 1, h(k)[k])
        BY <2>5, <2>7
      <3> QED  BY <3>1
    <2>8. \A k \in Nat : k \in T
      <3> HIDE DEF T
      <3> QED  BY <2>6, <2>7, Induction
    <2> DEFINE F == [k \in Nat |-> h(k)[k]]
    <2>9. ASSUME NEW k \in Nat PROVE F[k] = Step(k, F[k - 1])
      <3>1. CASE k = 0
        BY <2>5, <1>1, <3>1
      <3>2. CASE k # 0
        <4>1. k - 1 \in Nat /\ h(k)[k - 1] = F[k - 1]
          BY <2>8, <3>2
        <4> QED  BY <2>5, <4>1
      <3> QED  BY <3>1, <3>2
    <2>10. F = [k \in Nat |-> Step(k, F[k - 1])]
      BY <2>9
    <2> QED  BY <2>10
  <1>4. IsChosen(Chosen)
    <2> HIDE DEF IsChosen, Step
    <2> QED  BY <1>2, <1>3
  <1>5. Reader!BigEndian(bs) = Chosen[Len(bs)]
    BY Zenon DEF Reader!BigEndian
  <1>6. Chosen[0] = 0 /\ \A n \in Nat : Chosen[n + 1] = 256 * Chosen[n] + bs[n + 1]
    <2> HIDE DEF Chosen
    <2>1. \A n \in Nat : n + 1 # 0 /\ (n + 1) - 1 = n
      OBVIOUS
    <2> QED  BY <1>4, <2>1
  <1> HIDE DEF Chosen
  <1> QED  BY <1>5, <1>6

\* What Series reads with one more byte, when it reads x with one less.
More(s, e, x) ==
    [i \in Nat |-> [d \in Nat |-> [n \in Nat |->
        IF n = 0 THEN Reader!Ok(<< >>, i)
        ELSE Reader!Behind(Reader!Whole(Reader!Front(s, e, i), d, x), d, n - 1, x)]]]
None == [i \in Nat |-> [d \in Nat |-> [n \in Nat |->
            IF n = 0 THEN Reader!Ok(<< >>, i) ELSE Reader!Not("more")]]]

LEMMA SeriesIs ==
    ASSUME NEW s, NEW e
    PROVE  /\ Reader!Series(s, e)[0] = None
           /\ \A k \in Nat : Reader!Series(s, e)[k + 1] = More(s, e, Reader!Series(s, e)[k])
  <1> DEFINE Step(k, x) == [i \in Nat |-> [d \in Nat |-> [n \in Nat |->
                 IF n = 0 THEN Reader!Ok(<< >>, i)
                 ELSE IF k = 0 THEN Reader!Not("more")
                 ELSE Reader!Behind(Reader!Whole(Reader!Front(s, e, i), d, x), d, n - 1, x)]]]
             Is(f, n) == f = [k \in 0 .. n |-> Step(k, f[k - 1])]
             IsChosen(f) == f = [k \in Nat |-> [i \in Nat |-> [d \in Nat |-> [n \in Nat |->
                 IF n = 0 THEN Reader!Ok(<< >>, i)
                 ELSE IF k = 0 THEN Reader!Not("more")
                 ELSE Reader!Behind(Reader!Whole(Reader!Front(s, e, i), d, f[k - 1]), d, n - 1, f[k - 1])]]]]
             Chosen == CHOOSE f : IsChosen(f)
  <1>1. \A x, y : Step(0, x) = Step(0, y)
    OBVIOUS
  <1>2. \A f : IsChosen(f) <=> f = [k \in Nat |-> Step(k, f[k - 1])]
    OBVIOUS
  <1>3. \E f : f = [k \in Nat |-> Step(k, f[k - 1])]
    <2> HIDE DEF Step
    <2> DEFINE S == {n \in Nat : \E f : Is(f, n)}
    <2>1. 0 \in S
      <3> DEFINE f == [k \in 0 .. 0 |-> Step(0, 0)]
      <3>1. f = [k \in 0 .. 0 |-> Step(k, f[k - 1])]
        BY <1>1
      <3> QED  BY <3>1
    <2>2. ASSUME NEW n \in Nat, n \in S PROVE n + 1 \in S
      <3>1. PICK f : Is(f, n)
        BY <2>2
      <3> DEFINE g == [k \in 0 .. n + 1 |-> IF k <= n THEN f[k] ELSE Step(k, f[n])]
      <3>2. ASSUME NEW k \in 0 .. n + 1 PROVE g[k] = Step(k, g[k - 1])
        <4>1. CASE k = 0
          BY <3>1, <4>1, <1>1
        <4>2. CASE k # 0
          <5>1. k - 1 \in 0 .. n /\ g[k - 1] = f[k - 1]
            BY <4>2
          <5> QED  BY <3>1, <5>1
        <4> QED  BY <4>1, <4>2
      <3>3. Is(g, n + 1)
        BY <3>2
      <3> HIDE DEF g, Is
      <3> QED  BY <3>3
    <2>3. \A n \in Nat : \E f : Is(f, n)
      <3> HIDE DEF Is
      <3>1. \A n \in Nat : n \in S
        BY <2>1, <2>2, Induction
      <3> QED  BY <3>1
    <2> DEFINE h(n) == CHOOSE f : Is(f, n)
    <2>4. \A n \in Nat : Is(h(n), n)
      <3> HIDE DEF Is
      <3> QED  BY <2>3
    <2>5. \A n \in Nat : \A k \in 0 .. n : h(n)[k] = Step(k, h(n)[k - 1])
      <3> SUFFICES ASSUME NEW n \in Nat, NEW k \in 0 .. n
                   PROVE  h(n)[k] = Step(k, h(n)[k - 1])
        OBVIOUS
      <3>1. Is(h(n), n)
        BY <2>4
      <3> HIDE DEF h
      <3> QED  BY <3>1
    <2> HIDE DEF h
    <2> DEFINE T == {k \in Nat : \A n \in Nat : k <= n => h(n)[k] = h(k)[k]}
    <2>6. 0 \in T
      BY <2>5, <1>1
    <2>7. ASSUME NEW k \in Nat, k \in T PROVE k + 1 \in T
      <3>1. \A n \in Nat : k + 1 <= n => h(n)[k + 1] = Step(k + 1, h(k)[k])
        BY <2>5, <2>7
      <3> QED  BY <3>1
    <2>8. \A k \in Nat : k \in T
      <3> HIDE DEF T
      <3> QED  BY <2>6, <2>7, Induction
    <2> DEFINE F == [k \in Nat |-> h(k)[k]]
    <2>9. ASSUME NEW k \in Nat PROVE F[k] = Step(k, F[k - 1])
      <3>1. CASE k = 0
        BY <2>5, <1>1, <3>1
      <3>2. CASE k # 0
        <4>1. k - 1 \in Nat /\ h(k)[k - 1] = F[k - 1]
          BY <2>8, <3>2
        <4> QED  BY <2>5, <4>1
      <3> QED  BY <3>1, <3>2
    <2>10. F = [k \in Nat |-> Step(k, F[k - 1])]
      BY <2>9
    <2> QED  BY <2>10
  <1>4. IsChosen(Chosen)
    <2> HIDE DEF IsChosen, Step
    <2> QED  BY <1>2, <1>3
  <1>5. Reader!Series(s, e) = Chosen
    BY Zenon DEF Reader!Series
  <1>6. \A k \in Nat : Chosen[k] = Step(k, Chosen[k - 1])
    <2> HIDE DEF Chosen, Step
    <2>1. Chosen = [k \in Nat |-> Step(k, Chosen[k - 1])]
      BY <1>2, <1>4
    <2> QED  BY <2>1
  <1>7. \A x : Step(0, x) = None
    BY DEF None
  <1>8. \A k \in Nat : \A x : Step(k + 1, x) = More(s, e, x)
    BY DEF More
  <1>9. \A k \in Nat : Chosen[k + 1] = More(s, e, Chosen[k])
    <2> HIDE DEF Chosen, Step
    <2>1. \A k \in Nat : k + 1 \in Nat /\ (k + 1) - 1 = k
      OBVIOUS
    <2> QED  BY <1>6, <1>8, <2>1
  <1>10. Chosen[0] = None
    <2> HIDE DEF Chosen, Step
    <2> QED  BY <1>6, <1>7
  <1> HIDE DEF Chosen
  <1> QED  BY <1>5, <1>9, <1>10
-----------------------------------------------------------------------------
(* The outcomes of the reference reading *)

LEMMA OutcomeIs ==
    /\ \A o, i : Reader!Ok(o, i).is = "ok" /\ Reader!Ok(o, i).obj = o /\ Reader!Ok(o, i).next = i
    /\ \A w : Reader!Not(w).is = w
    /\ \A t, n, i : /\ Reader!Opens(t, n, i).is = "open" /\ Reader!Opens(t, n, i).type = t
                    /\ Reader!Opens(t, n, i).n = n /\ Reader!Opens(t, n, i).next = i
BY DEF Reader!Ok, Reader!Not, Reader!Opens

LEMMA NoneAt ==
    ASSUME NEW i \in Nat, NEW d \in Nat, NEW n \in Nat
    PROVE  None[i][d][n] = IF n = 0 THEN Reader!Ok(<< >>, i) ELSE Reader!Not("more")
BY DEF None

LEMMA MoreAt ==
    ASSUME NEW s, NEW e, NEW x, NEW i \in Nat, NEW d \in Nat, NEW n \in Nat
    PROVE  More(s, e, x)[i][d][n] =
             IF n = 0 THEN Reader!Ok(<< >>, i)
             ELSE Reader!Behind(Reader!Whole(Reader!Front(s, e, i), d, x), d, n - 1, x)
BY DEF More

-----------------------------------------------------------------------------
(* What a list of pieces may put into the stream. *)

\* What is left to do: bytes, and objects of any level.
Within(L) == UNION {L[k] : k \in 0 .. Depth}
PieceOf(L) == {append(b) : b \in Seq(Byte)} \cup {Unchecked(b) : b \in Seq(Byte)}
              \cup {object(o) : o \in Within(L)}

\* The bytes c may stand at index i of the stream s, or what of them is there.
At(s, i, c) == \A j \in 1 .. Len(c) : i + j - 1 <= Len(s) => s[i + j - 1] = c[j]

\* What is found then: x, if the bytes are all there.
There(s, i, c) == i + Len(c) - 1 <= Len(s)
Found(s, i, c, x) ==
    IF There(s, i, c) THEN Reader!Ok(x, i + Len(c)) ELSE Reader!Not("more")

\* One object at index i of s, or n of them, with k containers open around.
One(s, i, k, m) == Reader!Whole(Reader!Front(s, Len(s), i), k, Reader!Series(s, Len(s))[m])
Many(s, i, k, m, n) == Reader!Series(s, Len(s))[m][i][k][n]

\* The bytes c say the object o to a reader at any of its levels, wherever they stand and
\* whatever follows, and their beginning says that bytes are missing.
Code(L, o, c) ==
    /\ c \in Seq(Byte) /\ c # << >>
    /\ \A k \in 0 .. Depth : o \in L[k] =>
          \A s \in Seq(Byte) : \A i \in 1 .. Len(s) + 1 : \A m \in Nat :
              At(s, i, c) /\ m + i >= Len(s) => One(s, i, k, m) = Found(s, i, c, o)

\* A piece may put c into the stream, and the pieces of A may put b there: f[i] is
\* what those behind the first i put.
Spells(L, p, c) == IF p.is = "append" THEN c = p.bytes ELSE Code(L, p.obj, c)
Links(L, A, f) ==
    /\ f[Len(A)] = << >> /\ \A i \in 0 .. Len(A) : f[i] \in Seq(Byte)
    /\ \A i \in 1 .. Len(A) :
          \E c \in Seq(Byte) : Spells(L, A[i], c) /\ f[i - 1] = c \o f[i]
Spelled(L, A, b) == \E f : Links(L, A, f) /\ f[0] = b

LEMMA PieceIs ==
    /\ \A b : append(b).is = "append" /\ append(b).bytes = b /\ append(b).checked = TRUE
    /\ \A b : /\ Unchecked(b).is = "append" /\ Unchecked(b).bytes = b
              /\ Unchecked(b).checked = FALSE
    /\ \A o : object(o).is = "object" /\ object(o).obj = o
BY DEF append, Unchecked, object

LEMMA PieceTyped ==
    ASSUME NEW L, NEW p \in PieceOf(L)
    PROVE  \/ p.is = "append" /\ p.bytes \in Seq(Byte) /\ p.checked \in BOOLEAN
           \/ p.is = "object" /\ p.obj \in Within(L) /\ p = object(p.obj)
<1>1. CASE \E b \in Seq(Byte) : p = append(b) \/ p = Unchecked(b)
    BY <1>1, PieceIs, ZenonT(60)
<1>2. CASE \E o \in Within(L) : p = object(o)
    BY <1>2, PieceIs
<1> QED
    BY <1>1, <1>2 DEF PieceOf

LEMMA SpelledIn == \A L, A, b : Spelled(L, A, b) /\ Len(A) \in Nat => b \in Seq(Byte)
<1> SUFFICES ASSUME NEW L, NEW A, NEW b, Spelled(L, A, b), Len(A) \in Nat PROVE b \in Seq(Byte)
    OBVIOUS
<1>1. PICK f : Links(L, A, f) /\ f[0] = b
    BY DEF Spelled
<1>2. 0 \in 0 .. Len(A)
    OBVIOUS
<1> QED
    BY <1>1, <1>2 DEF Links

LEMMA SpelledNone == \A L : Spelled(L, << >>, << >>) /\ \A b : Spelled(L, << >>, b) => b = << >>
<1> SUFFICES ASSUME NEW L PROVE Spelled(L, << >>, << >>) /\ \A b : Spelled(L, << >>, b) => b = << >>
    OBVIOUS
<1> DEFINE f == [i \in 0 .. 0 |-> << >>]
<1>0. Len(<< >>) = 0 /\ 0 \in 0 .. 0 /\ << >> \in Seq(Byte)
    OBVIOUS
<1>1. f[0] = << >> /\ \A i \in 0 .. 0 : f[i] = << >>
    OBVIOUS
<1> HIDE DEF f
<1>2. Links(L, << >>, f)
    <2>1. f[Len(<< >>)] = << >> /\ \A i \in 0 .. Len(<< >>) : f[i] \in Seq(Byte)
        BY <1>0, <1>1
    <2>2. \A i \in 1 .. Len(<< >>) : FALSE
        BY <1>0
    <2> QED
        BY <2>1, <2>2, Zenon DEF Links
<1>3. \A b : Spelled(L, << >>, b) => b = << >>
    BY <1>0 DEF Spelled, Links
<1> QED
    BY <1>1, <1>2, <1>3 DEF Spelled

LEMMA SpelledFirst ==
    ASSUME NEW L, NEW P, NEW p \in P, NEW A \in Seq(P), NEW c \in Seq(Byte), NEW b,
           Spells(L, p, c), Spelled(L, A, b)
    PROVE  Spelled(L, <<p>> \o A, c \o b)
<1> DEFINE B == <<p>> \o A
           n == Len(A)
<1>1. PICK f : Links(L, A, f) /\ f[0] = b
    BY DEF Spelled
<1>2. n \in Nat /\ Len(B) = n + 1 /\ B[1] = p /\ \A i \in 1 .. n : B[i + 1] = A[i]
    OBVIOUS
<1>3. b \in Seq(Byte) /\ c \o b \in Seq(Byte)
    BY <1>1, <1>2, SpelledIn, ConcatIs
<1> DEFINE g == [i \in 0 .. n + 1 |-> IF i = 0 THEN c \o b ELSE f[i - 1]]
<1>4. g[0] = c \o b /\ \A i \in 1 .. n + 1 : g[i] = f[i - 1]
    BY <1>2
<1> HIDE DEF B, g
<1>5. \A i \in 0 .. n + 1 : g[i] \in Seq(Byte)
    <2> TAKE i \in 0 .. n + 1
    <2>1. i = 0 \/ (i \in 1 .. n + 1 /\ i - 1 \in 0 .. n)
        BY <1>2
    <2> QED
        BY <1>1, <1>3, <1>4, <2>1 DEF Links
<1>6. g[n + 1] = << >>
    <2>1. n + 1 \in 1 .. n + 1 /\ (n + 1) - 1 = n
        BY <1>2
    <2> QED
        BY <1>1, <1>4, <2>1 DEF Links
<1>7. ASSUME NEW i \in 1 .. n + 1
      PROVE  \E d \in Seq(Byte) : Spells(L, B[i], d) /\ g[i - 1] = d \o g[i]
    <2>1. CASE i = 1
        <3>1. 1 \in 1 .. n + 1 /\ 1 - 1 = 0
            BY <1>2
        <3>2. g[1] = b /\ g[0] = c \o b
            BY <1>1, <1>4, <3>1
        <3> QED
            BY <1>2, <2>1, <3>1, <3>2
    <2>2. CASE i # 1
        <3>1. i - 1 \in 1 .. n /\ (i - 1) + 1 = i /\ i - 1 \in 1 .. n + 1
            BY <1>2, <2>2
        <3>2. B[i] = A[i - 1]
            BY <1>2, <3>1
        <3>3. g[i] = f[i - 1] /\ g[i - 1] = f[(i - 1) - 1]
            BY <1>4, <3>1
        <3>4. \E d \in Seq(Byte) : Spells(L, A[i - 1], d) /\ f[(i - 1) - 1] = d \o f[i - 1]
            BY <1>1, <3>1 DEF Links
        <3> QED
            BY <3>2, <3>3, <3>4
    <2> QED
        BY <2>1, <2>2
<1>8. Links(L, B, g)
    BY <1>2, <1>5, <1>6, <1>7 DEF Links
<1> QED
    BY <1>4, <1>8 DEF Spelled, B

\* The pieces of A put b there: the first c, and the others what follows.
FirstPuts(L, A, b) ==
    \E c \in Seq(Byte), d \in Seq(Byte) :
        Spells(L, A[1], c) /\ Spelled(L, Tail(A), d) /\ b = c \o d

LEMMA SpelledTail ==
    ASSUME NEW L, NEW P, NEW A \in Seq(P), A # << >>, NEW b, Spelled(L, A, b)
    PROVE  FirstPuts(L, A, b)
<1> DEFINE B == Tail(A)
           n == Len(A)
<1>1. PICK f : Links(L, A, f) /\ f[0] = b
    BY DEF Spelled
<1>2. n \in Nat /\ n >= 1 /\ Len(B) = n - 1 /\ \A i \in 1 .. n - 1 : B[i] = A[i + 1]
    OBVIOUS
<1>3. 1 \in 1 .. n /\ 1 \in 0 .. n /\ 1 - 1 = 0
    BY <1>2
<1>4. PICK c \in Seq(Byte) : Spells(L, A[1], c) /\ f[0] = c \o f[1]
    BY <1>1, <1>3 DEF Links
<1> DEFINE g == [i \in 0 .. n - 1 |-> f[i + 1]]
<1>5. \A i \in 0 .. n - 1 : g[i] = f[i + 1]
    BY <1>2
<1> HIDE DEF B, g
<1>6. \A i \in 0 .. n - 1 : g[i] \in Seq(Byte)
    <2> TAKE i \in 0 .. n - 1
    <2>1. i + 1 \in 0 .. n
        BY <1>2
    <2> QED
        BY <1>1, <1>5, <2>1 DEF Links
<1>7. g[n - 1] = << >>
    <2>1. n - 1 \in 0 .. n - 1 /\ (n - 1) + 1 = n
        BY <1>2
    <2> QED
        BY <1>1, <1>5, <2>1 DEF Links
<1>8. ASSUME NEW i \in 1 .. n - 1
      PROVE  \E d \in Seq(Byte) : Spells(L, B[i], d) /\ g[i - 1] = d \o g[i]
    <2>1. /\ i + 1 \in 1 .. n /\ (i + 1) - 1 = i /\ i \in 0 .. n - 1 /\ i - 1 \in 0 .. n - 1
          /\ (i - 1) + 1 = i
        BY <1>2
    <2>2. B[i] = A[i + 1] /\ g[i] = f[i + 1] /\ g[i - 1] = f[i]
        BY <1>2, <1>5, <2>1
    <2>3. \E d \in Seq(Byte) : Spells(L, A[i + 1], d) /\ f[(i + 1) - 1] = d \o f[i + 1]
        BY <1>1, <2>1 DEF Links
    <2> QED
        BY <2>1, <2>2, <2>3
<1>9. Links(L, B, g)
    BY <1>2, <1>6, <1>7, <1>8 DEF Links
<1>10. g[0] = f[1] /\ f[1] \in Seq(Byte)
    <2>1. 0 \in 0 .. n - 1 /\ 0 + 1 = 1
        BY <1>2
    <2> QED
        BY <1>1, <1>3, <1>5, <2>1 DEF Links
<1>11. Spelled(L, B, f[1])
    BY <1>9, <1>10 DEF Spelled
<1> QED
    BY <1>1, <1>4, <1>10, <1>11 DEF B, FirstPuts

LEMMA Cut ==
    ASSUME NEW P, NEW A \in Seq(P), A # << >>
    PROVE  /\ A[1] \in P /\ Tail(A) \in Seq(P) /\ Len(A) \in Nat \ {0}
           /\ Len(Tail(A)) = Len(A) - 1 /\ A = <<A[1]>> \o Tail(A)
<1>1. A[1] \in P /\ Tail(A) \in Seq(P) /\ Len(A) \in Nat \ {0} /\ Len(Tail(A)) = Len(A) - 1
    OBVIOUS
<1>2. <<A[1]>> \in Seq(P) /\ Len(<<A[1]>>) = 1 /\ <<A[1]>>[1] = A[1]
    BY <1>1
<1>3. \A i \in 1 .. Len(A) - 1 : Tail(A)[i] = A[i + 1]
    OBVIOUS
<1> DEFINE B == <<A[1]>> \o Tail(A)
<1>4. /\ B \in Seq(P) /\ Len(B) = Len(A)
      /\ \A i \in 1 .. Len(A) : B[i] = IF i <= 1 THEN A[1] ELSE Tail(A)[i - 1]
    BY <1>1, <1>2, ConcatProperties
<1> HIDE DEF B
<1>5. ASSUME NEW i \in 1 .. Len(A) PROVE B[i] = A[i]
    <2>1. CASE i = 1
        BY <1>4, <2>1
    <2>2. CASE i # 1
        <3>1. i - 1 \in 1 .. Len(A) - 1 /\ (i - 1) + 1 = i /\ ~(i <= 1)
            BY <2>2
        <3> QED
            BY <1>3, <1>4, <3>1
    <2> QED
        BY <2>1, <2>2
<1>6. A = B
    BY <1>4, <1>5, SeqEqual
<1> QED
    BY <1>1, <1>6 DEF B

LEMMA CutBoth ==
    ASSUME NEW P, NEW A \in Seq(P), A # << >>, NEW B \in Seq(P)
    PROVE  /\ A \o B \in Seq(P) /\ A \o B # << >> /\ (A \o B)[1] = A[1]
           /\ Tail(A \o B) = Tail(A) \o B
<1> DEFINE C == A \o B
           D == Tail(A) \o B
           n == Len(A)
           m == Len(B)
<1>1. C \in Seq(P) /\ Len(C) = n + m /\ n \in Nat \ {0} /\ m \in Nat
      /\ \A i \in 1 .. n + m : C[i] = IF i <= n THEN A[i] ELSE B[i - n]
    BY Cut, ConcatProperties
<1>2. Tail(A) \in Seq(P) /\ Len(Tail(A)) = n - 1 /\ \A i \in 1 .. n - 1 : Tail(A)[i] = A[i + 1]
    OBVIOUS
<1>3. D \in Seq(P) /\ Len(D) = (n - 1) + m
      /\ \A i \in 1 .. (n - 1) + m : D[i] = IF i <= n - 1 THEN Tail(A)[i] ELSE B[i - (n - 1)]
    BY <1>2, ConcatProperties
<1> HIDE DEF C, D
<1>4. C # << >> /\ C[1] = A[1]
    BY <1>1
<1>5. /\ Tail(C) \in Seq(P) /\ Len(Tail(C)) = n + m - 1
      /\ \A i \in 1 .. n + m - 1 : Tail(C)[i] = C[i + 1]
    BY <1>1, <1>4
<1>6. ASSUME NEW i \in 1 .. n + m - 1 PROVE Tail(C)[i] = D[i]
    <2>1. i + 1 \in 1 .. n + m /\ i \in 1 .. (n - 1) + m
        BY <1>1
    <2>2. CASE i <= n - 1
        <3>1. i + 1 <= n /\ i \in 1 .. n - 1
            BY <1>1, <2>2
        <3> QED
            BY <1>1, <1>2, <1>3, <1>5, <2>1, <2>2, <3>1
    <2>3. CASE ~(i <= n - 1)
        <3>1. ~(i + 1 <= n) /\ (i + 1) - n = i - (n - 1)
            BY <1>1, <2>3
        <3> QED
            BY <1>1, <1>3, <1>5, <2>1, <2>3, <3>1
    <2> QED
        BY <2>2, <2>3
<1>7. n + m - 1 = (n - 1) + m
    BY <1>1
<1>8. Tail(C) = D
    BY <1>3, <1>5, <1>6, <1>7, SeqEqual
<1> QED
    BY <1>1, <1>4, <1>8 DEF C, D

\* Bytes one behind the other.
LEMMA ThreeByteRows ==
    \A a, b, c \in Seq(Byte) : (a \o b) \o c = a \o (b \o c) /\ a \o b \in Seq(Byte)
<1> SUFFICES ASSUME NEW a \in Seq(Byte), NEW b \in Seq(Byte), NEW c \in Seq(Byte)
             PROVE  (a \o b) \o c = a \o (b \o c) /\ a \o b \in Seq(Byte)
    OBVIOUS
<1>1. (a \o b) \o c = a \o (b \o c)
    BY ConcatAssociative
<1>2. a \o b \in Seq(Byte)
    OBVIOUS
<1> QED
    BY <1>1, <1>2

LEMMA Regroup == \A a, b, c \in Seq(Byte) : (a \o b) \o c = a \o (b \o c)
<1> TAKE a, b, c \in Seq(Byte)
<1> QED
    BY ConcatAssociative

BothPut(L, A, B, b) ==
    \E c \in Seq(Byte), d \in Seq(Byte) : Spelled(L, A, c) /\ Spelled(L, B, d) /\ b = c \o d

LEMMA SpelledSplit ==
    ASSUME NEW L, NEW P, NEW B \in Seq(P)
    PROVE  \A A \in Seq(P) : \A b : Spelled(L, A \o B, b) => BothPut(L, A, B, b)
<1> DEFINE S == {n \in Nat : \A A \in Seq(P) : Len(A) = n => \A b : Spelled(L, A \o B, b) => BothPut(L, A, B, b)}
<1>1. 0 \in S
    <2> SUFFICES ASSUME NEW A \in Seq(P), Len(A) = 0, NEW b, Spelled(L, A \o B, b) PROVE BothPut(L, A, B, b)
        OBVIOUS
    <2>1. A = << >> /\ A \o B = B /\ Len(B) \in Nat
        OBVIOUS
    <2>2. Spelled(L, A, << >>) /\ << >> \in Seq(Byte) /\ b \in Seq(Byte) /\ Spelled(L, B, b)
        BY <2>1, SpelledNone, SpelledIn
    <2>3. b = << >> \o b
        BY <2>2
    <2> QED
        BY <2>2, <2>3 DEF BothPut
<1>2. ASSUME NEW n \in Nat, n \in S PROVE n + 1 \in S
    <2>0. \A A \in Seq(P) : Len(A) = n => \A b : Spelled(L, A \o B, b) => BothPut(L, A, B, b)
        BY <1>2
    <2> SUFFICES ASSUME NEW A \in Seq(P), Len(A) = n + 1, NEW b, Spelled(L, A \o B, b) PROVE BothPut(L, A, B, b)
        OBVIOUS
    <2>1. A # << >>
        OBVIOUS
    <2>2. /\ A[1] \in P /\ Tail(A) \in Seq(P) /\ Len(Tail(A)) = n /\ A = <<A[1]>> \o Tail(A)
        BY <2>1, Cut
    <2>3. /\ A \o B \in Seq(P) /\ A \o B # << >> /\ (A \o B)[1] = A[1]
          /\ Tail(A \o B) = Tail(A) \o B
        BY <2>1, CutBoth
    <2>4. PICK x \in Seq(Byte), y \in Seq(Byte) :
              Spells(L, (A \o B)[1], x) /\ Spelled(L, Tail(A \o B), y) /\ b = x \o y
        <3>1. FirstPuts(L, A \o B, b)
            BY <2>3, SpelledTail
        <3> QED
            BY <3>1 DEF FirstPuts
    <2>5. PICK c \in Seq(Byte), d \in Seq(Byte) :
              Spelled(L, Tail(A), c) /\ Spelled(L, B, d) /\ y = c \o d
        <3>1. BothPut(L, Tail(A), B, y)
            BY <2>0, <2>2, <2>3, <2>4
        <3> QED
            BY <3>1 DEF BothPut
    <2>6. Spelled(L, <<A[1]>> \o Tail(A), x \o c)
        BY <2>2, <2>3, <2>4, <2>5, SpelledFirst, Zenon
    <2>7. x \o c \in Seq(Byte) /\ (x \o c) \o d = x \o (c \o d)
        BY ThreeByteRows, SMTT(30)
    <2>8. Spelled(L, A, x \o c) /\ b = (x \o c) \o d
        BY <2>2, <2>4, <2>5, <2>6, <2>7
    <2> QED
        BY <2>5, <2>7, <2>8 DEF BothPut
<1>3. \A n \in Nat : n \in S
    <2> HIDE DEF S
    <2> QED
        BY <1>1, <1>2, Induction
<1> QED
    BY <1>3

LEMMA SpelledConcat ==
    ASSUME NEW L, NEW P, NEW B \in Seq(P), NEW d \in Seq(Byte), Spelled(L, B, d)
    PROVE  \A A \in Seq(P) : \A c : Spelled(L, A, c) => Spelled(L, A \o B, c \o d)
<1> DEFINE S == {n \in Nat : \A A \in Seq(P) : Len(A) = n =>
                                \A c : Spelled(L, A, c) => Spelled(L, A \o B, c \o d)}
<1>1. 0 \in S
    <2> SUFFICES ASSUME NEW A \in Seq(P), Len(A) = 0, NEW c, Spelled(L, A, c)
                 PROVE  Spelled(L, A \o B, c \o d)
        OBVIOUS
    <2>1. A = << >> /\ A \o B = B
        OBVIOUS
    <2>2. c = << >>
        BY <2>1, SpelledNone
    <2>3. c \o d = d
        BY <2>2
    <2> QED
        BY <2>1, <2>3
<1>2. ASSUME NEW n \in Nat, n \in S PROVE n + 1 \in S
    <2>0. \A A \in Seq(P) : Len(A) = n => \A c : Spelled(L, A, c) => Spelled(L, A \o B, c \o d)
        BY <1>2
    <2> SUFFICES ASSUME NEW A \in Seq(P), Len(A) = n + 1, NEW c, Spelled(L, A, c)
                 PROVE  Spelled(L, A \o B, c \o d)
        OBVIOUS
    <2>1. A # << >>
        OBVIOUS
    <2>2. /\ A[1] \in P /\ Tail(A) \in Seq(P) /\ Len(Tail(A)) = n /\ A = <<A[1]>> \o Tail(A)
        BY <2>1, Cut
    <2>3. PICK x \in Seq(Byte), y \in Seq(Byte) :
              Spells(L, A[1], x) /\ Spelled(L, Tail(A), y) /\ c = x \o y
        <3>1. FirstPuts(L, A, c)
            BY <2>1, SpelledTail
        <3> QED
            BY <3>1 DEF FirstPuts
    <2>4. Spelled(L, Tail(A) \o B, y \o d) /\ y \o d \in Seq(Byte) /\ Tail(A) \o B \in Seq(P)
        <3>1. Spelled(L, Tail(A) \o B, y \o d)
            BY <2>0, <2>2, <2>3, Zenon
        <3>2. y \o d \in Seq(Byte) /\ Tail(A) \o B \in Seq(P)
            BY <2>2, <2>3, ConcatIs, Zenon
        <3> QED
            BY <3>1, <3>2
    <2>5. Spelled(L, <<A[1]>> \o (Tail(A) \o B), x \o (y \o d))
        BY <2>2, <2>3, <2>4, SpelledFirst, Zenon
    <2>6. <<A[1]>> \o (Tail(A) \o B) = A \o B
        <3>1. (<<A[1]>> \o Tail(A)) \o B = <<A[1]>> \o (Tail(A) \o B)
            BY <2>2, ConcatAssociative
        <3> QED
            BY <2>2, <3>1
    <2>7. x \o (y \o d) = c \o d
        BY <2>3, ThreeByteRows, ZenonT(60)
    <2> QED
        BY <2>5, <2>6, <2>7
<1>3. \A n \in Nat : n \in S
    <2> HIDE DEF S
    <2> QED
        BY <1>1, <1>2, Induction
<1> QED
    BY <1>3

\* Where each object has a code, pieces may put something.
LEMMA SpelledSomething ==
    ASSUME NEW L, NEW P, P \subseteq PieceOf(L),
           \A p \in P : p.is = "object" => \E c : Code(L, p.obj, c)
    PROVE  \A A \in Seq(P) : \E b \in Seq(Byte) : Spelled(L, A, b)
<1> DEFINE S == {n \in Nat : \A A \in Seq(P) : Len(A) = n => \E b \in Seq(Byte) : Spelled(L, A, b)}
<1>1. 0 \in S
    <2> SUFFICES ASSUME NEW A \in Seq(P), Len(A) = 0 PROVE \E b \in Seq(Byte) : Spelled(L, A, b)
        OBVIOUS
    <2>1. A = << >> /\ << >> \in Seq(Byte)
        OBVIOUS
    <2> QED
        BY <2>1, SpelledNone
<1>2. ASSUME NEW n \in Nat, n \in S PROVE n + 1 \in S
    <2> SUFFICES ASSUME NEW A \in Seq(P), Len(A) = n + 1 PROVE \E b \in Seq(Byte) : Spelled(L, A, b)
        OBVIOUS
    <2>1. A # << >>
        OBVIOUS
    <2>2. /\ A[1] \in P /\ Tail(A) \in Seq(P) /\ Len(Tail(A)) = n /\ A = <<A[1]>> \o Tail(A)
        BY <2>1, Cut
    <2>3. \E c \in Seq(Byte) : Spells(L, A[1], c)
        <3>1. A[1] \in PieceOf(L)
            BY <2>2
        <3>2. CASE A[1].is = "append" /\ A[1].bytes \in Seq(Byte)
            BY <3>2 DEF Spells
        <3>3. CASE A[1].is = "object"
            BY <2>2, <3>3 DEF Spells, Code
        <3> QED
            BY <3>1, <3>2, <3>3, PieceTyped
    <2>4. PICK c \in Seq(Byte) : Spells(L, A[1], c)
        BY <2>3
    <2>5. PICK d \in Seq(Byte) : Spelled(L, Tail(A), d)
        BY <1>2, <2>2
    <2>6. Spelled(L, <<A[1]>> \o Tail(A), c \o d) /\ c \o d \in Seq(Byte)
        BY <2>2, <2>4, <2>5, SpelledFirst, ConcatIs, Zenon
    <2> QED
        BY <2>2, <2>6, Zenon
<1>3. \A n \in Nat : n \in S
    <2> HIDE DEF S
    <2> QED
        BY <1>1, <1>2, Induction
<1> QED
    BY <1>3

\* One piece.
LEMMA SpelledOne ==
    ASSUME NEW L, NEW p, NEW c
    PROVE  /\ c \in Seq(Byte) /\ Spells(L, p, c) => Spelled(L, <<p>>, c)
           /\ Spelled(L, <<p>>, c) => c \in Seq(Byte) /\ Spells(L, p, c)
<1> DEFINE P == {p}
<1>1. /\ p \in P /\ << >> \in Seq(P) /\ <<p>> \in Seq(P) /\ <<p>> # << >> /\ <<p>>[1] = p
      /\ Tail(<<p>>) = << >> /\ <<p>> \o << >> = <<p>> /\ << >> \in Seq(Byte)
    OBVIOUS
<1> HIDE DEF P
<1>2. ASSUME c \in Seq(Byte), Spells(L, p, c) PROVE Spelled(L, <<p>>, c)
    <2>1. Spelled(L, <<p>> \o << >>, c \o << >>)
        BY <1>1, <1>2, SpelledFirst, SpelledNone
    <2>2. c \o << >> = c
        BY <1>2
    <2> QED
        BY <1>1, <2>1, <2>2
<1>3. ASSUME Spelled(L, <<p>>, c) PROVE c \in Seq(Byte) /\ Spells(L, p, c)
    <2>1. PICK x \in Seq(Byte), y \in Seq(Byte) :
              Spells(L, <<p>>[1], x) /\ Spelled(L, Tail(<<p>>), y) /\ c = x \o y
        <3>1. FirstPuts(L, <<p>>, c)
            BY <1>1, <1>3, SpelledTail
        <3> QED
            BY <3>1 DEF FirstPuts
    <2>2. y = << >>
        BY <1>1, <2>1, SpelledNone
    <2>3. c = x
        BY <2>1, <2>2
    <2> QED
        BY <1>1, <2>1, <2>3
<1> QED
    BY <1>2, <1>3

-----------------------------------------------------------------------------
(* Reading a list of objects. *)

\* The pieces that stand for the objects of a list.
Objs(os) == [i \in DOMAIN os |-> object(os[i])]

LEMMA ObjsIs ==
    ASSUME NEW U, NEW os \in Seq(U)
    PROVE  /\ Objs(os) \in Seq({object(o) : o \in U}) /\ Len(Objs(os)) = Len(os)
           /\ \A i \in 1 .. Len(os) : Objs(os)[i] = object(os[i])
           /\ os = << >> => Objs(os) = << >>
           /\ os # << >> => /\ Objs(os) # << >> /\ Objs(os)[1] = object(os[1])
                            /\ Tail(Objs(os)) = Objs(Tail(os))
<1> DEFINE V == {object(o) : o \in U}
           q == Objs(os)
           n == Len(os)
<1>1. n \in Nat /\ DOMAIN os = 1 .. n /\ \A i \in 1 .. n : os[i] \in U
    OBVIOUS
<1>2. \A i \in 1 .. n : object(os[i]) \in V
    BY <1>1
<1>3. q = [i \in 1 .. n |-> object(os[i])]
    BY <1>1 DEF Objs
<1> HIDE DEF V, q
<1>4. q \in Seq(V) /\ Len(q) = n /\ \A i \in 1 .. n : q[i] = object(os[i])
    <2>1. q \in [1 .. n -> V]
        BY <1>2, <1>3
    <2> QED
        BY <1>1, <1>3, <2>1
<1>5. ASSUME os = << >> PROVE q = << >>
    BY <1>4, <1>5
<1>6. ASSUME os # << >> PROVE q # << >> /\ q[1] = object(os[1]) /\ Tail(q) = Objs(Tail(os))
    <2>1. n >= 1 /\ 1 \in 1 .. n
        BY <1>1, <1>6
    <2>2. q # << >> /\ q[1] = object(os[1])
        BY <1>4, <2>1
    <2>3. /\ Tail(os) \in Seq(U) /\ Len(Tail(os)) = n - 1 /\ DOMAIN Tail(os) = 1 .. n - 1
          /\ \A i \in 1 .. n - 1 : Tail(os)[i] = os[i + 1]
        BY <1>6
    <2> DEFINE r == Objs(Tail(os))
    <2>4. r = [i \in 1 .. n - 1 |-> object(Tail(os)[i])]
        BY <2>3 DEF Objs
    <2> HIDE DEF r
    <2>5. /\ Tail(q) \in Seq(V) /\ Len(Tail(q)) = n - 1
          /\ \A i \in 1 .. n - 1 : Tail(q)[i] = q[i + 1]
        BY <1>4, <2>2
    <2>6. \A i \in 1 .. n - 1 : Tail(q)[i] = object(Tail(os)[i])
        <3> TAKE i \in 1 .. n - 1
        <3>1. i + 1 \in 1 .. n
            BY <1>1
        <3> QED
            BY <1>4, <2>3, <2>5, <3>1
    <2>7. \A i \in 1 .. n - 1 : object(Tail(os)[i]) \in V
        BY <2>5, <2>6, ElementOfSeq
    <2>8. r \in Seq(V) /\ Len(r) = n - 1 /\ \A i \in 1 .. n - 1 : r[i] = object(Tail(os)[i])
        <3> DEFINE l == n - 1
        <3>1. l \in Nat
            BY <2>1
        <3> HIDE DEF l
        <3>2. r = [i \in 1 .. l |-> object(Tail(os)[i])] /\ \A i \in 1 .. l : object(Tail(os)[i]) \in V
            BY <2>4, <2>7 DEF l
        <3>3. r \in [1 .. l -> V]
            BY <3>2
        <3>4. r \in Seq(V) /\ Len(r) = l
            BY <3>1, <3>3
        <3>5. \A i \in 1 .. l : r[i] = object(Tail(os)[i])
            BY <3>2
        <3> QED
            BY <3>4, <3>5 DEF l
    <2>9. Tail(q) = r
        BY <2>5, <2>6, <2>8, SeqEqual
    <2> QED
        BY <2>2, <2>9 DEF r
<1> QED
    BY <1>4, <1>5, <1>6 DEF q, V

\* Bytes one behind the other stand one behind the other.
LEMMA AtBoth ==
    ASSUME NEW s \in Seq(Byte), NEW i \in Nat \ {0}, NEW c \in Seq(Byte), NEW d \in Seq(Byte),
           At(s, i, c \o d)
    PROVE  At(s, i, c) /\ At(s, i + Len(c), d)
<1> DEFINE n == Len(c)
           m == Len(d)
           b == c \o d
<1>1. n \in Nat /\ m \in Nat /\ Len(s) \in Nat /\ Len(b) = n + m
      /\ (\A j \in 1 .. n : b[j] = c[j]) /\ (\A j \in 1 .. m : b[n + j] = d[j])
    OBVIOUS
<1> HIDE DEF b
<1>2. \A j \in 1 .. n + m : i + j - 1 <= Len(s) => s[i + j - 1] = b[j]
    BY <1>1 DEF At, b
<1>3. \A j \in 1 .. n : j \in 1 .. n + m
    BY <1>1
<1>4. \A j \in 1 .. m : n + j \in 1 .. n + m /\ i + (n + j) - 1 = (i + n) + j - 1
    BY <1>1
<1>5. At(s, i, c)
    BY <1>1, <1>2, <1>3 DEF At
<1>6. \A j \in 1 .. m : (i + n) + j - 1 <= Len(s) => s[(i + n) + j - 1] = d[j]
    BY <1>1, <1>2, <1>4
<1> QED
    BY <1>5, <1>6 DEF At

\* A reader of n objects at level k, n the length of os, finds those.
ListRead(k, os, b) ==
    \A s \in Seq(Byte) : \A i \in 1 .. Len(s) + 1 : \A m \in Nat :
        At(s, i, b) /\ m + i >= Len(s) + 1 => Many(s, i, k, m, Len(os)) = Found(s, i, b, os)

NoMore(s, i, k, m, n) ==
    /\ Many(s, i, k, m, 0) = Reader!Ok(<< >>, i)
    /\ n # 0 => Many(s, i, k, 0, n) = Reader!Not("more")

LEMMA NoMoreThere == \A s : \A i, k, m, n \in Nat : NoMore(s, i, k, m, n)
<1> SUFFICES ASSUME NEW s, NEW i \in Nat, NEW k \in Nat, NEW m \in Nat, NEW n \in Nat
             PROVE  /\ Many(s, i, k, m, 0) = Reader!Ok(<< >>, i)
                    /\ n # 0 => Many(s, i, k, 0, n) = Reader!Not("more")
    BY DEF NoMore
<1> DEFINE F == Reader!Series(s, Len(s))
<1>1. F[0] = None /\ \A l \in Nat : F[l + 1] = More(s, Len(s), F[l])
    BY SeriesIs
<1>2. /\ \A x : More(s, Len(s), x)[i][k][0] = Reader!Ok(<< >>, i)
      /\ None[i][k][0] = Reader!Ok(<< >>, i)
      /\ n # 0 => None[i][k][n] = Reader!Not("more")
    BY NoneAt, MoreAt, 0 \in Nat
<1>3. F[m][i][k][0] = Reader!Ok(<< >>, i) /\ (n # 0 => F[0][i][k][n] = Reader!Not("more"))
    <2> HIDE DEF F
    <2>1. m = 0 \/ (m - 1 \in Nat /\ (m - 1) + 1 = m)
        OBVIOUS
    <2> QED
        BY <1>1, <1>2, <2>1
<1> QED
    BY <1>3, Zenon DEF Many

LEMMA ManyNone ==
    \A s : \A i, k, m, n \in Nat :
        /\ Many(s, i, k, m, 0) = Reader!Ok(<< >>, i)
        /\ n # 0 => Many(s, i, k, 0, n) = Reader!Not("more")
<1> TAKE s
<1> TAKE i, k, m, n \in Nat
<1>1. NoMore(s, i, k, m, n)
    BY NoMoreThere
<1> QED
    BY <1>1 DEF NoMore

LEMMA ManyAtEnd == \A s : \A i, k, n \in Nat : n # 0 => Many(s, i, k, 0, n) = Reader!Not("more")
<1> TAKE s
<1> TAKE i, k, n \in Nat
<1>1. NoMore(s, i, k, 0, n)
    BY NoMoreThere, 0 \in Nat
<1> QED
    BY <1>1 DEF NoMore

\* The first of n + 1 objects, and n more behind it.
ManyIs(s, i, k, m, n) ==
    LET r    == One(s, i, k, m)
        rest == Many(s, r.next, k, m, n)
        x    == Many(s, i, k, m + 1, n + 1)
    IN  /\ r.is # "ok" => x = r
        /\ r.is = "ok" /\ rest.is # "ok" => x = rest
        /\ r.is = "ok" /\ rest.is = "ok" => x = Reader!Ok(<<r.obj>> \o rest.obj, rest.next)

LEMMA ManyMore == \A s : \A i, k, m, n \in Nat : ManyIs(s, i, k, m, n)
<1> SUFFICES ASSUME NEW s, NEW i \in Nat, NEW k \in Nat, NEW m \in Nat, NEW n \in Nat
             PROVE  ManyIs(s, i, k, m, n)
    OBVIOUS
<1> DEFINE F == Reader!Series(s, Len(s))
           r == One(s, i, k, m)
           rest == Many(s, r.next, k, m, n)
           x == Many(s, i, k, m + 1, n + 1)
<1>1. F[m + 1] = More(s, Len(s), F[m])
    BY SeriesIs
<1>2. n + 1 \in Nat /\ n + 1 # 0 /\ (n + 1) - 1 = n
    OBVIOUS
<1>3. More(s, Len(s), F[m])[i][k][n + 1] = Reader!Behind(Reader!Whole(Reader!Front(s, Len(s), i), k, F[m]), k, n, F[m])
    BY <1>2, MoreAt
<1>4. x = Reader!Behind(r, k, n, F[m])
    <2>1. x = F[m + 1][i][k][n + 1] /\ r = Reader!Whole(Reader!Front(s, Len(s), i), k, F[m])
        BY Zenon DEF Many, One
    <2> HIDE DEF x, r, F
    <2> QED
        BY <1>1, <1>3, <2>1
<1>6. rest = F[m][r.next][k][n]
    BY ZenonT(60) DEF Many
<1> HIDE DEF x, r, F, rest
<1>7. /\ r.is # "ok" => x = r
      /\ r.is = "ok" /\ rest.is # "ok" => x = rest
      /\ r.is = "ok" /\ rest.is = "ok" => x = Reader!Ok(<<r.obj>> \o rest.obj, rest.next)
    BY <1>4, <1>6 DEF Reader!Behind
<1> QED
    BY <1>7, Zenon DEF ManyIs, x, r, rest

LEMMA FoundIs ==
    \A s, i, c, x :
        /\ There(s, i, c) => /\ Found(s, i, c, x) = Reader!Ok(x, i + Len(c))
                             /\ Found(s, i, c, x).is = "ok" /\ Found(s, i, c, x).obj = x
                             /\ Found(s, i, c, x).next = i + Len(c)
        /\ ~There(s, i, c) => /\ Found(s, i, c, x) = Reader!Not("more")
                              /\ Found(s, i, c, x).is = "more"
BY OutcomeIs DEF Found

LEMMA ListReadNone == \A k \in Nat : ListRead(k, << >>, << >>)
<1> SUFFICES ASSUME NEW k \in Nat, NEW s \in Seq(Byte), NEW i \in 1 .. Len(s) + 1, NEW m \in Nat
             PROVE  Many(s, i, k, m, Len(<< >>)) = Found(s, i, << >>, << >>)
    BY DEF ListRead
<1>1. i \in Nat /\ i + Len(<< >>) - 1 <= Len(s) /\ i + Len(<< >>) = i /\ Len(<< >>) = 0
    OBVIOUS
<1>2. Many(s, i, k, m, 0) = Reader!Ok(<< >>, i)
    BY <1>1, ManyNone, ZenonT(60)
<1>3. There(s, i, << >>)
    BY <1>1 DEF There
<1> QED
    BY <1>1, <1>2, <1>3, FoundIs

LEMMA ListReadFirst ==
    ASSUME NEW L, NEW k \in 0 .. Depth, NEW U, NEW o \in L[k], NEW os \in Seq(U),
           NEW c, Code(L, o, c), NEW d \in Seq(Byte), ListRead(k, os, d), Depth \in Nat
    PROVE  ListRead(k, <<o>> \o os, c \o d)
<1> DEFINE b == c \o d
           all == <<o>> \o os
           n == Len(os)
<1>1. c \in Seq(Byte) /\ c # << >> /\ k \in Nat
    BY DEF Code
<1>2. /\ Len(c) \in Nat /\ Len(c) >= 1 /\ Len(d) \in Nat /\ Len(b) = Len(c) + Len(d)
      /\ n \in Nat /\ Len(all) = n + 1
    BY <1>1
<1> SUFFICES ASSUME NEW s \in Seq(Byte), NEW i \in 1 .. Len(s) + 1, NEW m \in Nat,
                    At(s, i, b), m + i >= Len(s) + 1
             PROVE  Many(s, i, k, m, Len(all)) = Found(s, i, b, all)
    BY DEF ListRead
<1>3. Len(s) \in Nat /\ i \in Nat \ {0}
    OBVIOUS
<1>4. At(s, i, c) /\ At(s, i + Len(c), d)
    BY <1>1, <1>3, AtBoth
<1>5. CASE m = 0
    <2>1. Many(s, i, k, m, n + 1) = Reader!Not("more")
        <3>1. n + 1 \in Nat /\ n + 1 # 0 /\ i \in Nat /\ 0 \in Nat
            BY <1>2
        <3>2. Many(s, i, k, 0, n + 1) = Reader!Not("more")
            BY <1>1, <3>1, ManyAtEnd
        <3> QED
            BY <1>5, <3>2, Zenon
    <2>2. ~There(s, i, b)
        BY <1>2, <1>3, <1>5 DEF There
    <2>3. Found(s, i, b, all) = Reader!Not("more")
        BY <2>2, FoundIs
    <2> QED
        BY <1>2, <2>1, <2>3, Zenon
<1>6. CASE m # 0
    <2> DEFINE r == One(s, i, k, m - 1)
               j == i + Len(c)
               rest == Many(s, j, k, m - 1, n)
               x == Many(s, i, k, m, Len(all))
    <2>1. m - 1 \in Nat /\ (m - 1) + 1 = m /\ (m - 1) + i >= Len(s)
        BY <1>3, <1>6
    <2>2. ManyIs(s, i, k, m - 1, n)
        <3>1. i \in Nat
            BY <1>3
        <3> QED
            BY <1>1, <1>2, <2>1, <3>1, ManyMore, Zenon
    <2>3. r = Found(s, i, c, o)
        BY <1>4, <2>1 DEF Code
    <2>4. /\ r.is # "ok" => x = r
          /\ r.is = "ok" /\ r.next = j /\ rest.is # "ok" => x = rest
          /\ r.is = "ok" /\ r.next = j /\ rest.is = "ok" => x = Reader!Ok(<<r.obj>> \o rest.obj, rest.next)
        <3>1. x = Many(s, i, k, (m - 1) + 1, n + 1)
            BY <1>2, <2>1, Zenon
        <3> HIDE DEF x, r
        <3> QED
            BY <2>2, <3>1, Zenon DEF ManyIs, r
    <2> HIDE DEF r, all, b, x
    <2>5. CASE ~There(s, i, c)
        <3>1. r = Reader!Not("more") /\ r.is = "more"
            BY <2>3, <2>5, FoundIs
        <3>2. ~There(s, i, b)
            BY <1>2, <1>3, <2>5 DEF There
        <3>3. x = r
            BY <2>4, <3>1
        <3>4. Found(s, i, b, all) = Reader!Not("more")
            BY <3>2, FoundIs
        <3> QED
            BY <3>1, <3>3, <3>4 DEF x
    <2>6. CASE There(s, i, c)
        <3>1. r.is = "ok" /\ r.obj = o /\ r.next = j
            BY <2>3, <2>6, FoundIs
        <3>2. j \in 1 .. Len(s) + 1 /\ (m - 1) + j >= Len(s) + 1 /\ j + Len(d) = i + Len(b)
            BY <1>2, <1>3, <2>1, <2>6 DEF There
        <3>3. rest = Found(s, j, d, os)
            BY <1>4, <2>1, <3>2 DEF ListRead
        <3> HIDE DEF rest, j
        <3>4. /\ rest.is # "ok" => x = rest
              /\ rest.is = "ok" => x = Reader!Ok(<<o>> \o rest.obj, rest.next)
            BY <2>4, <3>1
        <3>5. CASE There(s, j, d)
            <4>1. rest.is = "ok" /\ rest.obj = os /\ rest.next = j + Len(d)
                BY <3>3, <3>5, FoundIs
            <4>2. x = Reader!Ok(all, i + Len(b))
                BY <3>2, <3>4, <4>1 DEF all
            <4>3. There(s, i, b)
                BY <3>2, <3>5 DEF There
            <4>4. Found(s, i, b, all) = Reader!Ok(all, i + Len(b))
                BY <4>3, FoundIs
            <4> QED
                BY <4>2, <4>4 DEF x
        <3>6. CASE ~There(s, j, d)
            <4>1. rest = Reader!Not("more") /\ rest.is = "more"
                BY <3>3, <3>6, FoundIs
            <4>2. ~There(s, i, b)
                BY <3>2, <3>6 DEF There
            <4>3. Found(s, i, b, all) = Reader!Not("more")
                BY <4>2, FoundIs
            <4> QED
                BY <3>4, <4>1, <4>3 DEF x
        <3> QED
            BY <3>5, <3>6
    <2> QED
        BY <2>5, <2>6 DEF b, all, x
<1> QED
    BY <1>5, <1>6

\* What the pieces of a list put there is read as that list.
LEMMA ListSpelled ==
    ASSUME NEW L, NEW k \in 0 .. Depth, Depth \in Nat
    PROVE  \A os \in Seq(L[k]) : \A b : Spelled(L, Objs(os), b) => ListRead(k, os, b)
<1> DEFINE U == L[k]
           S == {n \in Nat : \A os \in Seq(U) : Len(os) = n =>
                                \A b : Spelled(L, Objs(os), b) => ListRead(k, os, b)}
<1>1. 0 \in S
    <2> SUFFICES ASSUME NEW os \in Seq(U), Len(os) = 0, NEW b, Spelled(L, Objs(os), b)
                 PROVE  ListRead(k, os, b)
        OBVIOUS
    <2>1. os = << >> /\ k \in Nat
        OBVIOUS
    <2>2. Objs(os) = << >>
        BY <2>1, ObjsIs
    <2>3. b = << >>
        BY <2>2, SpelledNone
    <2> QED
        BY <2>1, <2>3, ListReadNone
<1>2. ASSUME NEW n \in Nat, n \in S PROVE n + 1 \in S
    <2>0. \A os \in Seq(U) : Len(os) = n => \A b : Spelled(L, Objs(os), b) => ListRead(k, os, b)
        BY <1>2
    <2> SUFFICES ASSUME NEW os \in Seq(U), Len(os) = n + 1, NEW b, Spelled(L, Objs(os), b)
                 PROVE  ListRead(k, os, b)
        OBVIOUS
    <2>1. os # << >>
        OBVIOUS
    <2>2. os[1] \in U /\ Tail(os) \in Seq(U) /\ Len(Tail(os)) = n /\ os = <<os[1]>> \o Tail(os)
        BY <2>1, Cut
    <2> DEFINE V == {object(o) : o \in U}
               A == Objs(os)
    <2>3. A \in Seq(V) /\ A # << >> /\ A[1] = object(os[1]) /\ Tail(A) = Objs(Tail(os))
        <3> HIDE DEF A, V
        <3>1. Objs(os) \in Seq({object(o) : o \in U})
            BY ObjsIs, Zenon
        <3>2. Objs(os) # << >> /\ Objs(os)[1] = object(os[1]) /\ Tail(Objs(os)) = Objs(Tail(os))
            BY <2>1, ObjsIs, ZenonT(60)
        <3>3. A = Objs(os)
            BY DEF A
        <3>4. A \in Seq(V)
            BY <3>1, Zenon DEF A, V
        <3> QED
            BY <3>2, <3>3, <3>4
    <2> HIDE DEF V
    <2>4. PICK c \in Seq(Byte), d \in Seq(Byte) :
              Spells(L, A[1], c) /\ Spelled(L, Tail(A), d) /\ b = c \o d
        <3>1. FirstPuts(L, A, b)
            BY <2>3, SpelledTail
        <3> QED
            BY <3>1 DEF FirstPuts
    <2> HIDE DEF A
    <2>5. Code(L, os[1], c)
        BY <2>3, <2>4, PieceIs DEF Spells
    <2>6. ListRead(k, Tail(os), d)
        BY <2>0, <2>2, <2>3, <2>4
    <2>7. ListRead(k, <<os[1]>> \o Tail(os), c \o d)
        BY <2>2, <2>4, <2>5, <2>6, ListReadFirst
    <2> QED
        BY <2>2, <2>4, <2>7
<1>3. \A n \in Nat : n \in S
    <2> HIDE DEF S
    <2> QED
        BY <1>1, <1>2, Induction
<1> QED
    BY <1>3
-----------------------------------------------------------------------------
(* Codes of objects. *)

\* The bytes h open a container of n items.
Header(h, type, n) ==
    /\ h \in Seq(Byte) /\ h # << >>
    /\ \A s \in Seq(Byte) : \A i \in 1 .. Len(s) + 1 : At(s, i, h) =>
          Reader!Front(s, Len(s), i) =
              IF There(s, i, h) THEN Reader!Opens(type, n, i + Len(h)) ELSE Reader!Not("more")

\* The bytes c are an object that has none in it.
Alone(o, c) ==
    /\ c \in Seq(Byte) /\ c # << >>
    /\ \A s \in Seq(Byte) : \A i \in 1 .. Len(s) + 1 : At(s, i, c) =>
          Reader!Front(s, Len(s), i) = Found(s, i, c, o)

LEMMA AloneCode == ASSUME NEW L, NEW o, NEW c, Alone(o, c) PROVE Code(L, o, c)
<1> SUFFICES ASSUME NEW k \in 0 .. Depth, NEW s \in Seq(Byte), NEW i \in 1 .. Len(s) + 1,
                    NEW m \in Nat, At(s, i, c)
             PROVE  One(s, i, k, m) = Found(s, i, c, o)
    BY DEF Code, Alone
<1>1. Reader!Front(s, Len(s), i) = Found(s, i, c, o)
    BY DEF Alone
<1>2. Found(s, i, c, o).is # "open"
    BY FoundIs
<1>3. One(s, i, k, m) = Reader!Front(s, Len(s), i)
    BY <1>1, <1>2 DEF One, Reader!Whole
<1> QED
    BY <1>1, <1>3

LEMMA SeqAlso ==
    ASSUME NEW U, NEW S, NEW os \in Seq(U), \A j \in 1 .. Len(os) : os[j] \in S
    PROVE  os \in Seq(S)
<1>1. Len(os) \in Nat /\ os \in [1 .. Len(os) -> U]
    OBVIOUS
<1>2. os \in [1 .. Len(os) -> S]
    BY <1>1
<1> QED
    BY <1>1, <1>2, SeqDef

LEMMA ContainerCode ==
    ASSUME NEW L, Depth \in Nat, NEW U, NEW os \in Seq(U), NEW type \in {"array", "map"}, NEW n,
           Len(os) = (IF type = "map" THEN 2 * n ELSE n),
           NEW o, o = <<type, IF type = "map" THEN Reader!Pairs(os) ELSE os>>,
           \A k \in 0 .. Depth : o \in L[k] => k # Depth /\ \A j \in 1 .. Len(os) : os[j] \in L[k + 1],
           NEW h, Header(h, type, n), NEW d, Spelled(L, Objs(os), d)
    PROVE  Code(L, o, h \o d)
<1> DEFINE c == h \o d
<1>1. h \in Seq(Byte) /\ h # << >> /\ d \in Seq(Byte)
    <2>1. Len(Objs(os)) \in Nat
        BY ObjsIs
    <2> QED
        BY <2>1, SpelledIn DEF Header
<1>2. c \in Seq(Byte) /\ c # << >> /\ Len(c) = Len(h) + Len(d) /\ Len(h) >= 1
      /\ Len(h) \in Nat /\ Len(d) \in Nat
    BY <1>1
<1> SUFFICES ASSUME NEW k \in 0 .. Depth, o \in L[k], NEW s \in Seq(Byte), NEW i \in 1 .. Len(s) + 1,
                    NEW m \in Nat, At(s, i, c), m + i >= Len(s)
             PROVE  One(s, i, k, m) = Found(s, i, c, o)
    BY <1>2 DEF Code
<1>3. i \in Nat \ {0} /\ Len(s) \in Nat
    OBVIOUS
<1>4. At(s, i, h) /\ At(s, i + Len(h), d)
    BY <1>1, <1>3, AtBoth
<1> HIDE DEF c
<1> DEFINE f == Reader!Front(s, Len(s), i)
           F == Reader!Series(s, Len(s))
<1>5. f = IF There(s, i, h) THEN Reader!Opens(type, n, i + Len(h)) ELSE Reader!Not("more")
    BY <1>4 DEF Header
<1>6. One(s, i, k, m) = Reader!Whole(f, k, F[m])
    BY Zenon DEF One
<1> HIDE DEF f
<1>7. CASE ~There(s, i, h)
    <2>1. f = Reader!Not("more") /\ f.is = "more"
        BY <1>5, <1>7, OutcomeIs
    <2>2. One(s, i, k, m) = f
        BY <1>6, <2>1 DEF Reader!Whole
    <2>3. ~There(s, i, c)
        BY <1>2, <1>3, <1>7 DEF There
    <2> QED
        BY <2>1, <2>2, <2>3, FoundIs
<1>8. CASE There(s, i, h)
    <2> DEFINE j == i + Len(h)
               r == Many(s, j, k + 1, m, Len(os))
    <2>1. f = Reader!Opens(type, n, j) /\ f.is = "open" /\ f.type = type /\ f.n = n /\ f.next = j
        BY <1>5, <1>8, OutcomeIs
    <2>2. k # Depth /\ ~(k >= Depth) /\ k + 1 \in 0 .. Depth /\ \A l \in 1 .. Len(os) : os[l] \in L[k + 1]
        OBVIOUS
    <2>3. One(s, i, k, m) = Reader!Made(type, r)
        <3>1. r = F[m][j][k + 1][Len(os)]
            BY Zenon DEF Many
        <3> HIDE DEF r, j, F
        <3> QED
            BY <1>6, <2>1, <2>2, <3>1 DEF Reader!Whole
    <2>4. j \in 1 .. Len(s) + 1 /\ m + j >= Len(s) + 1 /\ j + Len(d) = i + Len(c)
        <3>1. i + Len(h) - 1 <= Len(s) /\ m + i >= Len(s) /\ i \in Nat \ {0}
            BY <1>3, <1>8 DEF There
        <3> HIDE DEF r
        <3> QED
            BY <1>2, <1>3, <3>1
    <2>5. r = Found(s, j, d, os)
        <3>1. os \in Seq(L[k + 1])
            BY <2>2, SeqAlso
        <3>2. ListRead(k + 1, os, d)
            BY <2>2, <3>1, ListSpelled
        <3> QED
            BY <1>4, <2>4, <3>2 DEF ListRead
    <2> HIDE DEF r, j
    <2>6. CASE There(s, j, d)
        <3>1. r = Reader!Ok(os, j + Len(d)) /\ r.is = "ok" /\ r.obj = os /\ r.next = j + Len(d)
            BY <2>5, <2>6, FoundIs
        <3>2. Reader!Made(type, r) = Reader!Ok(o, i + Len(c))
            BY <2>4, <3>1 DEF Reader!Made
        <3>3. There(s, i, c)
            BY <2>4, <2>6 DEF There
        <3> QED
            BY <2>3, <3>2, <3>3, FoundIs
    <2>7. CASE ~There(s, j, d)
        <3>1. r = Reader!Not("more") /\ r.is = "more"
            BY <2>5, <2>7, FoundIs
        <3>2. Reader!Made(type, r) = r
            BY <3>1 DEF Reader!Made
        <3>3. ~There(s, i, c)
            BY <2>4, <2>7 DEF There
        <3> QED
            BY <2>3, <3>1, <3>2, <3>3, FoundIs
    <2> QED
        BY <2>6, <2>7
<1> QED
    BY <1>7, <1>8

-----------------------------------------------------------------------------
(* Numbers and their bytes. *)

\* The number that bytes say, when g[j] is what the first j of them say.
SaysUpTo(bs, g, m) == g[0] = 0 /\ \A j \in 0 .. m - 1 : g[j + 1] = 256 * g[j] + bs[j + 1]

LEMMA SaysNumber ==
    \A bs, g : \A m \in Nat : Len(bs) = m /\ SaysUpTo(bs, g, m) => Reader!BigEndian(bs) = g[m]
<1> SUFFICES ASSUME NEW bs, NEW g, NEW m \in Nat, Len(bs) = m, SaysUpTo(bs, g, m)
             PROVE  Reader!BigEndian(bs) = g[m]
    OBVIOUS
<1>0. g[0] = 0 /\ \A j \in 0 .. m - 1 : g[j + 1] = 256 * g[j] + bs[j + 1]
    BY DEF SaysUpTo
<1>1. PICK f : /\ f[0] = 0
               /\ \A n \in Nat : f[n + 1] = 256 * f[n] + bs[n + 1]
               /\ Reader!BigEndian(bs) = f[Len(bs)]
    BY BigEndianIs
<1> DEFINE S == {n \in Nat : n <= m => f[n] = g[n]}
<1>2. 0 \in S
    BY <1>0, <1>1
<1>3. ASSUME NEW n \in Nat, n \in S PROVE n + 1 \in S
    <2> SUFFICES ASSUME n + 1 <= m PROVE f[n + 1] = g[n + 1]
        OBVIOUS
    <2>1. n <= m /\ n \in 0 .. m - 1
        OBVIOUS
    <2>2. f[n] = g[n]
        BY <1>3, <2>1
    <2>3. f[n + 1] = 256 * f[n] + bs[n + 1]
        BY <1>1
    <2>4. g[n + 1] = 256 * g[n] + bs[n + 1]
        BY <1>0, <2>1
    <2> QED
        BY <2>2, <2>3, <2>4
<1>4. \A n \in Nat : n \in S
    <2> HIDE DEF S
    <2> QED
        BY <1>2, <1>3, Induction
<1> QED
    BY <1>1, <1>4

\* N[j] is n without its j low bytes.
Shorter(n, N) == N[0] = n /\ \A j \in 0 .. 7 : N[j + 1] = N[j] \div 256
Shortened(n) ==
    LET n1 == n \div 256   n2 == n1 \div 256   n3 == n2 \div 256   n4 == n3 \div 256
        n5 == n4 \div 256  n6 == n5 \div 256   n7 == n6 \div 256
    IN  [j \in 0 .. 8 |-> <<n, n1, n2, n3, n4, n5, n6, n7, n7 \div 256>>[j + 1]]

LEMMA ByteDiv ==
    \A n \in Nat : /\ n \div 256 \in Nat /\ n % 256 \in Byte /\ n = 256 * (n \div 256) + (n % 256)
                   /\ n \div 65536 = (n \div 256) \div 256
BY DEF Byte

LEMMA DigitsAre ==
    ASSUME NEW n \in Nat
    PROVE  /\ Shorter(n, Shortened(n)) /\ \A j \in 0 .. 8 : Shortened(n)[j] \in Nat
           /\ Digits(n) \in Seq(Byte) /\ Len(Digits(n)) = 8
           /\ \A i \in 1 .. 8 : Digits(n)[i] = Shortened(n)[8 - i] % 256
<1> DEFINE n1 == n \div 256   n2 == n1 \div 256   n3 == n2 \div 256   n4 == n3 \div 256
           n5 == n4 \div 256  n6 == n5 \div 256   n7 == n6 \div 256   n8 == n7 \div 256
           N == Shortened(n)
           d == Digits(n)
<1>1. n1 \in Nat /\ n % 256 \in Byte
    BY ByteDiv
<1>2. n2 \in Nat /\ n1 % 256 \in Byte
    <2> HIDE DEF n1
    <2> QED
        BY <1>1, ByteDiv
<1>3. n3 \in Nat /\ n2 % 256 \in Byte
    <2> HIDE DEF n2
    <2> QED
        BY <1>2, ByteDiv
<1>4. n4 \in Nat /\ n3 % 256 \in Byte
    <2> HIDE DEF n3
    <2> QED
        BY <1>3, ByteDiv
<1>5. n5 \in Nat /\ n4 % 256 \in Byte
    <2> HIDE DEF n4
    <2> QED
        BY <1>4, ByteDiv
<1>6. n6 \in Nat /\ n5 % 256 \in Byte
    <2> HIDE DEF n5
    <2> QED
        BY <1>5, ByteDiv
<1>7. n7 \in Nat /\ n6 % 256 \in Byte
    <2> HIDE DEF n6
    <2> QED
        BY <1>6, ByteDiv
<1>8. n8 \in Nat /\ n7 % 256 \in Byte
    <2> HIDE DEF n7
    <2> QED
        BY <1>7, ByteDiv
<1>9. N = [j \in 0 .. 8 |-> <<n, n1, n2, n3, n4, n5, n6, n7, n8>>[j + 1]]
    BY Zenon DEF Shortened
<1>10. d = <<n7 % 256, n6 % 256, n5 % 256, n4 % 256, n3 % 256, n2 % 256, n1 % 256, n % 256>>
    BY Zenon DEF Digits
<1>11. /\ n1 = n \div 256 /\ n2 = n1 \div 256 /\ n3 = n2 \div 256 /\ n4 = n3 \div 256
       /\ n5 = n4 \div 256 /\ n6 = n5 \div 256 /\ n7 = n6 \div 256 /\ n8 = n7 \div 256
    OBVIOUS
<1> HIDE DEF n1, n2, n3, n4, n5, n6, n7, n8, N, d
<1>12. /\ N[0] = n /\ N[1] = n1 /\ N[2] = n2 /\ N[3] = n3 /\ N[4] = n4 /\ N[5] = n5 /\ N[6] = n6
       /\ N[7] = n7 /\ N[8] = n8
    BY <1>9
<1>13. \A j \in 0 .. 8 : j = 0 \/ j = 1 \/ j = 2 \/ j = 3 \/ j = 4 \/ j = 5 \/ j = 6 \/ j = 7 \/ j = 8
    OBVIOUS
<1>14. Shorter(n, N)
    <2>0. N[1] = N[0] \div 256
        <3>1. N[1] = n1 /\ N[0] = n /\ n1 = n \div 256
            BY <1>11, <1>12, Zenon
        <3> QED
            BY <3>1, Zenon
    <2>1. N[2] = N[1] \div 256
        <3>1. N[2] = n2 /\ N[1] = n1 /\ n2 = n1 \div 256
            BY <1>11, <1>12, Zenon
        <3> QED
            BY <3>1, Zenon
    <2>2. N[3] = N[2] \div 256
        <3>1. N[3] = n3 /\ N[2] = n2 /\ n3 = n2 \div 256
            BY <1>11, <1>12, Zenon
        <3> QED
            BY <3>1, Zenon
    <2>3. N[4] = N[3] \div 256
        <3>1. N[4] = n4 /\ N[3] = n3 /\ n4 = n3 \div 256
            BY <1>11, <1>12, Zenon
        <3> QED
            BY <3>1, Zenon
    <2>4. N[5] = N[4] \div 256
        <3>1. N[5] = n5 /\ N[4] = n4 /\ n5 = n4 \div 256
            BY <1>11, <1>12, Zenon
        <3> QED
            BY <3>1, Zenon
    <2>5. N[6] = N[5] \div 256
        <3>1. N[6] = n6 /\ N[5] = n5 /\ n6 = n5 \div 256
            BY <1>11, <1>12, Zenon
        <3> QED
            BY <3>1, Zenon
    <2>6. N[7] = N[6] \div 256
        <3>1. N[7] = n7 /\ N[6] = n6 /\ n7 = n6 \div 256
            BY <1>11, <1>12, Zenon
        <3> QED
            BY <3>1, Zenon
    <2>7. N[8] = N[7] \div 256
        <3>1. N[8] = n8 /\ N[7] = n7 /\ n8 = n7 \div 256
            BY <1>11, <1>12, Zenon
        <3> QED
            BY <3>1, Zenon
    <2>8. \A j \in 0 .. 7 : N[j + 1] = N[j] \div 256
        <3> TAKE j \in 0 .. 7
        <3>1. j = 0 \/ j = 1 \/ j = 2 \/ j = 3 \/ j = 4 \/ j = 5 \/ j = 6 \/ j = 7
            OBVIOUS
        <3> QED
            <4> DEFINE Upper(x) == x \div 256
            <4>1. /\ N[1] = Upper(N[0]) /\ N[2] = Upper(N[1]) /\ N[3] = Upper(N[2])
                  /\ N[4] = Upper(N[3]) /\ N[5] = Upper(N[4]) /\ N[6] = Upper(N[5])
                  /\ N[7] = Upper(N[6]) /\ N[8] = Upper(N[7])
                BY <2>0, <2>1, <2>2, <2>3, <2>4, <2>5, <2>6, <2>7, Zenon
            <4> HIDE DEF Upper
            <4>2. N[j + 1] = Upper(N[j])
                BY <3>1, <4>1
            <4> QED
                BY <4>2, Zenon DEF Upper
    <2> QED
        BY <1>12, <2>8 DEF Shorter
<1>15. \A j \in 0 .. 8 : N[j] \in Nat
    BY <1>1, <1>2, <1>3, <1>4, <1>5, <1>6, <1>7, <1>8, <1>12, <1>13
<1>16. d \in Seq(Byte) /\ Len(d) = 8
    BY <1>1, <1>2, <1>3, <1>4, <1>5, <1>6, <1>7, <1>8, <1>10
<1>17. /\ d[1] = n7 % 256 /\ d[2] = n6 % 256 /\ d[3] = n5 % 256 /\ d[4] = n4 % 256
       /\ d[5] = n3 % 256 /\ d[6] = n2 % 256 /\ d[7] = n1 % 256 /\ d[8] = n % 256
    BY <1>10
<1>18. \A i \in 1 .. 8 : d[i] = N[8 - i] % 256
    <2> TAKE i \in 1 .. 8
    <2>1. i = 1 \/ i = 2 \/ i = 3 \/ i = 4 \/ i = 5 \/ i = 6 \/ i = 7 \/ i = 8
        OBVIOUS
    <2> QED
        BY <1>12, <1>17, <2>1
<1> QED
    BY <1>14, <1>15, <1>16, <1>18 DEF N, d

\* What the low bytes of a number say, when it has no others.
LEMMA DigitsSay ==
    ASSUME NEW n \in Nat, Shortened(n)[8] = 0, NEW w \in 1 .. 8, Below(Digits(n), w)
    PROVE  /\ Reader!BigEndian(Low(Digits(n), w)) = n /\ Low(Digits(n), w) \in Seq(Byte)
           /\ Len(Low(Digits(n), w)) = w
<1> DEFINE N == Shortened(n)
           d == Digits(n)
           bs == Low(d, w)
<1>1. N[0] = n /\ \A j \in 0 .. 7 : N[j + 1] = N[j] \div 256
    BY DigitsAre DEF Shorter
<1>2. (\A j \in 0 .. 8 : N[j] \in Nat) /\ d \in Seq(Byte) /\ Len(d) = 8
      /\ \A i \in 1 .. 8 : d[i] = N[8 - i] % 256
    BY DigitsAre
<1>3. bs \in Seq(Byte) /\ Len(bs) = w /\ \A i \in 1 .. w : bs[i] = d[8 - w + i]
    <2>1. w \in 1 .. Len(d)
        BY <1>2
    <2> HIDE DEF d
    <2>2. bs \in Seq(Byte) /\ Len(bs) = w /\ \A i \in 1 .. w : bs[i] = d[Len(d) - w + i]
        BY <1>2, <2>1, LowIs, ZenonT(60)
    <2> QED
        BY <1>2, <2>2
<1>4. \A i \in 1 .. 8 - w : d[i] = 0
    BY <1>2 DEF Below
<1> HIDE DEF N, d, bs
<1>5. \A j \in 0 .. 7 : N[j] = 256 * N[j + 1] + d[8 - j]
    <2> TAKE j \in 0 .. 7
    <2>1. j \in 0 .. 8 /\ 8 - j \in 1 .. 8 /\ 8 - (8 - j) = j
        OBVIOUS
    <2>2. N[j] \in Nat /\ N[j + 1] = N[j] \div 256
        BY <1>1, <1>2, <2>1, ZenonT(60)
    <2>3. d[8 - j] = N[8 - (8 - j)] % 256
        BY <1>2, <2>1, Zenon
    <2>4. d[8 - j] = N[j] % 256
        BY <2>1, <2>3, Zenon
    <2> QED
        BY <2>2, <2>4, ByteDiv
<1> DEFINE S == {l \in Nat : l <= 8 - w => N[8 - l] = 0}
<1>6. 0 \in S
    BY DEF N
<1>7. ASSUME NEW l \in Nat, l \in S PROVE l + 1 \in S
    <2> SUFFICES ASSUME l + 1 <= 8 - w PROVE N[8 - (l + 1)] = 0
        OBVIOUS
    <2>1. l <= 8 - w /\ 8 - (l + 1) \in 0 .. 7 /\ (8 - (l + 1)) + 1 = 8 - l
          /\ 8 - (8 - (l + 1)) = l + 1 /\ l + 1 \in 1 .. 8 - w
        OBVIOUS
    <2>2. N[8 - l] = 0
        BY <1>7, <2>1
    <2>3. N[8 - (l + 1)] = 256 * N[8 - l] + d[l + 1]
        BY <1>5, <2>1
    <2>4. d[l + 1] = 0
        BY <1>4, <2>1
    <2> QED
        BY <2>2, <2>3, <2>4
<1>8. N[w] = 0
    <2>1. \A l \in Nat : l \in S
        <3> HIDE DEF S
        <3> QED
            BY <1>6, <1>7, Induction
    <2>2. 8 - w \in Nat /\ 8 - w <= 8 - w /\ 8 - (8 - w) = w
        OBVIOUS
    <2> QED
        BY <2>1, <2>2
<1> HIDE DEF S
<1> DEFINE g == [j \in 0 .. w |-> N[w - j]]
<1>9. g[0] = 0 /\ g[w] = n
    BY <1>1, <1>8
<1>10. \A j \in 0 .. w - 1 : g[j + 1] = 256 * g[j] + bs[j + 1]
    <2> TAKE j \in 0 .. w - 1
    <2>1. /\ j \in 0 .. w /\ j + 1 \in 0 .. w /\ w - (j + 1) \in 0 .. 7 /\ (w - (j + 1)) + 1 = w - j
          /\ 8 - (w - (j + 1)) = 8 - w + (j + 1) /\ j + 1 \in 1 .. w
        OBVIOUS
    <2>2. g[j + 1] = N[w - (j + 1)] /\ g[j] = N[w - j]
        BY <2>1
    <2>3. N[w - (j + 1)] = 256 * N[w - j] + d[8 - w + (j + 1)]
        BY <1>5, <2>1
    <2>4. bs[j + 1] = d[8 - w + (j + 1)]
        BY <1>3, <2>1
    <2> HIDE DEF g
    <2> QED
        BY <2>2, <2>3, <2>4
<1> HIDE DEF g
<1>11. Reader!BigEndian(bs) = g[w]
    <2>1. w \in Nat
        OBVIOUS
    <2> QED
        <3>1. SaysUpTo(bs, g, w)
            BY <1>9, <1>10 DEF SaysUpTo
        <3> QED
            BY <1>3, <2>1, <3>1, SaysNumber, Zenon
<1> QED
    BY <1>3, <1>9, <1>11 DEF bs, d

\* Numbers below 2^32, 2^63 and 2^64.
LEMMA SmallShort ==
    ASSUME NEW n \in Nat
    PROVE  /\ SizeFits(n) => \A j \in 4 .. 8 : Shortened(n)[j] = 0
           /\ SizeFits((n \div 65536) \div 65536) => Shortened(n)[8] = 0
           /\ ((n \div 65536) \div 65536) \div 65536 < 32768 =>
                  Shortened(n)[8] = 0 /\ Shortened(n)[7] < 128
<1> DEFINE N == Shortened(n)
<1>1. N[0] = n /\ \A j \in 0 .. 7 : N[j + 1] = N[j] \div 256
    BY DigitsAre DEF Shorter
<1>2. \A j \in 0 .. 8 : N[j] \in Nat
    BY DigitsAre
<1> HIDE DEF N
<1>3. \A j \in 0 .. 6 : N[j] \div 65536 = N[j + 2]
    <2> TAKE j \in 0 .. 6
    <2>1. j \in 0 .. 7 /\ j + 1 \in 0 .. 7 /\ (j + 1) + 1 = j + 2 /\ j \in 0 .. 8
        OBVIOUS
    <2> QED
        BY <1>1, <1>2, <2>1, ByteDiv, SMTT(30)
<1>4. /\ N[2] = n \div 65536 /\ N[4] = N[2] \div 65536 /\ N[6] = N[4] \div 65536
      /\ N[8] = N[6] \div 65536
    BY <1>1, <1>3
<1>5. /\ N[5] = N[4] \div 256 /\ N[6] = N[5] \div 256 /\ N[7] = N[6] \div 256 /\ N[8] = N[7] \div 256
    BY <1>1
<1>6. ASSUME SizeFits(n) PROVE \A j \in 4 .. 8 : N[j] = 0
    <2>1. N[4] = 0
        BY <1>4, <1>6 DEF SizeFits
    <2>2. N[5] = 0
        BY <1>5, <2>1
    <2>3. N[6] = 0
        BY <1>5, <2>2
    <2>4. N[7] = 0
        BY <1>5, <2>3
    <2>5. N[8] = 0
        BY <1>5, <2>4
    <2> QED
        BY <2>1, <2>2, <2>3, <2>4, <2>5
<1>7. ASSUME SizeFits((n \div 65536) \div 65536) PROVE N[8] = 0
    BY <1>4, <1>7 DEF SizeFits
<1>8. ASSUME ((n \div 65536) \div 65536) \div 65536 < 32768 PROVE N[8] = 0 /\ N[7] < 128
    <2>1. N[6] < 32768 /\ N[6] \in Nat
        BY <1>2, <1>4, <1>8
    <2>2. N[7] < 128 /\ N[7] \in Nat
        BY <1>2, <1>5, <2>1
    <2>3. N[8] = 0
        BY <1>5, <2>2
    <2> QED
        BY <2>2, <2>3
<1> QED
    BY <1>6, <1>7, <1>8 DEF N

\* A size is written in full.
LEMMA SizeSays ==
    ASSUME NEW n \in Nat, SizeFits(n)
    PROVE  /\ Int64(n) \in SizeT
           /\ \A w \in {1, 2, 4} : Below(Int64(n), w) => Reader!BigEndian(Low(Int64(n), w)) = n
           /\ Below(Int64(n), 1) => n = Last(Int64(n))
<1> DEFINE d == Digits(n)
           N == Shortened(n)
<1>1. Int64(n) = d
    BY DEF Int64
<1>2. d \in Seq(Byte) /\ Len(d) = 8 /\ \A i \in 1 .. 8 : d[i] = N[8 - i] % 256
    BY DigitsAre
<1>3. \A j \in 4 .. 8 : N[j] = 0
    BY SmallShort
<1>4. N[0] = n /\ \A j \in 0 .. 7 : N[j + 1] = N[j] \div 256
    BY DigitsAre DEF Shorter
<1> HIDE DEF d, N
<1>5. Below(d, 4)
    <2>1. \A i \in 1 .. 4 : d[i] = 0
        <3> TAKE i \in 1 .. 4
        <3>1. 8 - i \in 4 .. 8 /\ i \in 1 .. 8
            OBVIOUS
        <3>2. d[i] = 0 % 256
            BY <1>2, <1>3, <3>1
        <3> QED
            BY <3>2
    <2> QED
        BY <1>2, <2>1 DEF Below
<1>6. \A w \in 1 .. 8 : Below(d, w) => Reader!BigEndian(Low(d, w)) = n
    BY <1>3, DigitsSay DEF d, N
<1>7. ASSUME Below(d, 1) PROVE n = Last(d)
    <2>1. Reader!BigEndian(Low(d, 1)) = n
        BY <1>6, <1>7
    <2>2. /\ Low(d, 1) \in Seq(Byte) /\ Len(Low(d, 1)) = 1 /\ Low(d, 1)[1] = d[8 - 1 + 1]
        <3>1. 1 \in 1 .. Len(d) /\ 1 \in 1 .. 1
            BY <1>2
        <3> QED
            BY <1>2, <3>1, LowIs, ZenonT(60)
    <2> DEFINE g == [j \in 0 .. 1 |-> IF j = 0 THEN 0 ELSE d[8]]
    <2>3. g[0] = 0 /\ g[1] = d[8] /\ Low(d, 1)[1] = d[8] /\ d[8] \in Byte
        BY <1>2, <2>2
    <2> HIDE DEF g
    <2>4. \A j \in 0 .. 1 - 1 : g[j + 1] = 256 * g[j] + Low(d, 1)[j + 1]
        <3>1. \A j \in 0 .. 1 - 1 : j = 0
            OBVIOUS
        <3> QED
            BY <2>3, <3>1 DEF Byte
    <2>5. Reader!BigEndian(Low(d, 1)) = g[1]
        <3>1. 1 \in Nat /\ Len(Low(d, 1)) = 1
            BY <2>2
        <3> HIDE DEF d
        <3> QED
            <4>1. SaysUpTo(Low(d, 1), g, 1)
                BY <2>3, <2>4 DEF SaysUpTo
            <4> QED
                BY <3>1, <4>1, SaysNumber, Zenon
    <2> QED
        BY <1>2, <2>1, <2>3, <2>5 DEF Last
<1> QED
    BY <1>1, <1>2, <1>5, <1>6, <1>7 DEF SizeT

-----------------------------------------------------------------------------
(* The first byte of an object. *)

\* What begins with the byte h at index i.
FrontSays(s, e, i, h) ==
    LET f == Reader!Front(s, e, i)
        j == i + 1
    IN  /\ h \in 0 .. 127 => f = Reader!Ok(Reader!Integer(h), j)
        /\ h \in 128 .. 143 => f = Reader!Opens("map", h - 128, j)
        /\ h \in 144 .. 159 => f = Reader!Opens("array", h - 144, j)
        /\ h \in 160 .. 191 => f = Reader!Fixed(s, e, j, h - 160, "str")
        /\ h = 192 => f = Reader!Ok(Reader!NilObject, j)
        /\ h = 194 => f = Reader!Ok(<<"boolean", FALSE>>, j)
        /\ h = 195 => f = Reader!Ok(<<"boolean", TRUE>>, j)
        /\ h \in 196 .. 198 => f = Reader!Sized(s, e, j, <<1, 2, 4>>[h - 195], "bin")
        /\ h \in 199 .. 201 => f = Reader!Sized(s, e, j, <<1, 2, 4>>[h - 198], "ext")
        /\ h = 202 => f = Reader!Fixed(s, e, j, 4, "float32")
        /\ h = 203 => f = Reader!Fixed(s, e, j, 8, "float64")
        /\ h \in 204 .. 207 => f = Reader!Fixed(s, e, j, <<1, 2, 4, 8>>[h - 203], "unsigned")
        /\ h \in 208 .. 211 => f = Reader!Fixed(s, e, j, <<1, 2, 4, 8>>[h - 207], "signed")
        /\ h \in 212 .. 216 => f = Reader!Fixed(s, e, j, <<1, 2, 4, 8, 16>>[h - 211] + 1, "ext")
        /\ h \in 217 .. 219 => f = Reader!Sized(s, e, j, <<1, 2, 4>>[h - 216], "str")
        /\ h \in 220 .. 221 => f = Reader!SizedContainer(s, e, j, <<2, 4>>[h - 219], "array")
        /\ h \in 222 .. 223 => f = Reader!SizedContainer(s, e, j, <<2, 4>>[h - 221], "map")
        /\ h \in 224 .. 255 => f = Reader!Ok(Reader!Integer(h - 256), j)

LEMMA FrontIs ==
    ASSUME NEW s, NEW e \in Nat, NEW i \in Nat, i <= e, NEW h, h = s[i]
    PROVE  FrontSays(s, e, i, h)
<1> DEFINE f == Reader!Front(s, e, i)
           j == i + 1
<1>0. ~(i > e) /\ s[i] = h
    OBVIOUS
<1>1. ASSUME h \in 0 .. 127 PROVE f = Reader!Ok(Reader!Integer(h), j)
    BY <1>0, <1>1, SMTT(30) DEF Reader!Front
<1>2. ASSUME h \in 128 .. 143 PROVE f = Reader!Opens("map", h - 128, j)
    BY <1>0, <1>2, SMT DEF Reader!Front
<1>3. ASSUME h \in 144 .. 159 PROVE f = Reader!Opens("array", h - 144, j)
    BY <1>0, <1>3, SMT DEF Reader!Front
<1>4. ASSUME h \in 160 .. 191 PROVE f = Reader!Fixed(s, e, j, h - 160, "str")
    BY <1>0, <1>4, SMT DEF Reader!Front
<1>5. ASSUME h = 192 PROVE f = Reader!Ok(Reader!NilObject, j)
    BY <1>0, <1>5, SMT DEF Reader!Front
<1>7. ASSUME h = 194 PROVE f = Reader!Ok(<<"boolean", FALSE>>, j)
    BY <1>0, <1>7, SMT DEF Reader!Front
<1>8. ASSUME h = 195 PROVE f = Reader!Ok(<<"boolean", TRUE>>, j)
    BY <1>0, <1>8, SMT DEF Reader!Front
<1>9. ASSUME h \in 196 .. 198 PROVE f = Reader!Sized(s, e, j, <<1, 2, 4>>[h - 195], "bin")
    BY <1>0, <1>9, SMT DEF Reader!Front
<1>10. ASSUME h \in 199 .. 201 PROVE f = Reader!Sized(s, e, j, <<1, 2, 4>>[h - 198], "ext")
    BY <1>0, <1>10, SMT DEF Reader!Front
<1>11. ASSUME h = 202 PROVE f = Reader!Fixed(s, e, j, 4, "float32")
    BY <1>0, <1>11, SMT DEF Reader!Front
<1>12. ASSUME h = 203 PROVE f = Reader!Fixed(s, e, j, 8, "float64")
    BY <1>0, <1>12, SMT DEF Reader!Front
<1>13. ASSUME h \in 204 .. 207 PROVE f = Reader!Fixed(s, e, j, <<1, 2, 4, 8>>[h - 203], "unsigned")
    BY <1>0, <1>13, SMT DEF Reader!Front
<1>14. ASSUME h \in 208 .. 211 PROVE f = Reader!Fixed(s, e, j, <<1, 2, 4, 8>>[h - 207], "signed")
    BY <1>0, <1>14, SMT DEF Reader!Front
<1>15. ASSUME h \in 212 .. 216 PROVE f = Reader!Fixed(s, e, j, <<1, 2, 4, 8, 16>>[h - 211] + 1, "ext")
    BY <1>0, <1>15, SMT DEF Reader!Front
<1>16. ASSUME h \in 217 .. 219 PROVE f = Reader!Sized(s, e, j, <<1, 2, 4>>[h - 216], "str")
    BY <1>0, <1>16, SMT DEF Reader!Front
<1>17. ASSUME h \in 220 .. 221 PROVE f = Reader!SizedContainer(s, e, j, <<2, 4>>[h - 219], "array")
    BY <1>0, <1>17, SMT DEF Reader!Front
<1>18. ASSUME h \in 222 .. 223 PROVE f = Reader!SizedContainer(s, e, j, <<2, 4>>[h - 221], "map")
    BY <1>0, <1>18, SMT DEF Reader!Front
<1>19. ASSUME h \in 224 .. 255 PROVE f = Reader!Ok(Reader!Integer(h - 256), j)
    BY <1>0, <1>19, SMT DEF Reader!Front
<1> HIDE DEF f
<1> QED
    BY <1>1, <1>2, <1>3, <1>4, <1>5, <1>7, <1>8, <1>9, <1>10, <1>11, <1>12, <1>13, <1>14, <1>15,
       <1>16, <1>17, <1>18, <1>19, Zenon DEF f, FrontSays

\* Bytes of a sequence of bytes.
LEMMA SomeBytes ==
    ASSUME NEW s \in Seq(Byte), NEW i \in Nat \ {0}, NEW n \in Nat, i + n - 1 <= Len(s)
    PROVE  /\ SubSeq(s, i, i + n - 1) \in Seq(Byte) /\ Len(SubSeq(s, i, i + n - 1)) = n
           /\ \A j \in 1 .. n : SubSeq(s, i, i + n - 1)[j] = s[i + j - 1]
<1> DEFINE m == i + n - 1
<1>1. i \in Int /\ m \in Int /\ \A j \in i .. m : s[j] \in Byte
    OBVIOUS
<1>2. /\ SubSeq(s, i, m) \in Seq(Byte)
      /\ Len(SubSeq(s, i, m)) = (IF i <= m THEN m - i + 1 ELSE 0)
      /\ \A j \in 1 .. m - i + 1 : SubSeq(s, i, m)[j] = s[i + j - 1]
    <2> HIDE DEF m
    <2> QED
        BY <1>1, SubSeqProperties
<1> QED
    BY <1>2

\* The bytes that stand there are those.
LEMMA StandThere ==
    ASSUME NEW s \in Seq(Byte), NEW i \in Nat \ {0}, NEW c \in Seq(Byte), At(s, i, c), There(s, i, c)
    PROVE  SubSeq(s, i, i + Len(c) - 1) = c
<1> DEFINE d == SubSeq(s, i, i + Len(c) - 1)
           n == Len(c)
<1>1. n \in Nat /\ i + n - 1 <= Len(s)
    BY DEF There
<1>2. d \in Seq(Byte) /\ Len(d) = n /\ \A j \in 1 .. n : d[j] = s[i + j - 1]
    BY <1>1, SomeBytes
<1>3. \A j \in 1 .. n : s[i + j - 1] = c[j]
    <2> TAKE j \in 1 .. n
    <2>1. j \in 1 .. Len(c) /\ i + j - 1 <= Len(s)
        BY <1>1
    <2> QED
        BY <2>1 DEF At
<1> HIDE DEF d
<1>4. \A j \in 1 .. n : d[j] = c[j]
    BY <1>2, <1>3
<1>5. d = c
    BY <1>2, <1>4, SeqEqual
<1> QED
    BY <1>5 DEF d

LEMMA FixedFound ==
    ASSUME NEW s \in Seq(Byte), NEW i \in Nat \ {0}, NEW c \in Seq(Byte), At(s, i, c), NEW type
    PROVE  Reader!Fixed(s, Len(s), i, Len(c), type) = Found(s, i, c, Reader!Value(type, c))
<1>1. Len(s) \in Nat /\ Len(c) \in Nat
    OBVIOUS
<1>2. CASE There(s, i, c)
    <2>1. SubSeq(s, i, i + Len(c) - 1) = c /\ ~(i + Len(c) - 1 > Len(s))
        BY <1>1, <1>2, StandThere DEF There
    <2>2. Reader!Fixed(s, Len(s), i, Len(c), type) = Reader!Ok(Reader!Value(type, c), i + Len(c))
        BY <2>1 DEF Reader!Fixed
    <2> QED
        BY <1>2, <2>2, Zenon DEF Found
<1>3. CASE ~There(s, i, c)
    <2>1. i + Len(c) - 1 > Len(s)
        BY <1>1, <1>3 DEF There
    <2> QED
        BY <1>3, <2>1, FoundIs DEF Reader!Fixed
<1> QED
    BY <1>2, <1>3

\* A size, and behind it a body, of an extension the type and the body.
LEMMA SizedFound ==
    ASSUME NEW s \in Seq(Byte), NEW i \in Nat \ {0}, NEW z \in Seq(Byte), NEW c \in Seq(Byte),
           At(s, i, z \o c), NEW type, NEW n \in Nat, Reader!BigEndian(z) = n,
           Len(c) = (IF type = "ext" THEN n + 1 ELSE n)
    PROVE  Reader!Sized(s, Len(s), i, Len(z), type) = Found(s, i, z \o c, Reader!Value(type, c))
<1> DEFINE b == z \o c
           w == Len(z)
<1>1. Len(s) \in Nat /\ Len(c) \in Nat /\ w \in Nat /\ Len(b) = w + Len(c)
    <2>1. Len(s) \in Nat
        OBVIOUS
    <2> QED
        BY <2>1, ConcatIs
<1>2. At(s, i, z) /\ At(s, i + w, c)
    BY AtBoth
<1> HIDE DEF b
<1>3. CASE ~There(s, i, z)
    <2>1. i + w - 1 > Len(s)
        BY <1>1, <1>3 DEF There
    <2>2. ~There(s, i, b)
        BY <1>1, <1>3 DEF There
    <2>3. Reader!Sized(s, Len(s), i, w, type) = Reader!Not("more")
        BY <2>1 DEF Reader!Sized
    <2> QED
        BY <2>2, <2>3, FoundIs DEF b
<1>4. CASE There(s, i, z)
    <2>1. ~(i + w - 1 > Len(s)) /\ SubSeq(s, i, i + w - 1) = z /\ n # -1 /\ i + w \in Nat \ {0}
        BY <1>1, <1>2, <1>4, StandThere DEF There
    <2>2. Reader!Sized(s, Len(s), i, w, type) = Reader!Fixed(s, Len(s), i + w, Len(c), type)
        BY <2>1 DEF Reader!Sized
    <2>3. Reader!Fixed(s, Len(s), i + w, Len(c), type) = Found(s, i + w, c, Reader!Value(type, c))
        BY <1>2, <2>1, FixedFound, ZenonT(60)
    <2>4. There(s, i, b) <=> There(s, i + w, c)
        BY <1>1 DEF There
    <2>5. i + Len(b) = (i + w) + Len(c)
        BY <1>1, SMTT(30)
    <2>6. Found(s, i + w, c, Reader!Value(type, c)) = Found(s, i, b, Reader!Value(type, c))
        BY <2>4, <2>5 DEF Found
    <2> QED
        BY <2>2, <2>3, <2>6 DEF b
<1> QED
    BY <1>3, <1>4

LEMMA SizedOpens ==
    ASSUME NEW s \in Seq(Byte), NEW i \in Nat \ {0}, NEW z \in Seq(Byte), At(s, i, z), NEW type, NEW n,
           Reader!BigEndian(z) = n
    PROVE  Reader!SizedContainer(s, Len(s), i, Len(z), type) =
               IF There(s, i, z) THEN Reader!Opens(type, n, i + Len(z)) ELSE Reader!Not("more")
<1>1. Len(s) \in Nat /\ Len(z) \in Nat
    OBVIOUS
<1>2. There(s, i, z) => SubSeq(s, i, i + Len(z) - 1) = z
    BY StandThere
<1>3. There(s, i, z) <=> ~(i + Len(z) - 1 > Len(s))
    BY <1>1 DEF There
<1> QED
    BY <1>2, <1>3 DEF Reader!SizedContainer

\* A first byte and what is behind it.
LEMMA HeadFront ==
    ASSUME NEW h \in Byte, NEW r \in Seq(Byte), NEW s \in Seq(Byte), NEW i \in 1 .. Len(s) + 1,
           At(s, i, <<h>> \o r)
    PROVE  /\ i \in Nat \ {0} /\ i + 1 \in Nat \ {0}
           /\ i > Len(s) => /\ Reader!Front(s, Len(s), i) = Reader!Not("more")
                            /\ ~There(s, i, <<h>> \o r)
           /\ ~(i > Len(s)) => /\ s[i] = h /\ At(s, i + 1, r) /\ i + 1 \in 1 .. Len(s) + 1 /\ i <= Len(s)
                               /\ There(s, i, <<h>> \o r) <=> There(s, i + 1, r)
           /\ Len(<<h>> \o r) = 1 + Len(r) /\ i + Len(<<h>> \o r) = (i + 1) + Len(r)
           /\ \A x : ~(i > Len(s)) => Found(s, i, <<h>> \o r, x) = Found(s, i + 1, r, x)
<1> DEFINE c == <<h>> \o r
<1>1. /\ Len(r) \in Nat /\ Len(s) \in Nat /\ i \in Nat \ {0} /\ <<h>> \in Seq(Byte) /\ Len(<<h>>) = 1
      /\ Len(c) = 1 + Len(r) /\ <<h>>[1] = h
    OBVIOUS
<1>2. At(s, i, <<h>>) /\ At(s, i + 1, r)
    <2>1. At(s, i, <<h>>) /\ At(s, i + Len(<<h>>), r)
        BY <1>1, AtBoth
    <2> QED
        BY <1>1, <2>1
<1> HIDE DEF c
<1>3. ASSUME i > Len(s) PROVE Reader!Front(s, Len(s), i) = Reader!Not("more") /\ ~There(s, i, c)
    BY <1>1, <1>3 DEF Reader!Front, There
<1>4. ASSUME ~(i > Len(s)) PROVE s[i] = h /\ i + 1 \in 1 .. Len(s) + 1 /\ i <= Len(s)
    <2>1. 1 \in 1 .. Len(<<h>>) /\ i + 1 - 1 <= Len(s) /\ i + 1 - 1 = i
        BY <1>1, <1>4
    <2> QED
        BY <1>1, <1>2, <1>4, <2>1 DEF At
<1>5. (There(s, i, c) <=> There(s, i + 1, r)) /\ i + Len(c) = (i + 1) + Len(r)
    BY <1>1 DEF There
<1>6. \A x : Found(s, i, c, x) = Found(s, i + 1, r, x)
    BY <1>5 DEF Found
<1> QED
    BY <1>1, <1>2, <1>3, <1>4, <1>5, <1>6 DEF c

\* The byte h, and then r, is o, or opens a container.
LEMMA AloneHead ==
    ASSUME NEW h \in Byte, NEW r \in Seq(Byte), NEW o,
           \A s \in Seq(Byte) : \A i \in 1 .. Len(s) : s[i] = h /\ At(s, i + 1, r) =>
               Reader!Front(s, Len(s), i) = Found(s, i + 1, r, o)
    PROVE  Alone(o, <<h>> \o r)
<1> DEFINE c == <<h>> \o r
<1>1. c \in Seq(Byte) /\ c # << >>
    OBVIOUS
<1> SUFFICES ASSUME NEW s \in Seq(Byte), NEW i \in 1 .. Len(s) + 1, At(s, i, c)
             PROVE  Reader!Front(s, Len(s), i) = Found(s, i, c, o)
    BY <1>1 DEF Alone
<1>2. CASE i > Len(s)
    BY <1>2, HeadFront, FoundIs
<1>3. CASE ~(i > Len(s))
    <2>1. s[i] = h /\ At(s, i + 1, r) /\ i \in 1 .. Len(s) /\ Found(s, i, c, o) = Found(s, i + 1, r, o)
        BY <1>3, HeadFront
    <2> QED
        BY <2>1
<1> QED
    BY <1>2, <1>3

LEMMA HeaderHead ==
    ASSUME NEW h \in Byte, NEW r \in Seq(Byte), NEW type, NEW n,
           \A s \in Seq(Byte) : \A i \in 1 .. Len(s) : s[i] = h /\ At(s, i + 1, r) =>
               Reader!Front(s, Len(s), i) =
                   IF There(s, i + 1, r) THEN Reader!Opens(type, n, (i + 1) + Len(r)) ELSE Reader!Not("more")
    PROVE  Header(<<h>> \o r, type, n)
<1> DEFINE c == <<h>> \o r
<1>1. c \in Seq(Byte) /\ c # << >>
    OBVIOUS
<1> SUFFICES ASSUME NEW s \in Seq(Byte), NEW i \in 1 .. Len(s) + 1, At(s, i, c)
             PROVE  Reader!Front(s, Len(s), i) =
                        IF There(s, i, c) THEN Reader!Opens(type, n, i + Len(c)) ELSE Reader!Not("more")
    BY <1>1 DEF Header
<1>2. CASE i > Len(s)
    BY <1>2, HeadFront
<1>3. CASE ~(i > Len(s))
    <2>1. /\ s[i] = h /\ At(s, i + 1, r) /\ i \in 1 .. Len(s)
          /\ There(s, i, c) <=> There(s, i + 1, r)
          /\ i + Len(c) = (i + 1) + Len(r)
        BY <1>3, HeadFront
    <2> QED
        BY <2>1
<1> QED
    BY <1>2, <1>3

-----------------------------------------------------------------------------
(* What the packer writes for an object that has none in it. *)

LEMMA OneSays == \A b \in Byte : Reader!BigEndian(<<b>>) = b
<1> TAKE b \in Byte
<1> DEFINE g == [j \in 0 .. 1 |-> IF j = 0 THEN 0 ELSE b]
<1>1. g[0] = 0 /\ g[1] = b /\ b \in Int /\ Len(<<b>>) = 1 /\ <<b>>[1] = b
    BY DEF Byte
<1> HIDE DEF g
<1>2. SaysUpTo(<<b>>, g, 1)
    <2>1. \A j \in 0 .. 1 - 1 : j = 0
        OBVIOUS
    <2> QED
        BY <1>1, <2>1 DEF SaysUpTo
<1>3. Reader!BigEndian(<<b>>) = g[1]
    <2>1. 1 \in Nat
        OBVIOUS
    <2> QED
        BY <1>1, <1>2, <2>1, SaysNumber, Zenon
<1> QED
    BY <1>1, <1>3

\* What begins with the byte h, wherever that stands.
ByteFront(h, o) ==
    \A s \in Seq(Byte) : \A i \in 1 .. Len(s) : s[i] = h =>
        Reader!Front(s, Len(s), i) = Reader!Ok(o, i + 1)
FixedFront(h, n, type) ==
    \A s \in Seq(Byte) : \A i \in 1 .. Len(s) : s[i] = h =>
        Reader!Front(s, Len(s), i) = Reader!Fixed(s, Len(s), i + 1, n, type)
SizedFront(h, w, type) ==
    \A s \in Seq(Byte) : \A i \in 1 .. Len(s) : s[i] = h =>
        Reader!Front(s, Len(s), i) = Reader!Sized(s, Len(s), i + 1, w, type)
OpensFront(h, type, n) ==
    \A s \in Seq(Byte) : \A i \in 1 .. Len(s) : s[i] = h =>
        Reader!Front(s, Len(s), i) = Reader!Opens(type, n, i + 1)
SizedOpensFront(h, w, type) ==
    \A s \in Seq(Byte) : \A i \in 1 .. Len(s) : s[i] = h =>
        Reader!Front(s, Len(s), i) = Reader!SizedContainer(s, Len(s), i + 1, w, type)

\* A byte that is in place and the bytes behind it.
LEMMA FrontBehind ==
    \A s \in Seq(Byte) : \A i \in 1 .. Len(s) :
        i \in Nat /\ i <= Len(s) /\ Len(s) \in Nat /\ i + 1 \in Nat \ {0}
OBVIOUS

LEMMA Fronts ==
    ASSUME NEW h
    PROVE  /\ h \in 0 .. 127 => ByteFront(h, Reader!Integer(h))
           /\ h \in 128 .. 143 => OpensFront(h, "map", h - 128)
           /\ h \in 144 .. 159 => OpensFront(h, "array", h - 144)
           /\ h \in 160 .. 191 => FixedFront(h, h - 160, "str")
           /\ h = 192 => ByteFront(h, Reader!NilObject)
           /\ h = 194 => ByteFront(h, <<"boolean", FALSE>>)
           /\ h = 195 => ByteFront(h, <<"boolean", TRUE>>)
           /\ h \in 196 .. 198 => SizedFront(h, <<1, 2, 4>>[h - 195], "bin")
           /\ h \in 199 .. 201 => SizedFront(h, <<1, 2, 4>>[h - 198], "ext")
           /\ h = 202 => FixedFront(h, 4, "float32")
           /\ h = 203 => FixedFront(h, 8, "float64")
           /\ h \in 204 .. 207 => FixedFront(h, <<1, 2, 4, 8>>[h - 203], "unsigned")
           /\ h \in 208 .. 211 => FixedFront(h, <<1, 2, 4, 8>>[h - 207], "signed")
           /\ h \in 212 .. 216 => FixedFront(h, <<1, 2, 4, 8, 16>>[h - 211] + 1, "ext")
           /\ h \in 217 .. 219 => SizedFront(h, <<1, 2, 4>>[h - 216], "str")
           /\ h \in 220 .. 221 => SizedOpensFront(h, <<2, 4>>[h - 219], "array")
           /\ h \in 222 .. 223 => SizedOpensFront(h, <<2, 4>>[h - 221], "map")
           /\ h \in 224 .. 255 => ByteFront(h, Reader!Integer(h - 256))
<1>1. ASSUME NEW s \in Seq(Byte), NEW i \in 1 .. Len(s), s[i] = h
      PROVE  FrontSays(s, Len(s), i, h)
    <2>1. i \in Nat /\ i <= Len(s) /\ Len(s) \in Nat /\ h = s[i]
        BY <1>1, FrontBehind
    <2> QED
        BY <2>1, FrontIs, Zenon
<1>2. ASSUME h \in 0 .. 127 PROVE ByteFront(h, Reader!Integer(h))
    BY <1>1, <1>2, ZenonT(60) DEF FrontSays, ByteFront
<1>3. ASSUME h \in 128 .. 143 PROVE OpensFront(h, "map", h - 128)
    BY <1>1, <1>3, ZenonT(60) DEF FrontSays, OpensFront
<1>4. ASSUME h \in 144 .. 159 PROVE OpensFront(h, "array", h - 144)
    BY <1>1, <1>4, ZenonT(60) DEF FrontSays, OpensFront
<1>5. ASSUME h \in 160 .. 191 PROVE FixedFront(h, h - 160, "str")
    BY <1>1, <1>5, ZenonT(60) DEF FrontSays, FixedFront
<1>6. ASSUME h = 192 PROVE ByteFront(h, Reader!NilObject)
    BY <1>1, <1>6 DEF FrontSays, ByteFront
<1>7. ASSUME h = 194 PROVE ByteFront(h, <<"boolean", FALSE>>)
    BY <1>1, <1>7 DEF FrontSays, ByteFront
<1>8. ASSUME h = 195 PROVE ByteFront(h, <<"boolean", TRUE>>)
    BY <1>1, <1>8 DEF FrontSays, ByteFront
<1>9. ASSUME h \in 196 .. 198 PROVE SizedFront(h, <<1, 2, 4>>[h - 195], "bin")
    BY <1>1, <1>9, ZenonT(60) DEF FrontSays, SizedFront
<1>10. ASSUME h \in 199 .. 201 PROVE SizedFront(h, <<1, 2, 4>>[h - 198], "ext")
    BY <1>1, <1>10, ZenonT(60) DEF FrontSays, SizedFront
<1>11. ASSUME h = 202 PROVE FixedFront(h, 4, "float32")
    BY <1>1, <1>11, ZenonT(60) DEF FrontSays, FixedFront
<1>12. ASSUME h = 203 PROVE FixedFront(h, 8, "float64")
    BY <1>1, <1>12, ZenonT(60) DEF FrontSays, FixedFront
<1>13. ASSUME h \in 204 .. 207 PROVE FixedFront(h, <<1, 2, 4, 8>>[h - 203], "unsigned")
    BY <1>1, <1>13, ZenonT(60) DEF FrontSays, FixedFront
<1>14. ASSUME h \in 208 .. 211 PROVE FixedFront(h, <<1, 2, 4, 8>>[h - 207], "signed")
    BY <1>1, <1>14, ZenonT(60) DEF FrontSays, FixedFront
<1>15. ASSUME h \in 212 .. 216 PROVE FixedFront(h, <<1, 2, 4, 8, 16>>[h - 211] + 1, "ext")
    BY <1>1, <1>15, ZenonT(60) DEF FrontSays, FixedFront
<1>16. ASSUME h \in 217 .. 219 PROVE SizedFront(h, <<1, 2, 4>>[h - 216], "str")
    BY <1>1, <1>16, ZenonT(60) DEF FrontSays, SizedFront
<1>17. ASSUME h \in 220 .. 221 PROVE SizedOpensFront(h, <<2, 4>>[h - 219], "array")
    BY <1>1, <1>17, ZenonT(60) DEF FrontSays, SizedOpensFront
<1>18. ASSUME h \in 222 .. 223 PROVE SizedOpensFront(h, <<2, 4>>[h - 221], "map")
    BY <1>1, <1>18, ZenonT(60) DEF FrontSays, SizedOpensFront
<1>19. ASSUME h \in 224 .. 255 PROVE ByteFront(h, Reader!Integer(h - 256))
    BY <1>1, <1>19 DEF FrontSays, ByteFront
<1> QED
    BY <1>2, <1>3, <1>4, <1>5, <1>6, <1>7, <1>8, <1>9, <1>10, <1>11, <1>12, <1>13, <1>14, <1>15, <1>16, <1>17, <1>18, <1>19

\* One byte.
LEMMA SingleAlone ==
    ASSUME NEW h \in Byte, NEW o,
           ByteFront(h, o)
    PROVE  Alone(o, <<h>>)
<1>1. << >> \in Seq(Byte) /\ <<h>> \o << >> = <<h>>
    OBVIOUS
<1>2. ASSUME NEW s \in Seq(Byte), NEW i \in 1 .. Len(s), s[i] = h
      PROVE  Reader!Front(s, Len(s), i) = Found(s, i + 1, << >>, o)
    <2>1. (i + 1) + Len(<< >>) - 1 <= Len(s) /\ (i + 1) + Len(<< >>) = i + 1
        OBVIOUS
    <2>2. There(s, i + 1, << >>)
        BY <2>1 DEF There
    <2>3. Found(s, i + 1, << >>, o) = Reader!Ok(o, i + 1)
        BY <2>1, <2>2 DEF Found
    <2> QED
        BY <1>2, <2>3 DEF ByteFront
<1>3. Alone(o, <<h>> \o << >>)
    BY <1>1, <1>2, AloneHead
<1> QED
    BY <1>1, <1>3

\* A header byte whose value has the length of r.
LEMMA FixedAlone ==
    ASSUME NEW h \in Byte, NEW r \in Seq(Byte), NEW type, NEW n, n = Len(r),
           FixedFront(h, n, type)
    PROVE  Alone(Reader!Value(type, r), <<h>> \o r)
<1>1. ASSUME NEW s \in Seq(Byte), NEW i \in 1 .. Len(s), s[i] = h, At(s, i + 1, r)
      PROVE  Reader!Front(s, Len(s), i) = Found(s, i + 1, r, Reader!Value(type, r))
    <2>1. i + 1 \in Nat \ {0}
        BY FrontBehind
    <2>2. Reader!Fixed(s, Len(s), i + 1, n, type) = Found(s, i + 1, r, Reader!Value(type, r))
        BY <1>1, <2>1, FixedFound
    <2> QED
        BY <1>1, <2>2 DEF FixedFront
<1> QED
    BY <1>1, AloneHead

LEMMA SizedAlone ==
    ASSUME NEW h \in Byte, NEW z \in Seq(Byte), NEW r \in Seq(Byte), NEW type, NEW n \in Nat,
           Reader!BigEndian(z) = n, Len(r) = (IF type = "ext" THEN n + 1 ELSE n), NEW w, w = Len(z),
           SizedFront(h, w, type)
    PROVE  Alone(Reader!Value(type, r), (<<h>> \o z) \o r)
<1>0. z \o r \in Seq(Byte) /\ <<h>> \in Seq(Byte)
    OBVIOUS
<1>1. ASSUME NEW s \in Seq(Byte), NEW i \in 1 .. Len(s), s[i] = h, At(s, i + 1, z \o r)
      PROVE  Reader!Front(s, Len(s), i) = Found(s, i + 1, z \o r, Reader!Value(type, r))
    <2>1. i + 1 \in Nat \ {0}
        BY FrontBehind
    <2>2. Reader!Sized(s, Len(s), i + 1, w, type) = Found(s, i + 1, z \o r, Reader!Value(type, r))
        BY <1>1, <2>1, SizedFound
    <2> QED
        BY <1>1, <2>2 DEF SizedFront
<1>2. Alone(Reader!Value(type, r), <<h>> \o (z \o r))
    BY <1>0, <1>1, AloneHead
<1>3. (<<h>> \o z) \o r = <<h>> \o (z \o r)
    BY <1>0, ThreeByteRows
<1> QED
    BY <1>2, <1>3

LEMMA SizedHeader ==
    ASSUME NEW h \in Byte, NEW z \in Seq(Byte), NEW type, NEW n, Reader!BigEndian(z) = n,
           NEW w, w = Len(z),
           SizedOpensFront(h, w, type)
    PROVE  Header(<<h>> \o z, type, n)
<1>1. ASSUME NEW s \in Seq(Byte), NEW i \in 1 .. Len(s), s[i] = h, At(s, i + 1, z)
      PROVE  Reader!Front(s, Len(s), i) =
                 IF There(s, i + 1, z) THEN Reader!Opens(type, n, (i + 1) + Len(z)) ELSE Reader!Not("more")
    <2>1. i + 1 \in Nat \ {0}
        BY FrontBehind
    <2>2. Reader!SizedContainer(s, Len(s), i + 1, w, type) =
              IF There(s, i + 1, z) THEN Reader!Opens(type, n, (i + 1) + Len(z)) ELSE Reader!Not("more")
        BY <1>1, <2>1, SizedOpens
    <2> QED
        BY <1>1, <2>2 DEF SizedOpensFront
<1> QED
    BY <1>1, HeaderHead

LEMMA SingleHeader ==
    ASSUME NEW h \in Byte, NEW type, NEW n,
           OpensFront(h, type, n)
    PROVE  Header(<<h>>, type, n)
<1>1. << >> \in Seq(Byte) /\ <<h>> \o << >> = <<h>>
    OBVIOUS
<1>2. ASSUME NEW s \in Seq(Byte), NEW i \in 1 .. Len(s), s[i] = h
      PROVE  Reader!Front(s, Len(s), i) =
                 IF There(s, i + 1, << >>) THEN Reader!Opens(type, n, (i + 1) + Len(<< >>)) ELSE Reader!Not("more")
    <2>1. (i + 1) + Len(<< >>) - 1 <= Len(s) /\ (i + 1) + Len(<< >>) = i + 1
        OBVIOUS
    <2>2. There(s, i + 1, << >>)
        BY <2>1 DEF There
    <2> QED
        BY <1>2, <2>1, <2>2 DEF OpensFront
<1>3. Header(<<h>> \o << >>, type, n)
    BY <1>1, <1>2, HeaderHead
<1> QED
    BY <1>1, <1>3
-----------------------------------------------------------------------------
LEMMA ConstantsAlone ==
    /\ Alone(Reader!NilObject, pack_nil)
    /\ Alone(<<"boolean", TRUE>>, pack_true)
    /\ Alone(<<"boolean", FALSE>>, pack_false)
<1>0. 192 \in Byte /\ 194 \in Byte /\ 195 \in Byte
    BY DEF Byte
<1>1. ByteFront(192, Reader!NilObject)
    BY Fronts
<1>2. ByteFront(194, <<"boolean", FALSE>>)
    BY Fronts
<1>3. ByteFront(195, <<"boolean", TRUE>>)
    BY Fronts
<1> QED
    BY <1>0, <1>1, <1>2, <1>3, SingleAlone DEF pack_nil, pack_true, pack_false

LEMMA FloatsAlone ==
    ASSUME NEW d \in Seq(Byte)
    PROVE  /\ Len(d) = 4 => Alone(<<"float32", d>>, pack_float(d))
           /\ Len(d) = 8 => Alone(<<"float64", d>>, pack_double(d))
<1>0. 202 \in Byte /\ 203 \in Byte
    BY DEF Byte
<1>1. FixedFront(202, 4, "float32") /\ FixedFront(203, 8, "float64")
    BY Fronts, ZenonT(60)
<1>2. Reader!Value("float32", d) = <<"float32", d>> /\ Reader!Value("float64", d) = <<"float64", d>>
    BY DEF Reader!Value
<1>3. ASSUME Len(d) = 4 PROVE Alone(<<"float32", d>>, pack_float(d))
    <2>1. Alone(Reader!Value("float32", d), <<202>> \o d)
        BY <1>0, <1>1, <1>3, FixedAlone, ZenonT(60)
    <2> QED
        BY <1>2, <2>1 DEF pack_float
<1>4. ASSUME Len(d) = 8 PROVE Alone(<<"float64", d>>, pack_double(d))
    <2>1. Alone(Reader!Value("float64", d), <<203>> \o d)
        BY <1>0, <1>1, <1>4, FixedAlone, ZenonT(60)
    <2> QED
        BY <1>2, <2>1 DEF pack_double
<1> QED
    BY <1>3, <1>4

\* The digits of a number.
LEMMA DigitsNumber ==
    ASSUME NEW n \in Nat, Shortened(n)[8] = 0
    PROVE  /\ Digits(n) \in Number /\ Len(Digits(n)) = 8
           /\ Below(Digits(n), 1) => Last(Digits(n)) = n
           /\ \A k \in Width : Below(Digits(n), k) => /\ Reader!BigEndian(Low(Digits(n), k)) = n
                                                     /\ Low(Digits(n), k) \in Seq(Byte)
                                                     /\ Len(Low(Digits(n), k)) = k
<1> DEFINE d == Digits(n)
<1>1. d \in Seq(Byte) /\ Len(d) = 8 /\ 8 \in Width
    BY DigitsAre DEF Width
<1>2. d \in Number
    BY <1>1 DEF Number
<1>3. \A k \in Width : k \in 1 .. 8
    BY DEF Width
<1>4. \A k \in Width : Below(d, k) => /\ Reader!BigEndian(Low(d, k)) = n
                                      /\ Low(d, k) \in Seq(Byte) /\ Len(Low(d, k)) = k
    BY <1>3, DigitsSay
<1> HIDE DEF d
<1>5. ASSUME Below(d, 1) PROVE Last(d) = n
    <2>1. Low(d, 1) = <<Last(d)>> /\ Last(d) \in Byte /\ 1 \in Width
        BY <1>2, LastByte DEF Width
    <2>2. Reader!BigEndian(<<Last(d)>>) = n
        BY <1>4, <1>5, <2>1
    <2> QED
        BY <2>1, <2>2, OneSays
<1> QED
    BY <1>1, <1>2, <1>4, <1>5 DEF d

\* The header byte of a number that takes k bytes.
LEMMA NumberFront ==
    ASSUME NEW k \in Width
    PROVE  /\ 204 + Log(k) \in Byte /\ 208 + Log(k) \in Byte
           /\ FixedFront(204 + Log(k), k, "unsigned") /\ FixedFront(208 + Log(k), k, "signed")
<1> DEFINE l == Log(k)
<1>1. l \in 0 .. 3 /\ <<1, 2, 4, 8>>[l + 1] = k
    BY LogIs DEF Width
<1> HIDE DEF l
<1>2. /\ 204 + l \in Byte /\ 208 + l \in Byte /\ 204 + l \in 204 .. 207 /\ 208 + l \in 208 .. 211
      /\ (204 + l) - 203 = l + 1 /\ (208 + l) - 207 = l + 1
    BY <1>1 DEF Byte
<1>3. /\ FixedFront(204 + l, <<1, 2, 4, 8>>[(204 + l) - 203], "unsigned")
      /\ FixedFront(208 + l, <<1, 2, 4, 8>>[(208 + l) - 207], "signed")
    BY <1>2, Fronts
<1> QED
    BY <1>1, <1>2, <1>3 DEF l

LEMMA UintAlone ==
    ASSUME NEW n \in Nat, Shortened(n)[8] = 0
    PROVE  Alone(<<"positive", n>>, pack_real_uint(Digits(n)))
<1> DEFINE d == Digits(n)
           k == Least(UintWidths(d))
<1>1. d \in Number
    BY DigitsNumber
<1>2. /\ Below(d, 1) => Last(d) = n
      /\ \A j \in Width : Below(d, j) => /\ Reader!BigEndian(Low(d, j)) = n
                                         /\ Low(d, j) \in Seq(Byte) /\ Len(Low(d, j)) = j
    BY DigitsNumber
<1> HIDE DEF d
<1>3. Reader!Integer(n) = <<"positive", n>>
    BY DEF Reader!Integer
<1>4. CASE Below(d, 1) /\ Last(d) < 128 /\ pack_real_uint(d) = Low(d, 1)
    <2>1. n \in Byte /\ n \in 0 .. 127 /\ Low(d, 1) = <<n>>
        BY <1>1, <1>2, <1>4, LastByte DEF Byte
    <2>2. ByteFront(n, <<"positive", n>>)
        BY <1>3, <2>1, Fronts
    <2>3. Alone(<<"positive", n>>, <<n>>)
        BY <2>1, <2>2, SingleAlone
    <2> QED
        BY <1>4, <2>1, <2>3 DEF d
<1>5. CASE pack_real_uint(d) = <<204 + Log(k)>> \o Low(d, k)
    <2>1. k \in Width /\ Below(d, k)
        BY <1>1, UintWidth DEF UintWidths
    <2> HIDE DEF k
    <2>2. Reader!BigEndian(Low(d, k)) = n /\ Low(d, k) \in Seq(Byte) /\ Len(Low(d, k)) = k
        BY <1>2, <2>1
    <2>3. Alone(Reader!Value("unsigned", Low(d, k)), <<204 + Log(k)>> \o Low(d, k))
        BY <2>1, <2>2, NumberFront, FixedAlone
    <2>4. Reader!Value("unsigned", Low(d, k)) = <<"positive", n>>
        BY <1>3, <2>2 DEF Reader!Value
    <2> QED
        BY <1>5, <2>3, <2>4 DEF d
<1> QED
    BY <1>1, <1>4, <1>5, UintForm DEF d

-----------------------------------------------------------------------------
\* Bytes and their complement.
Complement(bs) == [k \in DOMAIN bs |-> 255 - bs[k]]

LEMMA ByteTurned ==
    /\ \A x \in Byte : /\ 255 - x \in Byte /\ x \in Int /\ 255 - (255 - x) = x
                       /\ x < 128 => 255 - x >= 128
    /\ \A x \in Nat : x < 128 => x % 256 = x
BY DEF Byte

LEMMA ComplementIs ==
    ASSUME NEW d \in Seq(Byte), NEW m \in Nat, Len(d) = m
    PROVE  /\ Complement(d) \in Seq(Byte) /\ Len(Complement(d)) = m
           /\ \A i \in 1 .. m : Complement(d)[i] = 255 - d[i]
<1>1. DOMAIN d = 1 .. m /\ \A i \in 1 .. m : d[i] \in Byte
    OBVIOUS
<1>2. \A i \in 1 .. m : 255 - d[i] \in Byte
    BY <1>1, ByteTurned
<1> DEFINE c == [i \in 1 .. m |-> 255 - d[i]]
<1>3. Complement(d) = c
    BY <1>1 DEF Complement
<1>4. c \in Seq(Byte) /\ Len(c) = m /\ \A i \in 1 .. m : c[i] = 255 - d[i]
    BY <1>2
<1> QED
    BY <1>3, <1>4

\* A negative number is the complement of another, and says so in as many bytes as the packer
\* takes.
LEMMA NegativeIs ==
    ASSUME NEW n \in Int, n < 0, Shortened(-1 - n)[8] = 0, Shortened(-1 - n)[7] < 128
    PROVE  /\ Int64(n) \in Number /\ Negative(Int64(n)) /\ Len(Int64(n)) = 8
           /\ \A k \in Width : AtLeast(Int64(n), k) =>
                 /\ Low(Int64(n), k) \in Seq(Byte) /\ Len(Low(Int64(n), k)) = k
                 /\ Reader!TwosComplement(Low(Int64(n), k)) = n
           /\ AtLeast(Int64(n), 1) => Last(Int64(n)) - 256 = n /\ Last(Int64(n)) \in Byte
<1> DEFINE m == -1 - n
           e == Digits(m)
           d == Int64(n)
<1>1. m \in Nat /\ ~(n >= 0) /\ -1 - m = n
    OBVIOUS
<1>2. e \in Seq(Byte) /\ Len(e) = 8 /\ (\A i \in 1 .. 8 : e[i] \in Byte) /\ e[1] = Shortened(m)[7] % 256
      /\ Shortened(m)[7] \in Nat
    <2>1. 1 \in 1 .. 8 /\ 8 - 1 = 7 /\ 7 \in 0 .. 8
        OBVIOUS
    <2>2. /\ e \in Seq(Byte) /\ Len(e) = 8 /\ e[1] = Shortened(m)[8 - 1] % 256
          /\ Shortened(m)[7] \in Nat
        BY <1>1, <2>1, DigitsAre
    <2> QED
        BY <2>1, <2>2
<1>3. d = [i \in 1 .. 8 |-> 255 - e[i]]
    BY <1>1 DEF Int64
<1>4. \A k \in Width : Below(e, k) => Reader!BigEndian(Low(e, k)) = m
    BY <1>1, DigitsNumber
<1>5. Shortened(m)[7] < 128
    OBVIOUS
<1> HIDE DEF e, d, m
<1>6. d \in Seq(Byte) /\ Len(d) = 8 /\ \A i \in 1 .. 8 : d[i] = 255 - e[i] /\ d[i] \in Byte
    <2>1. \A i \in 1 .. 8 : 255 - e[i] \in Byte
        BY <1>2, ByteTurned, SMTT(30)
    <2> QED
        BY <1>3, <2>1
<1>7. d \in Number /\ Negative(d)
    <2>1. e[1] < 128 /\ e[1] \in Byte
        <3>1. e[1] = Shortened(m)[7]
            BY <1>2, <1>5, ByteTurned, ZenonT(60)
        <3> QED
            BY <1>2, <1>5, <3>1
    <2>2. d[1] >= 128
        <3>1. d[1] = 255 - e[1]
            BY <1>6
        <3> QED
            BY <2>1, <3>1, ByteTurned
    <2> QED
        BY <1>6, <2>2 DEF Number, Width, Negative
<1>8. ASSUME NEW k \in Width, AtLeast(d, k)
      PROVE  /\ Low(d, k) \in Seq(Byte) /\ Len(Low(d, k)) = k
             /\ Reader!TwosComplement(Low(d, k)) = n /\ Below(e, k)
    <2>1. k \in 1 .. 8 /\ k \in 1 .. Len(d) /\ k \in 1 .. Len(e) /\ k \in Nat
        BY <1>2, <1>6 DEF Width
    <2>2. Low(d, k) \in Seq(Byte) /\ Len(Low(d, k)) = k /\ \A i \in 1 .. k : Low(d, k)[i] = d[8 - k + i]
        <3>1. /\ Low(d, k) \in Seq(Byte) /\ Len(Low(d, k)) = k
              /\ \A i \in 1 .. k : Low(d, k)[i] = d[Len(d) - k + i]
            BY <1>6, <2>1, LowIs, ZenonT(60)
        <3> QED
            BY <1>6, <3>1
    <2>3. Low(e, k) \in Seq(Byte) /\ Len(Low(e, k)) = k /\ \A i \in 1 .. k : Low(e, k)[i] = e[8 - k + i]
        BY <1>2, <2>1, LowIs, ZenonT(60)
    <2>4. Below(e, k)
        <3>1. \A i \in 1 .. 8 - k : d[i] = 255
            BY <1>6, <1>8 DEF AtLeast
        <3>2. \A i \in 1 .. 8 - k : e[i] = 0
            <4> TAKE i \in 1 .. 8 - k
            <4>1. i \in 1 .. 8
                BY <2>1
            <4>2. d[i] = 255 - e[i] /\ e[i] \in Byte
                BY <1>2, <1>6, <4>1
            <4> QED
                BY <3>1, <4>2 DEF Byte
        <3> QED
            BY <1>2, <3>2 DEF Below
    <2>5. Complement(Low(d, k)) = Low(e, k)
        <3>1. /\ Complement(Low(d, k)) \in Seq(Byte) /\ Len(Complement(Low(d, k))) = k
              /\ \A i \in 1 .. k : Complement(Low(d, k))[i] = 255 - Low(d, k)[i]
            BY <2>1, <2>2, ComplementIs
        <3>2. ASSUME NEW i \in 1 .. k PROVE Complement(Low(d, k))[i] = Low(e, k)[i]
            <4>1. 8 - k + i \in 1 .. 8
                BY <2>1
            <4>2. d[8 - k + i] = 255 - e[8 - k + i] /\ e[8 - k + i] \in Byte
                BY <1>2, <1>6, <4>1, ZenonT(60)
            <4>3. Complement(Low(d, k))[i] = 255 - d[8 - k + i] /\ Low(e, k)[i] = e[8 - k + i]
                BY <2>2, <2>3, <3>1
            <4> QED
                BY <4>2, <4>3 DEF Byte
        <3> QED
            BY <2>3, <3>1, <3>2, SeqEqual
    <2>6. ~(Low(d, k)[1] < 128)
        <3>1. 1 \in 1 .. k /\ 8 - k + 1 \in 1 .. 8
            BY <2>1
        <3>2. Low(d, k)[1] = d[8 - k + 1] /\ d[8 - k + 1] >= 128 /\ d[8 - k + 1] \in Byte
            BY <1>6, <1>8, <2>2, <3>1 DEF AtLeast
        <3> QED
            BY <3>2 DEF Byte
    <2>7. Reader!TwosComplement(Low(d, k)) = -1 - Reader!BigEndian(Low(e, k))
        BY <2>5, <2>6 DEF Reader!TwosComplement, Complement
    <2>8. Reader!BigEndian(Low(e, k)) = m
        BY <1>4, <2>4
    <2> QED
        BY <1>1, <2>2, <2>4, <2>7, <2>8
<1>9. ASSUME AtLeast(d, 1) PROVE Last(d) - 256 = n /\ Last(d) \in Byte
    <2>1. 1 \in Width /\ Below(e, 1)
        BY <1>8, <1>9 DEF Width
    <2>2. Last(e) = m
        BY <1>1, <1>2, <2>1, DigitsNumber DEF e
    <2>3. Last(d) = 255 - m /\ Last(d) \in Byte
        BY <1>2, <1>6, <2>2 DEF Last
    <2> QED
        BY <1>1, <2>3
<1> QED
    BY <1>6, <1>7, <1>8, <1>9 DEF d

LEMMA IntAlone ==
    ASSUME NEW n \in Int, n < 0, Shortened(-1 - n)[8] = 0, Shortened(-1 - n)[7] < 128
    PROVE  Alone(<<"negative", n>>, pack_real_int(Int64(n)))
<1> DEFINE d == Int64(n)
           k == Least(IntWidths(d))
<1>1. d \in Number /\ Negative(d)
    BY NegativeIs
<1>2. /\ AtLeast(d, 1) => Last(d) - 256 = n /\ Last(d) \in Byte
      /\ \A j \in Width : AtLeast(d, j) => /\ Reader!TwosComplement(Low(d, j)) = n
                                           /\ Low(d, j) \in Seq(Byte) /\ Len(Low(d, j)) = j
    BY NegativeIs
<1> HIDE DEF d
<1>3. Reader!Integer(n) = <<"negative", n>>
    BY DEF Reader!Integer
<1>4. CASE AtLeast(d, 1) /\ Last(d) >= 224 /\ pack_real_int(d) = Low(d, 1)
    <2>1. Low(d, 1) = <<Last(d)>>
        BY <1>1, LastByte
    <2> DEFINE b == Last(d)
    <2>a. b \in Byte /\ b >= 224 /\ b - 256 = n
        BY <1>2, <1>4
    <2> HIDE DEF b
    <2>2. b \in Byte /\ b \in 224 .. 255 /\ b - 256 = n
        BY <2>a DEF Byte
    <2>3. ByteFront(b, <<"negative", n>>)
        <3>1. ByteFront(b, Reader!Integer(b - 256))
            BY <2>2, Fronts, ZenonT(60)
        <3> QED
            BY <1>3, <2>2, <3>1
    <2>4. Alone(<<"negative", n>>, <<b>>)
        BY <2>2, <2>3, SingleAlone
    <2> QED
        BY <1>4, <2>1, <2>4 DEF d, b
<1>5. CASE pack_real_int(d) = <<208 + Log(k)>> \o Low(d, k)
    <2>1. k \in Width /\ AtLeast(d, k)
        BY <1>1, IntWidth DEF IntWidths
    <2> HIDE DEF k
    <2>2. Reader!TwosComplement(Low(d, k)) = n /\ Low(d, k) \in Seq(Byte) /\ Len(Low(d, k)) = k
        BY <1>2, <2>1
    <2>3. Alone(Reader!Value("signed", Low(d, k)), <<208 + Log(k)>> \o Low(d, k))
        BY <2>1, <2>2, NumberFront, FixedAlone
    <2>4. Reader!Value("signed", Low(d, k)) = <<"negative", n>>
        BY <1>3, <2>2 DEF Reader!Value
    <2> QED
        BY <1>5, <2>3, <2>4 DEF d
<1> QED
    BY <1>1, <1>4, <1>5, IntForm DEF d
-----------------------------------------------------------------------------
(* Sizes in headers. *)

\* A size, in the header itself or behind its first byte.
LEMMA SizeBytes ==
    ASSUME NEW n \in Nat, SizeFits(n)
    PROVE  /\ Int64(n) \in SizeT
           /\ Below(Int64(n), 1) => Last(Int64(n)) = n /\ n \in Byte
           /\ \A k \in {1, 2, 4} : Below(Int64(n), k) =>
                 /\ Low(Int64(n), k) \in Seq(Byte) /\ Len(Low(Int64(n), k)) = k
                 /\ Reader!BigEndian(Low(Int64(n), k)) = n
<1>1. Int64(n) \in SizeT
    BY SizeSays
<1>2. Int64(n) \in Number
    BY <1>1, SizeIs
<1>3. 0 \in Byte
    BY DEF Byte
<1> QED
    BY <1>1, <1>2, <1>3, SizeSays, SizeLow, LastByte

\* The header byte of a size in k bytes.
LEMMA SizeFront ==
    /\ \A k \in {1, 2, 4} : /\ 217 + Log(k) - 0 \in Byte /\ SizedFront(217 + Log(k) - 0, k, "str")
                            /\ 196 + Log(k) - 0 \in Byte /\ SizedFront(196 + Log(k) - 0, k, "bin")
                            /\ 199 + Log(k) - 0 \in Byte /\ SizedFront(199 + Log(k) - 0, k, "ext")
    /\ \A k \in {2, 4} : /\ 220 + Log(k) - 1 \in Byte /\ SizedOpensFront(220 + Log(k) - 1, k, "array")
                         /\ 222 + Log(k) - 1 \in Byte /\ SizedOpensFront(222 + Log(k) - 1, k, "map")
<1>1. ASSUME NEW k \in {1, 2, 4}
      PROVE  /\ 217 + Log(k) - 0 \in Byte /\ SizedFront(217 + Log(k) - 0, k, "str")
             /\ 196 + Log(k) - 0 \in Byte /\ SizedFront(196 + Log(k) - 0, k, "bin")
             /\ 199 + Log(k) - 0 \in Byte /\ SizedFront(199 + Log(k) - 0, k, "ext")
    <2> DEFINE l == Log(k)
    <2>1. l \in 0 .. 2 /\ <<1, 2, 4>>[l + 1] = k
        BY LogIs
    <2> HIDE DEF l
    <2>2. /\ 217 + l \in Byte /\ 217 + l \in 217 .. 219 /\ (217 + l) - 216 = l + 1 /\ 217 + l - 0 = 217 + l
          /\ 196 + l \in Byte /\ 196 + l \in 196 .. 198 /\ (196 + l) - 195 = l + 1 /\ 196 + l - 0 = 196 + l
          /\ 199 + l \in Byte /\ 199 + l \in 199 .. 201 /\ (199 + l) - 198 = l + 1 /\ 199 + l - 0 = 199 + l
        BY <2>1 DEF Byte
    <2>3. SizedFront(217 + l, <<1, 2, 4>>[(217 + l) - 216], "str")
        BY <2>2, Fronts
    <2>4. SizedFront(196 + l, <<1, 2, 4>>[(196 + l) - 195], "bin")
        BY <2>2, Fronts
    <2>5. SizedFront(199 + l, <<1, 2, 4>>[(199 + l) - 198], "ext")
        BY <2>2, Fronts
    <2> QED
        BY <2>1, <2>2, <2>3, <2>4, <2>5 DEF l
<1>2. ASSUME NEW k \in {2, 4}
      PROVE  /\ 220 + Log(k) - 1 \in Byte /\ SizedOpensFront(220 + Log(k) - 1, k, "array")
             /\ 222 + Log(k) - 1 \in Byte /\ SizedOpensFront(222 + Log(k) - 1, k, "map")
    <2> DEFINE l == Log(k)
    <2>1. l \in 1 .. 2 /\ <<2, 4>>[l] = k
        BY LogIs
    <2> HIDE DEF l
    <2>2. /\ 220 + l - 1 \in Byte /\ 220 + l - 1 \in 220 .. 221 /\ (220 + l - 1) - 219 = l
          /\ 222 + l - 1 \in Byte /\ 222 + l - 1 \in 222 .. 223 /\ (222 + l - 1) - 221 = l
        BY <2>1 DEF Byte
    <2>3. SizedOpensFront(220 + l - 1, <<2, 4>>[(220 + l - 1) - 219], "array")
        BY <2>2, Fronts
    <2>4. SizedOpensFront(222 + l - 1, <<2, 4>>[(222 + l - 1) - 221], "map")
        BY <2>2, Fronts
    <2> QED
        BY <2>1, <2>2, <2>3, <2>4 DEF l
<1> QED
    BY <1>1, <1>2

LEMMA OffsetIs == Offset({2, 4}) = 1 /\ Offset({1, 2, 4}) = 0
<1>1. {1, 2, 4} # {2, 4}
    OBVIOUS
<1> QED
    BY <1>1 DEF Offset

LEMMA ArrayHeader == ASSUME NEW n \in Nat, SizeFits(n) PROVE Header(pack_array(Int64(n)), "array", n)
<1> DEFINE d == Int64(n)
           h == pack_array(d)
<1>1. /\ d \in SizeT /\ (Below(d, 1) => Last(d) = n /\ n \in Byte)
      /\ \A k \in {1, 2, 4} : Below(d, k) => /\ Low(d, k) \in Seq(Byte) /\ Len(Low(d, k)) = k
                                             /\ Reader!BigEndian(Low(d, k)) = n
    BY SizeBytes
<1> HIDE DEF d
<1>2. OfSize(d, 144, 16, 220, {2, 4}, h)
    BY <1>1, SizeForm DEF pack_array
<1>3. CASE Below(d, 1) /\ Last(d) < 16 /\ h = <<144 + Last(d)>>
    <2>1. n \in Byte /\ n < 16 /\ h = <<144 + n>>
        BY <1>1, <1>3
    <2>2. 144 + n \in Byte /\ 144 + n \in 144 .. 159 /\ (144 + n) - 144 = n
        BY <2>1 DEF Byte
    <2>3. OpensFront(144 + n, "array", n)
        <3>1. OpensFront(144 + n, "array", (144 + n) - 144)
            BY <2>2, Fronts, ZenonT(60)
        <3> QED
            BY <2>2, <3>1
    <2> QED
        BY <2>1, <2>2, <2>3, SingleHeader DEF d
<1>4. CASE \E k \in {2, 4} : Below(d, k) /\ h = <<220 + Log(k) - Offset({2, 4})>> \o Low(d, k)
    <2>1. PICK k \in {2, 4} : Below(d, k) /\ h = <<220 + Log(k) - 1>> \o Low(d, k)
        BY <1>4, OffsetIs
    <2>2. Low(d, k) \in Seq(Byte) /\ Len(Low(d, k)) = k /\ Reader!BigEndian(Low(d, k)) = n
        BY <1>1, <2>1
    <2>3. 220 + Log(k) - 1 \in Byte /\ SizedOpensFront(220 + Log(k) - 1, k, "array")
        BY SizeFront
    <2> QED
        BY <2>1, <2>2, <2>3, SizedHeader DEF d
<1> QED
    BY <1>2, <1>3, <1>4 DEF OfSize, d

LEMMA MapHeader == ASSUME NEW n \in Nat, SizeFits(n) PROVE Header(pack_map(Int64(n)), "map", n)
<1> DEFINE d == Int64(n)
           h == pack_map(d)
<1>1. /\ d \in SizeT /\ (Below(d, 1) => Last(d) = n /\ n \in Byte)
      /\ \A k \in {1, 2, 4} : Below(d, k) => /\ Low(d, k) \in Seq(Byte) /\ Len(Low(d, k)) = k
                                             /\ Reader!BigEndian(Low(d, k)) = n
    BY SizeBytes
<1> HIDE DEF d
<1>2. OfSize(d, 128, 16, 222, {2, 4}, h)
    BY <1>1, SizeForm DEF pack_map
<1>3. CASE Below(d, 1) /\ Last(d) < 16 /\ h = <<128 + Last(d)>>
    <2>1. n \in Byte /\ n < 16 /\ h = <<128 + n>>
        BY <1>1, <1>3
    <2>2. 128 + n \in Byte /\ 128 + n \in 128 .. 143 /\ (128 + n) - 128 = n
        BY <2>1 DEF Byte
    <2>3. OpensFront(128 + n, "map", n)
        <3>1. OpensFront(128 + n, "map", (128 + n) - 128)
            BY <2>2, Fronts, ZenonT(60)
        <3> QED
            BY <2>2, <3>1
    <2> QED
        BY <2>1, <2>2, <2>3, SingleHeader DEF d
<1>4. CASE \E k \in {2, 4} : Below(d, k) /\ h = <<222 + Log(k) - Offset({2, 4})>> \o Low(d, k)
    <2>1. PICK k \in {2, 4} : Below(d, k) /\ h = <<222 + Log(k) - 1>> \o Low(d, k)
        BY <1>4, OffsetIs, SMTT(30)
    <2>2. Low(d, k) \in Seq(Byte) /\ Len(Low(d, k)) = k /\ Reader!BigEndian(Low(d, k)) = n
        BY <1>1, <2>1
    <2>3. 222 + Log(k) - 1 \in Byte /\ SizedOpensFront(222 + Log(k) - 1, k, "map")
        BY SizeFront
    <2> QED
        BY <2>1, <2>2, <2>3, SizedHeader DEF d
<1> QED
    BY <1>2, <1>3, <1>4 DEF OfSize, d

LEMMA StrAlone ==
    ASSUME NEW b \in Seq(Byte), SizeFits(Len(b))
    PROVE  Alone(<<"str", b>>, pack_str(Int64(Len(b))) \o b)
<1> DEFINE n == Len(b)
           d == Int64(n)
           h == pack_str(d)
<1>0. n \in Nat /\ Reader!Value("str", b) = <<"str", b>>
    BY DEF Reader!Value
<1>1. /\ d \in SizeT /\ (Below(d, 1) => Last(d) = n /\ n \in Byte)
      /\ \A k \in {1, 2, 4} : Below(d, k) => /\ Low(d, k) \in Seq(Byte) /\ Len(Low(d, k)) = k
                                             /\ Reader!BigEndian(Low(d, k)) = n
    BY <1>0, SizeBytes
<1> HIDE DEF d
<1>2. OfSize(d, 160, 32, 217, {1, 2, 4}, h)
    BY <1>1, SizeForm DEF pack_str
<1>3. CASE Below(d, 1) /\ Last(d) < 32 /\ h = <<160 + Last(d)>>
    <2>1. n \in Byte /\ n < 32 /\ h = <<160 + n>>
        BY <1>1, <1>3
    <2>2. 160 + n \in Byte /\ 160 + n \in 160 .. 191 /\ (160 + n) - 160 = n
        <3> HIDE DEF n
        <3> QED
            BY <2>1 DEF Byte
    <2>3. FixedFront(160 + n, n, "str")
        <3> HIDE DEF n
        <3>1. FixedFront(160 + n, (160 + n) - 160, "str")
            BY <2>2, Fronts, ZenonT(60)
        <3> QED
            BY <2>2, <3>1
    <2>4. Alone(Reader!Value("str", b), <<160 + n>> \o b)
        BY <2>2, <2>3, FixedAlone
    <2> QED
        BY <1>0, <2>1, <2>4 DEF d
<1>4. CASE \E k \in {1, 2, 4} : Below(d, k) /\ h = <<217 + Log(k) - Offset({1, 2, 4})>> \o Low(d, k)
    <2>1. PICK k \in {1, 2, 4} : Below(d, k) /\ h = <<217 + Log(k) - 0>> \o Low(d, k)
        BY <1>4, OffsetIs, ZenonT(60)
    <2>2. Low(d, k) \in Seq(Byte) /\ Len(Low(d, k)) = k /\ Reader!BigEndian(Low(d, k)) = n
        BY <1>1, <2>1
    <2>3. 217 + Log(k) - 0 \in Byte /\ SizedFront(217 + Log(k) - 0, k, "str")
        BY SizeFront
    <2>4. Alone(Reader!Value("str", b), (<<217 + Log(k) - 0>> \o Low(d, k)) \o b)
        BY <1>0, <2>2, <2>3, SizedAlone
    <2> QED
        BY <1>0, <2>1, <2>4 DEF d
<1> QED
    BY <1>2, <1>3, <1>4 DEF OfSize, d

LEMMA BinAlone ==
    ASSUME NEW b \in Seq(Byte), SizeFits(Len(b))
    PROVE  Alone(<<"bin", b>>, pack_bin(Int64(Len(b))) \o b)
<1> DEFINE n == Len(b)
           d == Int64(n)
           h == pack_bin(d)
<1>0. n \in Nat /\ Reader!Value("bin", b) = <<"bin", b>>
    BY DEF Reader!Value
<1>1. /\ d \in SizeT /\ (Below(d, 1) => Last(d) = n /\ n \in Byte)
      /\ \A k \in {1, 2, 4} : Below(d, k) => /\ Low(d, k) \in Seq(Byte) /\ Len(Low(d, k)) = k
                                             /\ Reader!BigEndian(Low(d, k)) = n
    BY <1>0, SizeBytes
<1> HIDE DEF d
<1>2. OfSize(d, 0, 0, 196, {1, 2, 4}, h)
    BY <1>1, SizeForm DEF pack_bin
<1>3. CASE Below(d, 1) /\ Last(d) < 0 /\ h = <<0 + Last(d)>>
    BY <1>0, <1>1, <1>3
<1>4. CASE \E k \in {1, 2, 4} : Below(d, k) /\ h = <<196 + Log(k) - Offset({1, 2, 4})>> \o Low(d, k)
    <2>1. PICK k \in {1, 2, 4} : Below(d, k) /\ h = <<196 + Log(k) - 0>> \o Low(d, k)
        BY <1>4, OffsetIs, ZenonT(60)
    <2>2. Low(d, k) \in Seq(Byte) /\ Len(Low(d, k)) = k /\ Reader!BigEndian(Low(d, k)) = n
        BY <1>1, <2>1
    <2>3. 196 + Log(k) - 0 \in Byte /\ SizedFront(196 + Log(k) - 0, k, "bin")
        BY SizeFront
    <2>4. Alone(Reader!Value("bin", b), (<<196 + Log(k) - 0>> \o Low(d, k)) \o b)
        BY <1>0, <2>2, <2>3, SizedAlone
    <2> QED
        BY <1>0, <2>1, <2>4 DEF d
<1> QED
    BY <1>2, <1>3, <1>4 DEF OfSize, d

LEMMA ExtType ==
    ASSUME NEW type \in -128 .. 127
    PROVE  /\ type % 256 \in Byte /\ Reader!TwosComplement(<<type % 256>>) = type
           /\ type = -1 => type % 256 = 255
<1> DEFINE t == type % 256
<1>1. t \in Byte /\ (type = -1 => t = 255) /\ (t < 128 => t = type) /\ (~(t < 128) => -1 - (255 - t) = type)
    BY DEF Byte
<1> HIDE DEF t
<1>2. <<t>> \in Seq(Byte) /\ Len(<<t>>) = 1 /\ <<t>>[1] = t /\ 255 - t \in Byte
    BY <1>1, ByteTurned
<1>3. Complement(<<t>>) = <<255 - t>>
    <2>1. 1 \in Nat /\ 1 \in 1 .. 1
        OBVIOUS
    <2>2. /\ Complement(<<t>>) \in Seq(Byte) /\ Len(Complement(<<t>>)) = 1
          /\ Complement(<<t>>)[1] = 255 - t
        BY <1>2, <2>1, ComplementIs
    <2> QED
        BY <2>2, OneByte
<1>4. Reader!TwosComplement(<<t>>) = IF t < 128 THEN t ELSE -1 - (255 - t)
    <2>1. Reader!BigEndian(<<t>>) = t /\ Reader!BigEndian(<<255 - t>>) = 255 - t
        BY <1>1, <1>2, OneSays
    <2> QED
        BY <1>2, <1>3, <2>1 DEF Reader!TwosComplement, Complement
<1> QED
    BY <1>1, <1>4 DEF t

LEMMA FixExtFront ==
    ASSUME NEW n \in FixExtSize
    PROVE  /\ 212 + FixExtCode(n) \in Byte /\ FixedFront(212 + FixExtCode(n), n + 1, "ext")
<1> DEFINE P(i) == i \in 0 .. 4 /\ <<1, 2, 4, 8, 16>>[i + 1] = n
           l == FixExtCode(n)
<1>1. l = CHOOSE i : P(i)
    BY DEF FixExtCode
<1>2. \E i : P(i)
    <2>1. n = 1 \/ n = 2 \/ n = 4 \/ n = 8 \/ n = 16
        BY DEF FixExtSize
    <2>2. /\ <<1, 2, 4, 8, 16>>[0 + 1] = 1 /\ <<1, 2, 4, 8, 16>>[1 + 1] = 2
          /\ <<1, 2, 4, 8, 16>>[2 + 1] = 4 /\ <<1, 2, 4, 8, 16>>[3 + 1] = 8
          /\ <<1, 2, 4, 8, 16>>[4 + 1] = 16
        OBVIOUS
    <2>3. 0 \in 0 .. 4 /\ 1 \in 0 .. 4 /\ 2 \in 0 .. 4 /\ 3 \in 0 .. 4 /\ 4 \in 0 .. 4
        OBVIOUS
    <2> QED
        BY <2>1, <2>2, <2>3
<1>3. l \in 0 .. 4 /\ <<1, 2, 4, 8, 16>>[l + 1] = n
    <2>1. P(l)
        BY <1>1, <1>2
    <2> QED
        BY <2>1
<1> HIDE DEF l
<1>4. 212 + l \in Byte /\ 212 + l \in 212 .. 216 /\ (212 + l) - 211 = l + 1
    BY <1>3 DEF Byte
<1>5. FixedFront(212 + l, <<1, 2, 4, 8, 16>>[(212 + l) - 211] + 1, "ext")
    BY <1>4, Fronts
<1> QED
    BY <1>3, <1>4, <1>5 DEF l

LEMMA ExtAlone ==
    ASSUME NEW type \in -128 .. 127, NEW b \in Seq(Byte), SizeFits(Len(b))
    PROVE  /\ Alone(<<"ext", <<type, b>>>>, pack_ext(Int64(Len(b)), type % 256) \o b)
           /\ pack_ext(Int64(Len(b)), type % 256) \in Seq(Byte)
           /\ pack_ext(Int64(Len(b)), type % 256) # << >>
<1> DEFINE n == Len(b)
           d == Int64(n)
           t == type % 256
           h == pack_ext(d, t)
           r == <<t>> \o b
           o == <<"ext", <<type, b>>>>
<1>0. n \in Nat /\ t \in Byte /\ Reader!TwosComplement(<<t>>) = type
    BY ExtType
<1>1. /\ d \in SizeT /\ (Below(d, 1) => Last(d) = n /\ n \in Byte)
      /\ \A k \in {1, 2, 4} : Below(d, k) => /\ Low(d, k) \in Seq(Byte) /\ Len(Low(d, k)) = k
                                             /\ Reader!BigEndian(Low(d, k)) = n
    BY <1>0, SizeBytes
<1> HIDE DEF d, t, n
<1>2. r \in Seq(Byte) /\ Len(r) = n + 1 /\ r[1] = t /\ Tail(r) = b /\ <<t>> \in Seq(Byte)
    <2>1. Len(b) = n
        BY DEF n
    <2>2. 1 + n = n + 1
        BY <1>0
    <2> QED
        BY <1>0, <2>1, <2>2, HeadTail
<1> HIDE DEF r
<1>3. Reader!Value("ext", r) = o
    BY <1>0, <1>2 DEF Reader!Value
<1> HIDE DEF o
<1>4. CASE Below(d, 1) /\ Last(d) \in FixExtSize
    <2>1. n \in FixExtSize /\ Last(d) = n
        BY <1>1, <1>4
    <2> DEFINE c == 212 + FixExtCode(n)
    <2>2. h = <<c, t>>
        BY <1>4, <2>1 DEF pack_ext, FixExtCode
    <2>3. c \in Byte /\ FixedFront(c, n + 1, "ext")
        BY <2>1, FixExtFront
    <2> HIDE DEF c
    <2>4. Alone(o, <<c>> \o r)
        BY <1>2, <1>3, <2>3, FixedAlone
    <2>5. <<c>> \in Seq(Byte) /\ <<c, t>> = <<c>> \o <<t>> /\ <<c, t>> \in Seq(Byte) /\ <<c, t>> # << >>
        BY <1>0, <2>3
    <2>6. <<c, t>> \o b = <<c>> \o (<<t>> \o b)
        BY <1>2, <2>5, ThreeByteRows
    <2> QED
        BY <2>2, <2>4, <2>5, <2>6, ZenonT(60) DEF r, n, d, t, o
<1>5. CASE ~(Below(d, 1) /\ Last(d) \in FixExtSize)
    <2> DEFINE g == SizeHeader(d, 0, 0, 199, {1, 2, 4})
    <2>1. h = g \o <<t>>
        BY <1>5 DEF pack_ext
    <2>2. OfSize(d, 0, 0, 199, {1, 2, 4}, g)
        BY <1>1, SizeForm
    <2> HIDE DEF g
    <2>3. PICK k \in {1, 2, 4} : Below(d, k) /\ g = <<199 + Log(k) - 0>> \o Low(d, k)
        <3>1. ~(Below(d, 1) /\ Last(d) < 0)
            BY <1>0, <1>1
        <3> QED
            BY <2>2, <3>1, OffsetIs DEF OfSize
    <2>4. Low(d, k) \in Seq(Byte) /\ Len(Low(d, k)) = k /\ Reader!BigEndian(Low(d, k)) = n
        BY <1>1, <2>3
    <2>5. 199 + Log(k) - 0 \in Byte /\ SizedFront(199 + Log(k) - 0, k, "ext")
        BY SizeFront
    <2>6. Alone(o, g \o r)
        <3>1. Alone(Reader!Value("ext", r), (<<199 + Log(k) - 0>> \o Low(d, k)) \o r)
            BY <1>0, <1>2, <2>4, <2>5, SizedAlone
        <3> QED
            BY <1>3, <2>3, <3>1
    <2>7. g \in Seq(Byte) /\ g # << >>
        <3>1. <<199 + Log(k) - 0>> \in Seq(Byte) /\ <<199 + Log(k) - 0>> # << >>
            BY <2>5
        <3> HIDE DEF n, d
        <3> QED
            BY <2>3, <2>4, <3>1
    <2>8. g \o r = (g \o <<t>>) \o b /\ g \o <<t>> \in Seq(Byte)
        BY <1>2, <2>7, ThreeByteRows DEF r
    <2>9. g \o <<t>> # << >>
        BY <1>2, <2>7
    <2> QED
        BY <2>1, <2>6, <2>8, <2>9, ZenonT(60) DEF n, d, t, o
<1> QED
    BY <1>4, <1>5
-----------------------------------------------------------------------------
(* The pieces of an object. *)

\* An object that has none in it: a code in one piece or two.
LeafPieces(o) ==
    \/ \E a \in Seq(Byte) : /\ ObjectPieces(o[1], o[2]) = <<append(a)>>
                            /\ a # << >> /\ Alone(o, a)
    \/ \E a \in Seq(Byte), b \in Seq(Byte) :
            /\ ObjectPieces(o[1], o[2]) = <<append(a), append(b)>>
            /\ a # << >> /\ (b = << >> => Bodiless(o)) /\ Alone(o, a \o b)

\* A container: its header, and its items.
ContainerPieces(o) ==
    \E h \in Seq(Byte), os \in Seq(Items(o)), type \in {"array", "map"}, n \in Nat :
        /\ ObjectPieces(o[1], o[2]) = <<append(h)>> \o Objs(os)
        /\ Header(h, type, n)
        /\ Len(os) = (IF type = "map" THEN 2 * n ELSE n)
        /\ o = <<type, IF type = "map" THEN Reader!Pairs(os) ELSE os>>

LEMMA NumberBounds ==
    \A o : Holds(o) =>
        /\ o[1] = "positive" => o = <<"positive", o[2]>> /\ o[2] \in Nat /\ Shortened(o[2])[8] = 0
        /\ o[1] = "negative" => /\ o = <<"negative", o[2]>> /\ o[2] \in Int /\ o[2] < 0
                                /\ Shortened(-1 - o[2])[8] = 0 /\ Shortened(-1 - o[2])[7] < 128
<1> SUFFICES ASSUME NEW o, Holds(o)
             PROVE  /\ o[1] = "positive" => o = <<"positive", o[2]>> /\ o[2] \in Nat /\ Shortened(o[2])[8] = 0
                    /\ o[1] = "negative" => /\ o = <<"negative", o[2]>> /\ o[2] \in Int /\ o[2] < 0
                                            /\ Shortened(-1 - o[2])[8] = 0 /\ Shortened(-1 - o[2])[7] < 128
    OBVIOUS
<1>1. ASSUME o[1] = "positive"
      PROVE  o = <<"positive", o[2]>> /\ o[2] \in Nat /\ Shortened(o[2])[8] = 0
    <2>1. o = <<"positive", o[2]>> /\ o[2] \in Nat /\ SizeFits((o[2] \div 65536) \div 65536)
        BY <1>1 DEF Holds
    <2> QED
        BY <2>1, SmallShort
<1>2. ASSUME o[1] = "negative"
      PROVE  /\ o = <<"negative", o[2]>> /\ o[2] \in Int /\ o[2] < 0
             /\ Shortened(-1 - o[2])[8] = 0 /\ Shortened(-1 - o[2])[7] < 128
    <2>1. /\ o = <<"negative", o[2]>> /\ o[2] \in Int /\ o[2] < 0
          /\ (((-1 - o[2]) \div 65536) \div 65536) \div 65536 < 32768
        BY <1>2 DEF Holds
    <2>2. -1 - o[2] \in Nat
        BY <2>1
    <2> QED
        BY <2>1, <2>2, SmallShort
<1> QED
    BY <1>1, <1>2

LEMMA AlonePieces ==
    ASSUME NEW o, NEW a, Alone(o, a), ObjectPieces(o[1], o[2]) = <<append(a)>>
    PROVE  LeafPieces(o)
BY DEF LeafPieces, Alone

LEMMA PiecesOf ==
    \A v : /\ ObjectPieces("nil", v) = <<append(pack_nil)>>
           /\ ObjectPieces("boolean", v) = <<append(IF v THEN pack_true ELSE pack_false)>>
           /\ ObjectPieces("positive", v) = <<append(pack_real_uint(Int64(v)))>>
           /\ ObjectPieces("negative", v) = <<append(pack_real_int(Int64(v)))>>
           /\ ObjectPieces("float32", v) = <<append(pack_float(v))>>
           /\ ObjectPieces("float64", v) = <<append(pack_double(v))>>
           /\ ObjectPieces("str", v) = <<append(pack_str(Int64(Len(v)))), append(v)>>
           /\ ObjectPieces("bin", v) = <<append(pack_bin(Int64(Len(v)))), append(v)>>
           /\ ObjectPieces("ext", v) = <<append(pack_ext(Int64(Len(v[2])), v[1] % 256)), append(v[2])>>
           /\ ObjectPieces("array", v) = <<append(pack_array(Int64(Len(v))))>>
                                         \o [i \in DOMAIN v |-> object(v[i])]
           /\ ObjectPieces("map", v) = MapPieces(v)
BY DEF ObjectPieces, StrPieces, BinPieces, ExtPieces

LEMMA HoldsCases ==
    \A o : Holds(o) =>
        \/ o = Reader!NilObject /\ o[1] = "nil"
        \/ o = <<"boolean", o[2]>> /\ o[2] \in BOOLEAN /\ o[1] = "boolean"
        \/ o[1] = "positive"
        \/ o[1] = "negative"
        \/ o = <<"float32", o[2]>> /\ o[2] \in Seq(Byte) /\ Len(o[2]) = 4 /\ o[1] = "float32"
        \/ o = <<"float64", o[2]>> /\ o[2] \in Seq(Byte) /\ Len(o[2]) = 8 /\ o[1] = "float64"
        \/ o = <<"str", o[2]>> /\ o[2] \in Seq(Byte) /\ SizeFits(Len(o[2])) /\ o[1] = "str"
        \/ o = <<"bin", o[2]>> /\ o[2] \in Seq(Byte) /\ SizeFits(Len(o[2])) /\ o[1] = "bin"
        \/ /\ o = <<"ext", <<o[2][1], o[2][2]>>>> /\ o[2][1] \in -128 .. 127 /\ o[1] = "ext"
           /\ o[2][2] \in Seq(Byte) /\ SizeFits(Len(o[2][2]))
        \/ /\ o = <<"array", o[2]>> /\ SizeFits(Len(o[2])) /\ o[1] = "array"
           /\ o[2] \in Seq({o[2][i] : i \in DOMAIN o[2]})
        \/ /\ o = <<"map", o[2]>> /\ SizeFits(Len(o[2])) /\ o[1] = "map"
           /\ o[2] \in Seq({<<o[2][i][1], o[2][i][2]>> : i \in DOMAIN o[2]})
BY DEF Holds

\* The header of a string, or of a binary, has some bytes.
LEMMA HeadersAre ==
    \A n \in SizeT : /\ pack_str(n) \in Seq(Byte) /\ pack_str(n) # << >>
                     /\ pack_bin(n) \in Seq(Byte) /\ pack_bin(n) # << >>
<1> TAKE n \in SizeT
<1>1. n \in Number
    BY SizeIs
<1>2. OfSize(n, 160, 32, 217, {1, 2, 4}, pack_str(n)) /\ OfSize(n, 0, 0, 196, {1, 2, 4}, pack_bin(n))
    BY SizeForm DEF pack_str, pack_bin
<1>3. pack_str(n) \in Seq(Byte) /\ pack_bin(n) \in Seq(Byte)
    BY StrSays, BinSays
<1>4. ASSUME NEW k \in {1, 2, 4}, Below(n, k), NEW c \in Byte
      PROVE  <<c>> \o Low(n, k) # << >>
    <2>1. Len(<<c>> \o Low(n, k)) = 1 + k
        BY <1>4, SizeLow
    <2> QED
        BY <2>1
<1>5. \A k \in {1, 2, 4} : 217 + Log(k) - 0 \in Byte /\ 196 + Log(k) - 0 \in Byte
    BY SizeFront
<1>6. pack_str(n) # << >>
    <2>1. CASE \E k \in {1, 2, 4} : Below(n, k) /\ pack_str(n) = <<217 + Log(k) - Offset({1, 2, 4})>> \o Low(n, k)
        BY <1>4, <1>5, <2>1, OffsetIs
    <2>2. CASE pack_str(n) = <<160 + Last(n)>>
        BY <2>2
    <2> QED
        BY <1>2, <2>1, <2>2 DEF OfSize
<1>7. pack_bin(n) # << >>
    <2>1. CASE \E k \in {1, 2, 4} : Below(n, k) /\ pack_bin(n) = <<196 + Log(k) - Offset({1, 2, 4})>> \o Low(n, k)
        BY <1>4, <1>5, <2>1, OffsetIs
    <2>2. CASE pack_bin(n) = <<0 + Last(n)>>
        BY <2>2
    <2> QED
        BY <1>2, <2>1, <2>2 DEF OfSize
<1> QED
    BY <1>3, <1>6, <1>7

LEMMA LeafIs ==
    ASSUME NEW o, Holds(o), o[1] \notin {"array", "map"}
    PROVE  LeafPieces(o)
<1> DEFINE v == o[2]
<1>1. CASE o = Reader!NilObject /\ o[1] = "nil"
    <2>1. ObjectPieces(o[1], v) = <<append(pack_nil)>>
        BY <1>1, PiecesOf
    <2> QED
        BY <1>1, <2>1, ConstantsAlone, AlonePieces
<1>2. CASE o = <<"boolean", v>> /\ v \in BOOLEAN /\ o[1] = "boolean"
    <2>1. ObjectPieces(o[1], v) = <<append(IF v THEN pack_true ELSE pack_false)>>
        BY <1>2, PiecesOf
    <2>2. CASE v = TRUE
        <3>1. ObjectPieces(o[1], v) = <<append(pack_true)>> /\ o = <<"boolean", TRUE>>
            BY <1>2, <2>1, <2>2
        <3> QED
            BY <3>1, ConstantsAlone, AlonePieces
    <2>3. CASE v = FALSE
        <3>1. ObjectPieces(o[1], v) = <<append(pack_false)>> /\ o = <<"boolean", FALSE>>
            BY <1>2, <2>1, <2>3
        <3> QED
            BY <3>1, ConstantsAlone, AlonePieces
    <2> QED
        BY <1>2, <2>2, <2>3
<1>3. CASE o[1] = "positive"
    <2>1. o = <<"positive", v>> /\ v \in Nat /\ Shortened(v)[8] = 0
        BY <1>3, NumberBounds
    <2>2. Alone(<<"positive", v>>, pack_real_uint(Digits(v))) /\ Int64(v) = Digits(v)
        BY <2>1, UintAlone DEF Int64
    <2>3. ObjectPieces(o[1], v) = <<append(pack_real_uint(Int64(v)))>>
        BY <1>3, PiecesOf
    <2> QED
        BY <2>1, <2>2, <2>3, AlonePieces
<1>4. CASE o[1] = "negative"
    <2>1. /\ o = <<"negative", v>> /\ v \in Int /\ v < 0
          /\ Shortened(-1 - v)[8] = 0 /\ Shortened(-1 - v)[7] < 128
        BY <1>4, NumberBounds
    <2>2. Alone(<<"negative", v>>, pack_real_int(Int64(v)))
        BY <2>1, IntAlone
    <2>3. ObjectPieces(o[1], v) = <<append(pack_real_int(Int64(v)))>>
        BY <1>4, PiecesOf
    <2> QED
        BY <2>1, <2>2, <2>3, AlonePieces
<1>5. CASE o = <<"float32", v>> /\ v \in Seq(Byte) /\ Len(v) = 4 /\ o[1] = "float32"
    <2>1. ObjectPieces(o[1], v) = <<append(pack_float(v))>> /\ Alone(<<"float32", v>>, pack_float(v))
        BY <1>5, PiecesOf, FloatsAlone
    <2> QED
        BY <1>5, <2>1, AlonePieces
<1>6. CASE o = <<"float64", v>> /\ v \in Seq(Byte) /\ Len(v) = 8 /\ o[1] = "float64"
    <2>1. ObjectPieces(o[1], v) = <<append(pack_double(v))>> /\ Alone(<<"float64", v>>, pack_double(v))
        BY <1>6, PiecesOf, FloatsAlone
    <2> QED
        BY <1>6, <2>1, AlonePieces
<1>7. CASE o = <<"str", v>> /\ v \in Seq(Byte) /\ SizeFits(Len(v)) /\ o[1] = "str"
    <2> DEFINE a == pack_str(Int64(Len(v)))
    <2>1. ObjectPieces(o[1], v) = <<append(a), append(v)>>
        BY <1>7, PiecesOf
    <2>2. Alone(o, a \o v)
        BY <1>7, StrAlone
    <2>3. a \in Seq(Byte) /\ a # << >>
        BY <1>7, SizeBytes, HeadersAre
    <2>4. v = << >> => Bodiless(o)
        BY <1>7 DEF Bodiless
    <2> QED
        BY <1>7, <2>1, <2>2, <2>3, <2>4 DEF LeafPieces
<1>8. CASE o = <<"bin", v>> /\ v \in Seq(Byte) /\ SizeFits(Len(v)) /\ o[1] = "bin"
    <2> DEFINE a == pack_bin(Int64(Len(v)))
    <2>1. ObjectPieces(o[1], v) = <<append(a), append(v)>>
        BY <1>8, PiecesOf
    <2>2. Alone(o, a \o v)
        BY <1>8, BinAlone
    <2>3. a \in Seq(Byte) /\ a # << >>
        BY <1>8, SizeBytes, HeadersAre
    <2>4. v = << >> => Bodiless(o)
        BY <1>8 DEF Bodiless
    <2> QED
        BY <1>8, <2>1, <2>2, <2>3, <2>4 DEF LeafPieces
<1>9. CASE /\ o = <<"ext", <<v[1], v[2]>>>> /\ v[1] \in -128 .. 127 /\ o[1] = "ext"
           /\ v[2] \in Seq(Byte) /\ SizeFits(Len(v[2]))
    <2> DEFINE a == pack_ext(Int64(Len(v[2])), v[1] % 256)
    <2>1. ObjectPieces(o[1], v) = <<append(a), append(v[2])>>
        BY <1>9, PiecesOf, ZenonT(60)
    <2>2. Alone(o, a \o v[2]) /\ a \in Seq(Byte) /\ a # << >>
        <3>1. /\ Alone(<<"ext", <<v[1], v[2]>>>>, pack_ext(Int64(Len(v[2])), v[1] % 256) \o v[2])
              /\ pack_ext(Int64(Len(v[2])), v[1] % 256) \in Seq(Byte)
              /\ pack_ext(Int64(Len(v[2])), v[1] % 256) # << >>
            BY <1>9, ExtAlone, ZenonT(60)
        <3> HIDE DEF v
        <3>2. Alone(o, pack_ext(Int64(Len(v[2])), v[1] % 256) \o v[2])
            BY <1>9, <3>1
        <3> QED
            BY <3>1, <3>2
    <2>4. v[2] = << >> => Bodiless(o)
        BY <1>9 DEF Bodiless
    <2> QED
        BY <1>9, <2>1, <2>2, <2>4 DEF LeafPieces
<1> QED
    <2>1. o[1] # "array" /\ o[1] # "map"
        OBVIOUS
    <2>2. \/ o = Reader!NilObject /\ o[1] = "nil"
          \/ o = <<"boolean", v>> /\ v \in BOOLEAN /\ o[1] = "boolean"
          \/ o[1] = "positive"
          \/ o[1] = "negative"
          \/ o = <<"float32", v>> /\ v \in Seq(Byte) /\ Len(v) = 4 /\ o[1] = "float32"
          \/ o = <<"float64", v>> /\ v \in Seq(Byte) /\ Len(v) = 8 /\ o[1] = "float64"
          \/ o = <<"str", v>> /\ v \in Seq(Byte) /\ SizeFits(Len(v)) /\ o[1] = "str"
          \/ o = <<"bin", v>> /\ v \in Seq(Byte) /\ SizeFits(Len(v)) /\ o[1] = "bin"
          \/ /\ o = <<"ext", <<v[1], v[2]>>>> /\ v[1] \in -128 .. 127 /\ o[1] = "ext"
             /\ v[2] \in Seq(Byte) /\ SizeFits(Len(v[2]))
        <3>1. \/ o = Reader!NilObject /\ o[1] = "nil"
              \/ o = <<"boolean", o[2]>> /\ o[2] \in BOOLEAN /\ o[1] = "boolean"
              \/ o[1] = "positive"
              \/ o[1] = "negative"
              \/ o = <<"float32", o[2]>> /\ o[2] \in Seq(Byte) /\ Len(o[2]) = 4 /\ o[1] = "float32"
              \/ o = <<"float64", o[2]>> /\ o[2] \in Seq(Byte) /\ Len(o[2]) = 8 /\ o[1] = "float64"
              \/ o = <<"str", o[2]>> /\ o[2] \in Seq(Byte) /\ SizeFits(Len(o[2])) /\ o[1] = "str"
              \/ o = <<"bin", o[2]>> /\ o[2] \in Seq(Byte) /\ SizeFits(Len(o[2])) /\ o[1] = "bin"
              \/ /\ o = <<"ext", <<o[2][1], o[2][2]>>>> /\ o[2][1] \in -128 .. 127 /\ o[1] = "ext"
                 /\ o[2][2] \in Seq(Byte) /\ SizeFits(Len(o[2][2]))
              \/ o[1] = "array" \/ o[1] = "map"
            BY HoldsCases, Zenon
        <3> HIDE DEF v
        <3>2. v = o[2]
            BY DEF v
        <3> QED
            BY <2>1, <3>1, <3>2
    <2> HIDE DEF v
    <2> QED
        BY <1>1, <1>2, <1>3, <1>4, <1>5, <1>6, <1>7, <1>8, <1>9, <2>2

\* The keys and values of a map in turn, and their pairs.
Flat(v) == [i \in 1 .. 2 * Len(v) |-> v[(i + 1) \div 2][2 - (i % 2)]]

LEMMA HalfOf ==
    /\ \A n \in Nat : \A i \in 1 .. 2 * n : (i + 1) \div 2 \in 1 .. n /\ 2 - (i % 2) \in 1 .. 2
    /\ \A k \in Int : /\ (2 * k - 1 + 1) \div 2 = k /\ 2 - ((2 * k - 1) % 2) = 1
                      /\ (2 * k + 1) \div 2 = k /\ 2 - ((2 * k) % 2) = 2
    /\ \A n \in Nat : (2 * n) \div 2 = n
OBVIOUS

LEMMA FlatIs ==
    ASSUME NEW v, v \in Seq({<<v[i][1], v[i][2]>> : i \in DOMAIN v}),
           NEW U, \A i \in DOMAIN v : v[i][1] \in U /\ v[i][2] \in U
    PROVE  /\ Flat(v) \in Seq(U) /\ Len(Flat(v)) = 2 * Len(v) /\ DOMAIN Flat(v) = 1 .. 2 * Len(v)
           /\ Reader!Pairs(Flat(v)) = v
<1> DEFINE n == Len(v)
           f == Flat(v)
           S == {<<v[i][1], v[i][2]>> : i \in DOMAIN v}
<1>1. n \in Nat /\ DOMAIN v = 1 .. n /\ \A i \in 1 .. n : v[i] \in S
    OBVIOUS
<1>2. \A i \in 1 .. n : v[i] = <<v[i][1], v[i][2]>>
    <2> TAKE i \in 1 .. n
    <2>1. PICK j \in DOMAIN v : v[i] = <<v[j][1], v[j][2]>>
        BY <1>1
    <2>2. v[i][1] = v[j][1] /\ v[i][2] = v[j][2]
        BY <2>1
    <2> QED
        BY <2>1, <2>2
<1> HIDE DEF S
<1>3. f = [i \in 1 .. 2 * n |-> v[(i + 1) \div 2][2 - (i % 2)]]
    BY DEF Flat
<1>u. \A i \in 1 .. n : v[i][1] \in U /\ v[i][2] \in U
    BY <1>1
<1> HIDE DEF n, f
<1>4. \A i \in 1 .. 2 * n : v[(i + 1) \div 2][2 - (i % 2)] \in U
    <2> TAKE i \in 1 .. 2 * n
    <2> DEFINE k == (i + 1) \div 2
               l == 2 - (i % 2)
    <2>1. k \in 1 .. n /\ l \in 1 .. 2
        BY <1>1, HalfOf
    <2> HIDE DEF k, l
    <2>2. l = 1 \/ l = 2
        BY <2>1
    <2>3. v[k][l] \in U
        BY <1>u, <2>1, <2>2
    <2> QED
        BY <2>3 DEF k, l
<1>5. 2 * n \in Nat
    BY <1>1
<1>6. f \in Seq(U) /\ Len(f) = 2 * n /\ DOMAIN f = 1 .. 2 * n
    <2> DEFINE e(i) == v[(i + 1) \div 2][2 - (i % 2)]
               m == 2 * n
    <2>1. m \in Nat /\ f = [i \in 1 .. m |-> e(i)] /\ \A i \in 1 .. m : e(i) \in U
        BY <1>3, <1>4, <1>5
    <2> HIDE DEF e, m
    <2>2. f \in [1 .. m -> U]
        BY <2>1
    <2>3. f \in Seq(U) /\ Len(f) = m /\ DOMAIN f = 1 .. m
        BY <2>1, <2>2
    <2> QED
        BY <2>3 DEF m
<1>7. \A k \in 1 .. n : <<f[2 * k - 1], f[2 * k]>> = v[k]
    <2> TAKE k \in 1 .. n
    <2>1. 2 * k - 1 \in 1 .. 2 * n /\ 2 * k \in 1 .. 2 * n /\ k \in Int
        BY <1>1
    <2>2. f[2 * k - 1] = v[(2 * k - 1 + 1) \div 2][2 - ((2 * k - 1) % 2)]
        BY <1>3, <2>1, Zenon
    <2>3. f[2 * k] = v[(2 * k + 1) \div 2][2 - ((2 * k) % 2)]
        BY <1>3, <2>1, Zenon
    <2>4. /\ (2 * k - 1 + 1) \div 2 = k /\ 2 - ((2 * k - 1) % 2) = 1
          /\ (2 * k + 1) \div 2 = k /\ 2 - ((2 * k) % 2) = 2
        BY <2>1, HalfOf
    <2>5. f[2 * k - 1] = v[k][1] /\ f[2 * k] = v[k][2]
        BY <2>2, <2>3, <2>4, Zenon
    <2> QED
        BY <1>2, <2>5
<1>8. Reader!Pairs(f) = [k \in 1 .. n |-> <<f[2 * k - 1], f[2 * k]>>]
    <2>1. Len(f) \div 2 = n
        BY <1>1, <1>6, HalfOf
    <2> QED
        BY <2>1 DEF Reader!Pairs
<1>9. Reader!Pairs(f) = v
    <2>1. Reader!Pairs(f) = [k \in 1 .. n |-> v[k]]
        BY <1>7, <1>8
    <2>2. v = [k \in 1 .. n |-> v[k]]
        BY <1>1 DEF n
    <2> QED
        BY <2>1, <2>2
<1> QED
    BY <1>6, <1>9 DEF f, n

LEMMA ContainerIs ==
    ASSUME NEW o, Holds(o), o[1] \in {"array", "map"}
    PROVE  ContainerPieces(o)
<1> DEFINE v == o[2]
           n == Len(v)
<1>1. CASE o[1] = "array"
    <2>1. o = <<"array", v>> /\ SizeFits(n) /\ v \in Seq({v[i] : i \in DOMAIN v})
        BY <1>1 DEF Holds
    <2>2. Items(o) = {v[i] : i \in DOMAIN v}
        BY <1>1 DEF Items
    <2>3. n \in Nat /\ v \in Seq(Items(o))
        BY <2>1, <2>2
    <2> DEFINE h == pack_array(Int64(n))
    <2>4. ObjectPieces(o[1], v) = <<append(h)>> \o Objs(v)
        BY <1>1, PiecesOf DEF Objs
    <2>5. Header(h, "array", n)
        BY <2>1, <2>3, ArrayHeader
    <2>6. h \in Seq(Byte)
        BY <2>5 DEF Header
    <2> HIDE DEF h, n
    <2>7. "array" \in {"array", "map"} /\ n = Len(v) /\ "array" # "map"
        BY DEF n
    <2> QED
        BY <2>1, <2>3, <2>4, <2>5, <2>6, <2>7 DEF ContainerPieces
<1>2. CASE o[1] = "map"
    <2>1. o = <<"map", v>> /\ SizeFits(n) /\ v \in Seq({<<v[i][1], v[i][2]>> : i \in DOMAIN v})
        BY <1>2 DEF Holds
    <2>2. Items(o) = {v[i][1] : i \in DOMAIN v} \cup {v[i][2] : i \in DOMAIN v}
        BY <1>2 DEF Items
    <2>3. n \in Nat
        BY <2>1
    <2> DEFINE h == pack_map(Int64(n))
               os == Flat(v)
    <2>4. os \in Seq(Items(o)) /\ Len(os) = 2 * n /\ DOMAIN os = 1 .. 2 * n /\ Reader!Pairs(os) = v
        <3>1. \A i \in DOMAIN v : v[i][1] \in Items(o) /\ v[i][2] \in Items(o)
            BY <2>2
        <3> QED
            BY <2>1, <3>1, FlatIs
    <2>5. ObjectPieces(o[1], v) = <<append(h)>> \o Objs(os)
        <3>1. ObjectPieces(o[1], v) = <<append(h)>> \o [i \in 1 .. 2 * n |-> object(v[(i + 1) \div 2][2 - (i % 2)])]
            BY <1>2, PiecesOf, ZenonT(60) DEF MapPieces
        <3>2. Objs(os) = [i \in 1 .. 2 * n |-> object(os[i])]
            BY <2>4 DEF Objs
        <3>3. \A i \in 1 .. 2 * n : os[i] = v[(i + 1) \div 2][2 - (i % 2)]
            BY DEF Flat
        <3>4. Objs(os) = [i \in 1 .. 2 * n |-> object(v[(i + 1) \div 2][2 - (i % 2)])]
            <4> HIDE DEF os, n, v
            <4> QED
                BY <3>2, <3>3, Zenon
        <3> QED
            BY <3>1, <3>4
    <2>6. Header(h, "map", n)
        BY <2>1, <2>3, MapHeader
    <2>7. h \in Seq(Byte)
        BY <2>6 DEF Header
    <2> HIDE DEF h, n, os
    <2>8. "map" \in {"array", "map"} /\ o = <<"map", Reader!Pairs(os)>>
        BY <2>1, <2>4
    <2> QED
        BY <2>3, <2>4, <2>5, <2>6, <2>7, <2>8 DEF ContainerPieces
<1> QED
    BY <1>1, <1>2
-----------------------------------------------------------------------------
(* The codes of all objects. *)

\* Objects by level, as deep as a reader can nest.
Row(L) ==
    \A k \in 0 .. Depth : \A o \in L[k] :
        /\ Holds(o)
        /\ IF k = Depth THEN o[1] \notin {"array", "map"} ELSE Items(o) \subseteq L[k + 1]

LEMMA OneAppend ==
    \A L : \A a \in Seq(Byte) : \A c : Spelled(L, <<append(a)>>, c) <=> c = a
<1> SUFFICES ASSUME NEW L, NEW a \in Seq(Byte), NEW c PROVE Spelled(L, <<append(a)>>, c) <=> c = a
    OBVIOUS
<1>1. \A x : Spells(L, append(a), x) <=> x = a
    BY PieceIs DEF Spells
<1> QED
    BY <1>1, SpelledOne

\* The piece p appends a.
Appends(p, a) == p.is = "append" /\ p.bytes = a

\* The bytes c are a and b.
Joins(c, a, b) == c = a \o b

LEMMA TwoPuts ==
    ASSUME NEW L, NEW p, NEW q, NEW A, A = <<p, q>>, NEW c, NEW a, NEW b,
           Appends(p, a), Appends(q, b), Spelled(L, A, c)
    PROVE  Joins(c, a, b)
<1> DEFINE P == {p, q}
<1>1. p \in P /\ q \in P
    OBVIOUS
<1> HIDE DEF P
<1>2. A \in Seq(P) /\ A # << >>
    BY <1>1
<1>3. A[1] = p /\ Tail(A) = <<q>>
    OBVIOUS
<1>4. FirstPuts(L, A, c)
    BY <1>2, SpelledTail
<1>5. PICK x \in Seq(Byte), y \in Seq(Byte) : Spells(L, p, x) /\ Spelled(L, <<q>>, y) /\ c = x \o y
    BY <1>3, <1>4 DEF FirstPuts
<1>6. x = a
    BY <1>5 DEF Spells, Appends
<1>7. Spells(L, q, y)
    BY <1>5, SpelledOne
<1>8. y = b
    BY <1>7 DEF Spells, Appends
<1> QED
    BY <1>5, <1>6, <1>8 DEF Joins

LEMMA AppendAppends == \A a : Appends(append(a), a) /\ Appends(Unchecked(a), a)
BY PieceIs DEF Appends

\* What the pieces of an object put is its code.
LEMMA OpenCode ==
    ASSUME Depth \in Nat, NEW L, Row(L), NEW o \in Within(L)
    PROVE  \A c : Spelled(L, ObjectPieces(o[1], o[2]), c) => Code(L, o, c)
<1> SUFFICES ASSUME NEW c, Spelled(L, ObjectPieces(o[1], o[2]), c) PROVE Code(L, o, c)
    OBVIOUS
<1>1. Holds(o)
    BY DEF Within, Row
<1>2. CASE o[1] \notin {"array", "map"}
    <2>1. LeafPieces(o)
        BY <1>1, <1>2, LeafIs
    <2>2. CASE \E a \in Seq(Byte) : ObjectPieces(o[1], o[2]) = <<append(a)>> /\ Alone(o, a)
        <3>1. PICK a \in Seq(Byte) : ObjectPieces(o[1], o[2]) = <<append(a)>> /\ Alone(o, a)
            BY <2>2
        <3>2. c = a
            BY <3>1, OneAppend
        <3> QED
            BY <3>1, <3>2, AloneCode
    <2>3. CASE \E a \in Seq(Byte), b \in Seq(Byte) :
                   ObjectPieces(o[1], o[2]) = <<append(a), append(b)>> /\ Alone(o, a \o b)
        <3>1. PICK a \in Seq(Byte), b \in Seq(Byte) :
                  ObjectPieces(o[1], o[2]) = <<append(a), append(b)>> /\ Alone(o, a \o b)
            BY <2>3
        <3> DEFINE p == append(a)
                   q == append(b)
        <3>2. Appends(p, a) /\ Appends(q, b)
            BY AppendAppends
        <3> HIDE DEF p, q
        <3>3. Spelled(L, ObjectPieces(o[1], o[2]), c) /\ ObjectPieces(o[1], o[2]) = <<p, q>>
            BY <3>1 DEF p, q
        <3>4. Joins(c, a, b)
            BY <3>2, <3>3, TwoPuts
        <3> QED
            BY <3>1, <3>4, AloneCode DEF Joins
    <2> QED
        BY <2>1, <2>2, <2>3 DEF LeafPieces
<1>3. CASE o[1] \in {"array", "map"}
    <2>1. PICK h \in Seq(Byte), os \in Seq(Items(o)), type \in {"array", "map"}, n \in Nat :
              /\ ObjectPieces(o[1], o[2]) = <<append(h)>> \o Objs(os)
              /\ Header(h, type, n)
              /\ Len(os) = (IF type = "map" THEN 2 * n ELSE n)
              /\ o = <<type, IF type = "map" THEN Reader!Pairs(os) ELSE os>>
        BY <1>1, <1>3, ContainerIs DEF ContainerPieces
    <2> DEFINE U == Items(o)
               V == {object(x) : x \in U}
               P == V \cup {append(h)}
               A == <<append(h)>> \o Objs(os)
    <2>2. Objs(os) \in Seq(V)
        BY ObjsIs, Zenon
    <2> HIDE DEF V
    <2>3. Objs(os) \in Seq(P) /\ append(h) \in P
        <3>1. Len(Objs(os)) \in Nat /\ \A j \in 1 .. Len(Objs(os)) : Objs(os)[j] \in P
            BY <2>2
        <3> QED
            BY <2>2, <3>1, SeqAlso
    <2> HIDE DEF P
    <2>4. A \in Seq(P) /\ A # << >> /\ A[1] = append(h) /\ Tail(A) = Objs(os)
        <3> DEFINE q == append(h)
                   B == Objs(os)
        <3> HIDE DEF q, B
        <3>1. q \in P /\ B \in Seq(P)
            BY <2>3 DEF q, B
        <3>2. /\ <<q>> \o B \in Seq(P) /\ <<q>> \o B # << >> /\ (<<q>> \o B)[1] = q /\ Tail(<<q>> \o B) = B
            BY <3>1
        <3> QED
            BY <3>2 DEF q, B
    <2> HIDE DEF A
    <2>5. PICK x \in Seq(Byte), d \in Seq(Byte) : Spells(L, A[1], x) /\ Spelled(L, Tail(A), d) /\ c = x \o d
        <3>1. Spelled(L, A, c)
            BY <2>1 DEF A
        <3>2. FirstPuts(L, A, c)
            BY <2>4, <3>1, SpelledTail
        <3> QED
            BY <3>2 DEF FirstPuts
    <2>6. x = h /\ Spelled(L, Objs(os), d)
        <3>1. Spells(L, append(h), x) => x = h
            BY PieceIs DEF Spells
        <3>2. Spells(L, append(h), x) /\ Spelled(L, Objs(os), d)
            BY <2>4, <2>5, Zenon
        <3> QED
            BY <3>1, <3>2, Zenon
    <2>7. \A k \in 0 .. Depth : o \in L[k] => k # Depth /\ \A j \in 1 .. Len(os) : os[j] \in L[k + 1]
        BY <1>3 DEF Row
    <2>8. Code(L, o, h \o d)
        BY <2>1, <2>6, <2>7, ContainerCode
    <2> QED
        BY <2>5, <2>6, <2>8
<1> QED
    BY <1>2, <1>3

\* The pieces of an object: appends, empty ones only of what has no body, and what is in it.
LEMMA PiecesIn ==
    ASSUME NEW o, Holds(o), NEW S,
           \A b \in Seq(Byte) : (b = << >> => Bodiless(o)) => append(b) \in S,
           \A x \in Items(o) : object(x) \in S
    PROVE  ObjectPieces(o[1], o[2]) \in Seq(S) /\ ObjectPieces(o[1], o[2]) # << >>
<1>1. CASE o[1] \notin {"array", "map"}
    <2>1. LeafPieces(o)
        BY <1>1, LeafIs
    <2>2. CASE \E a \in Seq(Byte) : ObjectPieces(o[1], o[2]) = <<append(a)>> /\ a # << >>
        <3>1. PICK a \in Seq(Byte) : ObjectPieces(o[1], o[2]) = <<append(a)>> /\ a # << >>
            BY <2>2
        <3> DEFINE p == append(a)
        <3>2. p \in S
            BY <3>1
        <3> HIDE DEF p
        <3>3. <<p>> \in Seq(S) /\ <<p>> # << >>
            BY <3>2
        <3> QED
            BY <3>1, <3>3 DEF p
    <2>3. CASE \E a \in Seq(Byte), b \in Seq(Byte) :
                   /\ ObjectPieces(o[1], o[2]) = <<append(a), append(b)>>
                   /\ a # << >> /\ (b = << >> => Bodiless(o))
        <3>1. PICK a \in Seq(Byte), b \in Seq(Byte) :
                   /\ ObjectPieces(o[1], o[2]) = <<append(a), append(b)>>
                   /\ a # << >> /\ (b = << >> => Bodiless(o))
            BY <2>3
        <3> DEFINE p == append(a)
                   q == append(b)
        <3>2. p \in S /\ q \in S
            BY <3>1
        <3> HIDE DEF p, q
        <3>3. <<p, q>> \in Seq(S) /\ <<p, q>> # << >>
            BY <3>2
        <3> QED
            BY <3>1, <3>3 DEF p, q
    <2> QED
        BY <2>1, <2>2, <2>3 DEF LeafPieces
<1>2. CASE o[1] \in {"array", "map"}
    <2>1. PICK h \in Seq(Byte), os \in Seq(Items(o)) :
              /\ ObjectPieces(o[1], o[2]) = <<append(h)>> \o Objs(os)
              /\ \E type, n : Header(h, type, n)
        BY <1>2, ContainerIs DEF ContainerPieces
    <2> DEFINE p == append(h)
               B == Objs(os)
               V == {object(x) : x \in Items(o)}
    <2>2. p \in S
        <3>1. h # << >>
            BY <2>1 DEF Header
        <3> QED
            BY <3>1
    <2>3. B \in Seq(V) /\ V \subseteq S
        BY ObjsIs
    <2> HIDE DEF p, B, V
    <2>4. B \in Seq(S)
        <3>1. \A j \in 1 .. Len(B) : B[j] \in S
            BY <2>3
        <3> QED
            BY <2>3, <3>1, SeqAlso
    <2>5. <<p>> \o B \in Seq(S) /\ <<p>> \o B # << >>
        BY <2>2, <2>4
    <2> QED
        BY <2>1, <2>5 DEF p, B
<1> QED
    BY <1>1, <1>2

\* An object has a code, if those in it have.
LEMMA CodeByItems ==
    ASSUME Depth \in Nat, NEW L, Row(L), NEW o \in Within(L), Items(o) \subseteq Within(L),
           \A x \in Items(o) : \E c : Code(L, x, c)
    PROVE  \E c : Code(L, o, c)
<1> DEFINE P == {append(b) : b \in Seq(Byte)} \cup {object(x) : x \in Items(o)}
           A == ObjectPieces(o[1], o[2])
<1>1. A \in Seq(P)
    <2>1. Holds(o)
        BY DEF Within, Row
    <2>2. \A b \in Seq(Byte) : (b = << >> => Bodiless(o)) => append(b) \in P
        OBVIOUS
    <2>3. \A x \in Items(o) : object(x) \in P
        OBVIOUS
    <2> HIDE DEF P
    <2> QED
        BY <2>1, <2>2, <2>3, PiecesIn
<1>2. P \subseteq PieceOf(L)
    BY DEF PieceOf
<1>3. \A p \in P : p.is = "object" => \E c : Code(L, p.obj, c)
    <2> SUFFICES ASSUME NEW p \in P, p.is = "object" PROVE \E c : Code(L, p.obj, c)
        OBVIOUS
    <2>1. ASSUME NEW b \in Seq(Byte) PROVE p # append(b)
        BY PieceIs
    <2>2. PICK x \in Items(o) : p = object(x)
        BY <2>1
    <2>3. p.obj = x
        BY <2>2, PieceIs
    <2> QED
        BY <2>3
<1> HIDE DEF P, A
<1>4. PICK b \in Seq(Byte) : Spelled(L, A, b)
    <2>1. \A B \in Seq(P) : \E b \in Seq(Byte) : Spelled(L, B, b)
        BY <1>2, <1>3, SpelledSomething
    <2> QED
        BY <1>1, <2>1
<1>5. Code(L, o, b)
    BY <1>4, OpenCode DEF A
<1> QED
    BY <1>5

\* Every object has one.
LEMMA CodesAre ==
    ASSUME Depth \in Nat, NEW L, Row(L)
    PROVE  \A o \in Within(L) : \E c : Code(L, o, c)
<1> DEFINE Have(k) == \A o \in L[k] : \E c : Code(L, o, c)
           S == {j \in Nat : \A k \in 0 .. Depth : k + j >= Depth => Have(k)}
<1>1. \A k \in 0 .. Depth : (k # Depth => Have(k + 1)) => Have(k)
    <2> SUFFICES ASSUME NEW k \in 0 .. Depth, k # Depth => Have(k + 1), NEW o \in L[k]
                 PROVE  \E c : Code(L, o, c)
        OBVIOUS
    <2>1. o \in Within(L)
        BY DEF Within
    <2>2. Items(o) \subseteq Within(L) /\ \A x \in Items(o) : \E c : Code(L, x, c)
        <3>1. CASE k = Depth
            <4>1. o[1] \notin {"array", "map"}
                BY <3>1 DEF Row
            <4>2. Items(o) = {}
                BY <4>1 DEF Items
            <4> QED
                BY <4>2
        <3>2. CASE k # Depth
            <4>1. Items(o) \subseteq L[k + 1] /\ k + 1 \in 0 .. Depth
                BY <3>2 DEF Row
            <4> QED
                BY <3>2, <4>1 DEF Within
        <3> QED
            BY <3>1, <3>2
    <2> QED
        BY <2>1, <2>2, CodeByItems
<1> HIDE DEF Have
<1>2. 0 \in S
    <2>1. \A k \in 0 .. Depth : k + 0 >= Depth => k = Depth
        OBVIOUS
    <2> QED
        BY <1>1, <2>1
<1>3. ASSUME NEW j \in Nat, j \in S PROVE j + 1 \in S
    <2>1. ASSUME NEW k \in 0 .. Depth, k + (j + 1) >= Depth PROVE Have(k)
        <3>1. k # Depth => k + 1 \in 0 .. Depth /\ (k + 1) + j >= Depth
            BY <2>1
        <3>2. k # Depth => Have(k + 1)
            BY <1>3, <3>1
        <3> QED
            BY <1>1, <3>2
    <2> QED
        BY <2>1
<1> HIDE DEF S
<1>4. \A j \in Nat : j \in S
    BY <1>2, <1>3, Induction
<1>5. \A k \in 0 .. Depth : Have(k)
    <2>1. Depth \in S
        BY <1>4
    <2>2. \A k \in 0 .. Depth : k + Depth >= Depth
        OBVIOUS
    <2> QED
        BY <2>1, <2>2 DEF S
<1> QED
    BY <1>5 DEF Have, Within

\* What may be left of a call: where the callback refuses none, a file, an append has some
\* bytes, and so has one whose result is not looked at, which is made where none is refused.
Task(L, full, sure) ==
    {p \in PieceOf(L) : p.is = "append" => \/ p.checked /\ ~full
                                           \/ p.bytes # << >> /\ (p.checked \/ sure)}

LEMMA TaskIs ==
    ASSUME NEW L, NEW full, NEW sure
    PROVE  /\ Task(L, full, sure) \subseteq PieceOf(L)
           /\ \A b \in Seq(Byte) : /\ full /\ b # << >> => append(b) \in Task(L, full, sure)
                                   /\ ~full => append(b) \in Task(L, full, sure)
                                   /\ b # << >> /\ sure => Unchecked(b) \in Task(L, full, sure)
           /\ \A o \in Within(L) : object(o) \in Task(L, full, sure)
<1>1. \A b \in Seq(Byte) : append(b) \in PieceOf(L) /\ Unchecked(b) \in PieceOf(L)
    BY DEF PieceOf
<1>2. \A o \in Within(L) : object(o) \in PieceOf(L)
    BY DEF PieceOf
<1> QED
    BY <1>1, <1>2, PieceIs DEF Task

LEMMA TaskSpelled ==
    ASSUME Depth \in Nat, NEW L, Row(L), NEW full, NEW sure
    PROVE  \A A \in Seq(Task(L, full, sure)) : \E b \in Seq(Byte) : Spelled(L, A, b)
<1> DEFINE P == Task(L, full, sure)
<1>1. \A p \in P : p.is = "object" => \E c : Code(L, p.obj, c)
    <2> SUFFICES ASSUME NEW p \in P, p.is = "object" PROVE \E c : Code(L, p.obj, c)
        OBVIOUS
    <2>1. p \in PieceOf(L)
        BY DEF Task
    <2>2. p.obj \in Within(L)
        BY <2>1, PieceTyped
    <2> QED
        BY <2>2, CodesAre
<1>2. P \subseteq PieceOf(L)
    BY DEF Task
<1> HIDE DEF P
<1>3. \A A \in Seq(P) : \E b \in Seq(Byte) : Spelled(L, A, b)
    BY <1>1, <1>2, SpelledSomething
<1> QED
    BY <1>3 DEF P

\* A level of the recursion leaves what may be put there.
LEMMA TaskOpened ==
    ASSUME Depth \in Nat, NEW L, Row(L), NEW full, NEW sure, NEW o \in Within(L), full => ~Bodiless(o)
    PROVE  ObjectPieces(o[1], o[2]) \in Seq(Task(L, full, sure))
<1> DEFINE S == Task(L, full, sure)
<1>1. PICK k \in 0 .. Depth : o \in L[k]
    BY DEF Within
<1>2. Holds(o)
    BY <1>1 DEF Row
<1>3. \A x \in Items(o) : x \in Within(L)
    <2>1. CASE k = Depth
        <3>1. o[1] \notin {"array", "map"}
            BY <1>1, <2>1 DEF Row
        <3> QED
            BY <3>1 DEF Items
    <2>2. CASE k # Depth
        <3>1. Items(o) \subseteq L[k + 1] /\ k + 1 \in 0 .. Depth
            BY <1>1, <2>2 DEF Row
        <3> QED
            BY <3>1 DEF Within
    <2> QED
        BY <2>1, <2>2
<1>4. \A x \in Items(o) : object(x) \in S
    BY <1>3, TaskIs
<1>5. \A b \in Seq(Byte) : (b = << >> => Bodiless(o)) => append(b) \in S
    BY TaskIs
<1> HIDE DEF S
<1>6. ObjectPieces(o[1], o[2]) \in Seq(S)
    BY <1>2, <1>4, <1>5, PiecesIn
<1> QED
    BY <1>6 DEF S

-----------------------------------------------------------------------------
(* Where a reader stops. *)

\* There is no whole object at index i of s.
Halts(s, i) == \A m \in Nat : m + i >= Len(s) => One(s, i, 0, m).is # "ok"

\* The bytes of the list are there and no object is behind them: no reader finds more.
ListStops(s, os, b) ==
    \A i \in 1 .. Len(s) + 1 : \A m, n \in Nat :
        /\ At(s, i, b) /\ There(s, i, b) /\ Halts(s, i + Len(b))
        /\ n > Len(os) /\ m + i >= Len(s) + 1
        => Many(s, i, 0, m, n).is # "ok"

LEMMA ListStopsNone == \A s \in Seq(Byte) : ListStops(s, << >>, << >>)
<1> SUFFICES ASSUME NEW s \in Seq(Byte), NEW i \in 1 .. Len(s) + 1, NEW m \in Nat, NEW n \in Nat,
                    Halts(s, i + Len(<< >>)), n > Len(<< >>), m + i >= Len(s) + 1
             PROVE  Many(s, i, 0, m, n).is # "ok"
    BY DEF ListStops
<1>1. Len(<< >>) = 0 /\ i + 0 = i /\ n # 0 /\ i \in Nat /\ Len(s) \in Nat /\ 0 \in Nat
    OBVIOUS
<1>2. CASE m = 0
    <2>1. Many(s, i, 0, m, n) = Reader!Not("more")
        BY <1>1, <1>2, ManyAtEnd
    <2> QED
        BY <2>1, OutcomeIs
<1>3. CASE m # 0
    <2>1. m - 1 \in Nat /\ n - 1 \in Nat /\ (m - 1) + 1 = m /\ (n - 1) + 1 = n
          /\ (m - 1) + i >= Len(s)
        BY <1>1, <1>3
    <2>2. One(s, i, 0, m - 1).is # "ok"
        BY <1>1, <2>1 DEF Halts
    <2>3. ManyIs(s, i, 0, m - 1, n - 1)
        BY <1>1, <2>1, ManyMore
    <2>4. Many(s, i, 0, m, n) = One(s, i, 0, m - 1)
        BY <2>1, <2>2, <2>3 DEF ManyIs
    <2> QED
        BY <2>2, <2>4
<1> QED
    BY <1>2, <1>3

LEMMA ListStopsFirst ==
    ASSUME Depth \in Nat, NEW L, NEW U, NEW o \in L[0], NEW os \in Seq(U), NEW c, Code(L, o, c),
           NEW d \in Seq(Byte), NEW s \in Seq(Byte), ListStops(s, os, d)
    PROVE  ListStops(s, <<o>> \o os, c \o d)
<1> DEFINE b == c \o d
           v == <<o>> \o os
<1>0. c \in Seq(Byte) /\ c # << >>
    BY DEF Code
<1>1. Len(v) = Len(os) + 1 /\ Len(os) \in Nat
    <2>1. <<o>> \in Seq({o} \cup U) /\ Len(<<o>>) = 1
        OBVIOUS
    <2> QED
        BY <2>1
<1>2. Len(b) = Len(c) + Len(d) /\ Len(c) \in Nat /\ Len(c) >= 1 /\ Len(d) \in Nat /\ Len(s) \in Nat
    BY <1>0
<1> HIDE DEF b, v
<1> SUFFICES ASSUME NEW i \in 1 .. Len(s) + 1, NEW m \in Nat, NEW n \in Nat,
                    At(s, i, b), There(s, i, b), Halts(s, i + Len(b)), n > Len(v),
                    m + i >= Len(s) + 1
             PROVE  Many(s, i, 0, m, n).is # "ok"
    BY DEF ListStops, b, v
<1> DEFINE i2 == i + Len(c)
<1>3. i \in Nat /\ i \in Nat \ {0} /\ i2 \in 1 .. Len(s) + 1 /\ There(s, i, c) /\ There(s, i2, d)
      /\ i2 + Len(d) = i + Len(b) /\ m # 0
    BY <1>2 DEF There
<1>4. At(s, i, c) /\ At(s, i2, d)
    BY <1>0, <1>3, AtBoth DEF b
<1>5. /\ m - 1 \in Nat /\ n - 1 \in Nat /\ (m - 1) + 1 = m /\ (n - 1) + 1 = n
      /\ (m - 1) + i >= Len(s) /\ (m - 1) + i2 >= Len(s) + 1 /\ n - 1 > Len(os)
    BY <1>1, <1>2, <1>3
<1> DEFINE r == One(s, i, 0, m - 1)
           rest == Many(s, i2, 0, m - 1, n - 1)
<1>6. r.is = "ok" /\ r.next = i2
    <2>1. 0 \in 0 .. Depth
        OBVIOUS
    <2>2. One(s, i, 0, m - 1) = Found(s, i, c, o)
        BY <1>4, <1>5, <2>1 DEF Code
    <2> QED
        BY <1>3, <2>2, FoundIs
<1>7. rest.is # "ok"
    <2>1. Halts(s, i2 + Len(d))
        BY <1>3
    <2> HIDE DEF i2
    <2> QED
        BY <1>3, <1>4, <1>5, <2>1 DEF ListStops
<1>8. ManyIs(s, i, 0, m - 1, n - 1)
    BY <1>3, <1>5, ManyMore
<1>9. Many(s, i, 0, m, n) = rest
    <2> HIDE DEF i2
    <2>1. r.is = "ok" /\ Many(s, r.next, 0, m - 1, n - 1) = rest
        BY <1>6
    <2>2. Many(s, i, 0, (m - 1) + 1, (n - 1) + 1) = rest
        BY <1>7, <1>8, <2>1 DEF ManyIs
    <2> QED
        BY <1>5, <2>2
<1> QED
    BY <1>7, <1>9

LEMMA ListEnds ==
    ASSUME Depth \in Nat, NEW L
    PROVE  \A os \in Seq(L[0]) : \A b : Spelled(L, Objs(os), b) =>
              /\ b \in Seq(Byte) /\ Len(os) <= Len(b)
              /\ \A s \in Seq(Byte) : ListStops(s, os, b)
<1> DEFINE U == L[0]
           Good(os, b) == /\ b \in Seq(Byte) /\ Len(os) <= Len(b)
                          /\ \A s \in Seq(Byte) : ListStops(s, os, b)
           S == {n \in Nat : \A os \in Seq(U) : Len(os) = n =>
                                \A b : Spelled(L, Objs(os), b) => Good(os, b)}
<1>1. 0 \in S
    <2> SUFFICES ASSUME NEW os \in Seq(U), Len(os) = 0, NEW b, Spelled(L, Objs(os), b)
                 PROVE  Good(os, b)
        OBVIOUS
    <2>1. os = << >>
        OBVIOUS
    <2>2. Objs(os) = << >>
        BY <2>1, ObjsIs
    <2>3. b = << >>
        BY <2>2, SpelledNone
    <2> QED
        BY <2>1, <2>3, ListStopsNone
<1>2. ASSUME NEW n \in Nat, n \in S PROVE n + 1 \in S
    <2> HIDE DEF Good
    <2>0. \A os \in Seq(U) : Len(os) = n => \A b : Spelled(L, Objs(os), b) => Good(os, b)
        BY <1>2
    <2> SUFFICES ASSUME NEW os \in Seq(U), Len(os) = n + 1, NEW b, Spelled(L, Objs(os), b)
                 PROVE  Good(os, b)
        OBVIOUS
    <2>1. os # << >>
        OBVIOUS
    <2>2. os[1] \in U /\ Tail(os) \in Seq(U) /\ Len(Tail(os)) = n /\ os = <<os[1]>> \o Tail(os)
        BY <2>1, Cut
    <2> DEFINE V == {object(o) : o \in U}
               A == Objs(os)
    <2>3. A \in Seq(V) /\ A # << >> /\ A[1] = object(os[1]) /\ Tail(A) = Objs(Tail(os))
        <3> HIDE DEF A, V
        <3>1. Objs(os) \in Seq({object(o) : o \in U})
            BY ObjsIs, Zenon
        <3>2. Objs(os) # << >> /\ Objs(os)[1] = object(os[1]) /\ Tail(Objs(os)) = Objs(Tail(os))
            BY <2>1, ObjsIs, ZenonT(60)
        <3>3. A = Objs(os)
            BY DEF A
        <3>4. A \in Seq(V)
            BY <3>1, Zenon DEF A, V
        <3> QED
            BY <3>2, <3>3, <3>4
    <2> HIDE DEF V
    <2>4. PICK c \in Seq(Byte), d \in Seq(Byte) :
              Spells(L, A[1], c) /\ Spelled(L, Tail(A), d) /\ b = c \o d
        <3>1. FirstPuts(L, A, b)
            BY <2>3, SpelledTail
        <3> QED
            BY <3>1 DEF FirstPuts
    <2> HIDE DEF A
    <2>5. Code(L, os[1], c)
        BY <2>3, <2>4, PieceIs DEF Spells
    <2>6. Good(Tail(os), d)
        BY <2>0, <2>2, <2>3, <2>4
    <2>7. \A s \in Seq(Byte) : ListStops(s, <<os[1]>> \o Tail(os), c \o d)
        BY <2>2, <2>4, <2>5, <2>6, ListStopsFirst DEF Good
    <2>8. Len(os) <= Len(c \o d)
        <3>1. c # << >> /\ Len(Tail(os)) <= Len(d)
            BY <2>5, <2>6 DEF Code, Good
        <3>2. Len(c \o d) = Len(c) + Len(d) /\ Len(c) >= 1 /\ Len(c) \in Nat /\ Len(d) \in Nat
            BY <3>1
        <3> QED
            BY <2>2, <3>1, <3>2
    <2>9. c \o d \in Seq(Byte)
        BY <2>4, ConcatIs
    <2> QED
        BY <2>2, <2>4, <2>7, <2>8, <2>9 DEF Good
<1> HIDE DEF S, Good
<1>3. \A n \in Nat : n \in S
    BY <1>1, <1>2, Induction
<1>4. \A os \in Seq(U) : \A b : Spelled(L, Objs(os), b) => Good(os, b)
    <2> TAKE os \in Seq(U)
    <2>1. Len(os) \in Nat
        OBVIOUS
    <2> QED
        BY <1>3, <2>1 DEF S
<1> QED
    BY <1>4 DEF Good

\* The reference reading of bytes in which a list of objects stands, and no more.
LEMMA ObjectsAre ==
    ASSUME Depth \in Nat, NEW L, NEW os \in Seq(L[0]), NEW d, Spelled(L, Objs(os), d),
           NEW s \in Seq(Byte), At(s, 1, d), There(s, 1, d), Halts(s, 1 + Len(d))
    PROVE  Reader!Objects(s) = os
<1> DEFINE N == Len(s)
           n == Len(os)
           front(k) == Many(s, 1, 0, N, k)
           whole == {k \in 0 .. N : front(k).is = "ok"}
           Best(k) == k \in whole /\ \A m \in whole : m <= k
<1>1. N \in Nat /\ n \in Nat /\ 1 \in 1 .. N + 1 /\ N + 1 >= N + 1 /\ 0 \in 0 .. Depth
    OBVIOUS
<1>2. d \in Seq(Byte) /\ n <= Len(d) /\ ListStops(s, os, d)
    BY ListEnds
<1>3. n \in 0 .. N
    BY <1>1, <1>2 DEF There
<1>4. front(n).is = "ok" /\ front(n).obj = os
    <2>1. ListRead(0, os, d)
        BY <1>1, ListSpelled
    <2>2. Many(s, 1, 0, N, Len(os)) = Found(s, 1, d, os)
        BY <1>1, <2>1, Zenon DEF ListRead
    <2> QED
        BY <2>2, FoundIs
<1>5. ASSUME NEW k \in 0 .. N, k > n PROVE front(k).is # "ok"
    <2>1. k \in Nat
        BY <1>1
    <2> QED
        BY <1>1, <1>2, <1>5, <2>1 DEF ListStops
<1> HIDE DEF front, N, n
<1>6. Best(n)
    <2>1. n \in whole
        BY <1>3, <1>4
    <2>2. \A m \in whole : m <= n
        BY <1>1, <1>5
    <2> QED
        BY <2>1, <2>2
<1>7. \A k : Best(k) => k = n
    <2> SUFFICES ASSUME NEW k, Best(k) PROVE k = n
        OBVIOUS
    <2>1. k \in whole /\ n \in whole /\ n <= k /\ k <= n
        BY <1>6
    <2>2. k \in Int /\ n \in Int
        BY <2>1
    <2> HIDE DEF Best, whole
    <2> QED
        BY <2>1, <2>2
<1>8. Reader!Objects(s) = front(CHOOSE k \in whole : \A m \in whole : m <= k).obj
    BY DEF Reader!Objects, front, N, Many
<1> HIDE DEF whole
<1>9. (CHOOSE k \in whole : \A m \in whole : m <= k) = n
    <2>1. (CHOOSE k \in whole : \A m \in whole : m <= k) = CHOOSE k : Best(k)
        OBVIOUS
    <2> HIDE DEF Best
    <2>2. Best(CHOOSE k : Best(k))
        BY <1>6
    <2> QED
        BY <1>7, <2>1, <2>2
<1> QED
    BY <1>4, <1>8, <1>9

\* The last bytes of s are the beginning of an object, or none.
Begun(L, part) ==
    \/ part = << >>
    \/ \E o \in L[0] : \E b \in Seq(Byte) : b # << >> /\ Code(L, o, part \o b)

LEMMA BegunHalts ==
    ASSUME Depth \in Nat, NEW L, NEW s \in Seq(Byte), NEW i \in 1 .. Len(s) + 1,
           NEW part \in Seq(Byte), At(s, i, part), i + Len(part) = Len(s) + 1, Begun(L, part)
    PROVE  Halts(s, i)
<1>1. CASE part = << >>
    <2>1. i > Len(s)
        BY <1>1
    <2>2. Reader!Front(s, Len(s), i) = Reader!Not("more")
        BY <2>1 DEF Reader!Front
    <2>3. \A F : Reader!Whole(Reader!Not("more"), 0, F) = Reader!Not("more")
        BY OutcomeIs DEF Reader!Whole
    <2>4. \A m \in Nat : One(s, i, 0, m) = Reader!Not("more")
        BY <2>2, <2>3 DEF One
    <2> QED
        BY <2>4, OutcomeIs DEF Halts
<1>2. CASE \E o \in L[0] : \E b \in Seq(Byte) : b # << >> /\ Code(L, o, part \o b)
    <2>1. PICK o \in L[0], b \in Seq(Byte) : b # << >> /\ Code(L, o, part \o b)
        BY <1>2
    <2> DEFINE c == part \o b
    <2>2. /\ Len(c) = Len(part) + Len(b) /\ Len(b) >= 1 /\ Len(part) \in Nat /\ Len(b) \in Nat
          /\ Len(s) \in Nat /\ \A j \in 1 .. Len(part) : c[j] = part[j]
        BY <2>1
    <2> HIDE DEF c
    <2>3. At(s, i, c)
        <3> SUFFICES ASSUME NEW j \in 1 .. Len(c), i + j - 1 <= Len(s) PROVE s[i + j - 1] = c[j]
            BY DEF At
        <3>1. j \in 1 .. Len(part)
            BY <2>2
        <3> QED
            BY <2>2, <3>1 DEF At
    <2>4. ~There(s, i, c)
        BY <2>2 DEF There
    <2>5. ASSUME NEW m \in Nat, m + i >= Len(s) PROVE One(s, i, 0, m).is # "ok"
        <3>1. 0 \in 0 .. Depth
            OBVIOUS
        <3>2. Code(L, o, c)
            BY <2>1 DEF c
        <3>3. One(s, i, 0, m) = Found(s, i, c, o)
            BY <2>1, <2>3, <2>5, <3>1, <3>2 DEF Code
        <3> QED
            BY <2>4, <3>3, FoundIs
    <2> QED
        BY <2>5 DEF Halts
<1> QED
    BY <1>1, <1>2 DEF Begun

\* A reader of what a list has put there, and of the beginning of an object, finds the list.
LEMMA ReadingIs ==
    ASSUME Depth \in Nat, NEW L, NEW os \in Seq(L[0]), NEW d, Spelled(L, Objs(os), d),
           NEW part \in Seq(Byte), Begun(L, part)
    PROVE  Reader!Objects(d \o part) = os
<1> DEFINE s == d \o part
           n == Len(d)
<1>1. d \in Seq(Byte)
    BY ListEnds
<1>2. /\ s \in Seq(Byte) /\ n \in Nat /\ Len(part) \in Nat /\ Len(s) = n + Len(part)
      /\ \A j \in 1 .. n : s[j] = d[j]
      /\ \A j \in n + 1 .. n + Len(part) : s[j] = part[j - n]
    BY <1>1, ConcatIs
<1> HIDE DEF s
<1>3. At(s, 1, d) /\ There(s, 1, d)
    <2>1. \A j \in 1 .. Len(d) : s[1 + j - 1] = d[j]
        BY <1>2
    <2> QED
        BY <1>2, <2>1 DEF At, There
<1>4. At(s, 1 + n, part)
    <2> SUFFICES ASSUME NEW j \in 1 .. Len(part) PROVE s[(1 + n) + j - 1] = part[j]
        BY DEF At
    <2>1. n + j \in n + 1 .. n + Len(part) /\ (1 + n) + j - 1 = n + j /\ (n + j) - n = j
        BY <1>2
    <2> QED
        BY <1>2, <2>1
<1>5. 1 + n \in 1 .. Len(s) + 1 /\ (1 + n) + Len(part) = Len(s) + 1
    BY <1>2
<1>6. Halts(s, 1 + n)
    BY <1>2, <1>4, <1>5, BegunHalts
<1> QED
    BY <1>2, <1>3, <1>6, ObjectsAre DEF s

\* What puts nothing there is appends of no bytes.
LEMMA NothingPut ==
    ASSUME NEW L, NEW full, NEW sure
    PROVE  \A A \in Seq(Task(L, full, sure)) : Spelled(L, A, << >>) =>
              \A i \in DOMAIN A : A[i] = append(<< >>)
<1> DEFINE P == Task(L, full, sure)
           Idle(A) == \A i \in DOMAIN A : A[i] = append(<< >>)
           S == {n \in Nat : \A A \in Seq(P) : Len(A) = n /\ Spelled(L, A, << >>) => Idle(A)}
<1>1. ASSUME NEW p \in P, Spells(L, p, << >>) PROVE p = append(<< >>)
    <2>1. p \in PieceOf(L) /\ (p.is = "append" => (p.checked /\ ~full) \/ p.bytes # << >>)
        BY DEF Task
    <2>2. p.is = "append"
        <3>1. ~ Code(L, p.obj, << >>)
            BY DEF Code
        <3> QED
            BY <1>1, <3>1 DEF Spells
    <2>3. p.bytes = << >> /\ p.checked
        BY <1>1, <2>1, <2>2 DEF Spells
    <2>4. PICK b \in Seq(Byte) : p = append(b) \/ p = Unchecked(b)
        <3>1. \A o \in Within(L) : p # object(o)
            BY <2>2, PieceIs DEF object
        <3> QED
            BY <2>1, <3>1 DEF PieceOf
    <2>5. p # Unchecked(b)
        BY <2>3, PieceIs
    <2>6. p = append(b) /\ b = << >>
        BY <2>3, <2>4, <2>5, PieceIs
    <2> QED
        BY <2>6
<1> HIDE DEF P
<1>2. 0 \in S
    <2>1. \A A \in Seq(P) : Len(A) = 0 => Idle(A)
        OBVIOUS
    <2> QED
        BY <2>1
<1>3. ASSUME NEW n \in Nat, n \in S PROVE n + 1 \in S
    <2> SUFFICES ASSUME NEW A \in Seq(P), Len(A) = n + 1, Spelled(L, A, << >>) PROVE Idle(A)
        OBVIOUS
    <2>1. A # << >>
        OBVIOUS
    <2>2. A[1] \in P /\ Tail(A) \in Seq(P) /\ Len(Tail(A)) = n
        BY <2>1, Cut
    <2>3. PICK c \in Seq(Byte), d \in Seq(Byte) :
              Spells(L, A[1], c) /\ Spelled(L, Tail(A), d) /\ << >> = c \o d
        <3>1. FirstPuts(L, A, << >>)
            BY <2>1, SpelledTail
        <3> QED
            BY <3>1 DEF FirstPuts
    <2>4. c = << >> /\ d = << >>
        <3>1. Len(c \o d) = Len(c) + Len(d) /\ Len(c) \in Nat /\ Len(d) \in Nat /\ Len(<< >>) = 0
            OBVIOUS
        <3>a. Len(c \o d) = Len(<< >>)
            BY <2>3, Zenon
        <3>2. Len(c) = 0 /\ Len(d) = 0
            BY <3>1, <3>a
        <3> QED
            BY <3>2
    <2>5. A[1] = append(<< >>) /\ Idle(Tail(A))
        <3>1. A[1] = append(<< >>)
            BY <1>1, <2>2, <2>3, <2>4
        <3>2. \A B \in Seq(P) : Len(B) = n /\ Spelled(L, B, << >>) => Idle(B)
            BY <1>3
        <3>3. Idle(Tail(A))
            <4> HIDE DEF Idle
            <4> QED
                BY <2>2, <2>3, <2>4, <3>2
        <3> QED
            BY <3>1, <3>3
    <2>6. ASSUME NEW i \in DOMAIN A PROVE A[i] = append(<< >>)
        <3>1. CASE i = 1
            BY <2>5, <3>1
        <3>2. CASE i # 1
            <4>1. i - 1 \in DOMAIN Tail(A) /\ Tail(A)[i - 1] = A[i]
                BY <2>1, <3>2
            <4> QED
                BY <2>5, <4>1
        <3> QED
            BY <3>1, <3>2
    <2> QED
        BY <2>6
<1> HIDE DEF S
<1>4. \A n \in Nat : n \in S
    BY <1>2, <1>3, Induction
<1>5. \A A \in Seq(P) : Spelled(L, A, << >>) => Idle(A)
    <2> TAKE A \in Seq(P)
    <2>1. Len(A) \in Nat
        OBVIOUS
    <2> QED
        BY <1>4, <2>1 DEF S
<1> QED
    BY <1>5 DEF P

-----------------------------------------------------------------------------
(* The calls of a session that packs whole objects. *)

\* What a call is about to append is the code of the object it stands for, and nothing that
\* a callback could refuse unnoticed.
CallPieces(L, c) ==
    /\ Pieces(c) \in Seq(Task(L, FileBuffer[session], ~MayRefuse[session]))
    /\ \A b : Spelled(L, Pieces(c), b) => Code(L, Meaning(c), b)

LEMMA LevelIs ==
    ASSUME NEW Level, StreamConstants(Level), session \in Session, WholeObjects
    PROVE  /\ Depth \in Nat /\ Row(Level[session])
           /\ \A o \in Within(Level[session]) : FileBuffer[session] => ~Bodiless(o)
           /\ \A c \in Call[session] :
                 /\ c.is \in Bodied /\ Meaning(c) \in Level[session][0]
                 /\ Meaning(c) \in Within(Level[session])
                 /\ c.is = "str_with_body" => c.obj[1] = "str"
                 /\ c.is = "bin_with_body" => c.obj[1] = "bin"
                 /\ c.is = "ext_with_body" => c.obj[1] = "ext"
                 /\ c.is = "timestamp" => ~MayRefuse[session]
<1> DEFINE L == Level[session]
<1>1. Depth \in Nat /\ 0 \in 0 .. Depth
    BY DEF StreamConstants
<1>2. \A c \in Call[session] : c.is \in Bodied
    BY DEF WholeObjects
<1>3. /\ \A c \in Call[session] :
            /\ Meaning(c) \in L[0]
            /\ c.is = "str_with_body" => c.obj[1] = "str"
            /\ c.is = "bin_with_body" => c.obj[1] = "bin"
            /\ c.is = "ext_with_body" => c.obj[1] = "ext"
            /\ c.is = "timestamp" => ~MayRefuse[session]
      /\ \A k \in 0 .. Depth : \A o \in L[k] :
            /\ Holds(o)
            /\ FileBuffer[session] => ~Bodiless(o)
            /\ IF k = Depth THEN o[1] \notin {"array", "map"} ELSE Items(o) \subseteq L[k + 1]
    BY <1>2 DEF StreamConstants
<1> HIDE DEF L
<1>4. Row(L)
    BY <1>3 DEF Row
<1>5. \A o \in Within(L) : FileBuffer[session] => ~Bodiless(o)
    BY <1>3 DEF Within
<1>6. \A o \in L[0] : o \in Within(L)
    BY <1>1 DEF Within
<1> QED
    BY <1>1, <1>2, <1>3, <1>4, <1>5, <1>6 DEF L

LEMMA CallPiecesAre ==
    ASSUME PackerConstants, NEW Level, StreamConstants(Level), session \in Session, WholeObjects,
           NEW c \in Call[session]
    PROVE  CallPieces(Level[session], c)
<1> DEFINE L == Level[session]
           full == FileBuffer[session]
           sure == ~MayRefuse[session]
           o == Meaning(c)
<1>1. /\ Depth \in Nat /\ Row(L) /\ o \in Within(L) /\ (full => ~Bodiless(o)) /\ c.is \in Bodied
      /\ c.is = "str_with_body" => c.obj[1] = "str"
      /\ c.is = "bin_with_body" => c.obj[1] = "bin"
      /\ c.is = "ext_with_body" => c.obj[1] = "ext"
      /\ c.is = "timestamp" => sure
    BY LevelIs
<1>2. Given(c)
    BY GivenCall
<1> DEFINE Good == /\ Pieces(c) \in Seq(Task(L, full, sure))
                   /\ \A b : Spelled(L, Pieces(c), b) => Code(L, o, b)
<1> SUFFICES Good
    BY DEF CallPieces
<1>3. CASE c.is = "object"
    <2>1. o = c.obj /\ Pieces(c) = <<object(o)>>
        BY <1>3 DEF Meaning, Pieces
    <2> DEFINE p == object(o)
    <2>2. p \in Task(L, full, sure)
        BY <1>1, TaskIs
    <2>3. p.is # "append" /\ p.obj = o
        BY PieceIs
    <2> HIDE DEF p, L, full, sure, o
    <2>4. <<p>> \in Seq(Task(L, full, sure))
        BY <2>2
    <2>5. \A b : Spelled(L, <<p>>, b) => Code(L, o, b)
        BY <2>3, SpelledOne DEF Spells
    <2> QED
        BY <2>1, <2>4, <2>5 DEF p
<1>4. CASE c.is \in {"str_with_body", "bin_with_body", "ext_with_body"}
    <2>1. o = c.obj
        BY <1>4 DEF Meaning
    <2>2. Pieces(c) = ObjectPieces(o[1], o[2])
        <3> HIDE DEF o
        <3>1. CASE c.is = "str_with_body"
            <4>1. Pieces(c) = StrPieces(o[2]) /\ o[1] = "str"
                BY <1>1, <2>1, <3>1 DEF Pieces
            <4> QED
                BY <4>1, PiecesOf, ZenonT(60) DEF StrPieces
        <3>2. CASE c.is = "bin_with_body"
            <4>1. Pieces(c) = BinPieces(o[2]) /\ o[1] = "bin"
                BY <1>1, <2>1, <3>2 DEF Pieces
            <4> QED
                BY <4>1, PiecesOf, ZenonT(60) DEF BinPieces
        <3>3. CASE c.is = "ext_with_body"
            <4>1. Pieces(c) = ExtPieces(o[2][1], o[2][2]) /\ o[1] = "ext"
                BY <1>1, <2>1, <3>3 DEF Pieces
            <4> QED
                BY <4>1, PiecesOf, ZenonT(60) DEF ExtPieces
        <3> QED
            BY <1>4, <3>1, <3>2, <3>3
    <2> HIDE DEF L, full, sure, o
    <2>3. Pieces(c) \in Seq(Task(L, full, sure))
        BY <1>1, <2>2, TaskOpened
    <2>4. \A b : Spelled(L, Pieces(c), b) => Code(L, o, b)
        BY <1>1, <2>2, OpenCode
    <2> QED
        BY <2>3, <2>4
<1>5. CASE c.is = "timestamp"
    <2> DEFINE y == BodyOf(c)
               h == TimeHead(c)
               p == Unchecked(h)
               q == append(y)
    <2>1. Pieces(c) = <<p, q>> /\ h \in Seq(Byte) /\ h # << >> /\ y \in Seq(Byte) /\ y # << >>
        BY <1>2, <1>5, TimeIs
    <2>2. o = <<"ext", <<-1, y>>>>
        BY <1>5 DEF Meaning, BodyOf
    <2>3. SizeFits(Len(y))
        <3>1. Holds(o) /\ o[1] = "ext" /\ o[2][2] = y
            BY <1>1, <2>2 DEF Within, Row
        <3> QED
            BY <3>1 DEF Holds
    <2>4. Alone(o, h \o y)
        <3>1. -1 \in -128 .. 127 /\ -1 % 256 = 255
            BY ExtType
        <3>2. h = pack_ext(Int64(Len(y)), -1 % 256)
            BY <3>1 DEF TimeHead, BodyOf
        <3> HIDE DEF y, h, o
        <3>3. Alone(<<"ext", <<-1, y>>>>, pack_ext(Int64(Len(y)), -1 % 256) \o y)
            BY <2>1, <2>3, <3>1, ExtAlone, ZenonT(60)
        <3> QED
            BY <2>2, <3>2, <3>3
    <2>5. Code(L, o, h \o y)
        BY <2>4, AloneCode
    <2>6. p \in Task(L, full, sure) /\ q \in Task(L, full, sure)
        BY <1>1, <1>5, <2>1, TaskIs
    <2>7. Appends(p, h) /\ Appends(q, y)
        BY AppendAppends
    <2> HIDE DEF p, q, y, h, L, full, sure, o
    <2>8. ASSUME NEW b, Spelled(L, Pieces(c), b) PROVE Joins(b, h, y)
        BY <2>1, <2>7, <2>8, TwoPuts
    <2>9. <<p, q>> \in Seq(Task(L, full, sure))
        BY <2>6
    <2> QED
        BY <2>1, <2>5, <2>8, <2>9 DEF Joins
<1> QED
    BY <1>1, <1>3, <1>4, <1>5 DEF Bodied

\* The objects that calls stand for, one more at a time.
Meanings(calls) == [i \in DOMAIN calls |-> Meaning(calls[i])]

LEMMA MeaningsAre ==
    ASSUME NEW C, NEW U, \A c \in C : Meaning(c) \in U, NEW calls \in Seq(C)
    PROVE  /\ Meanings(calls) \in Seq(U) /\ Len(Meanings(calls)) = Len(calls)
           /\ calls = << >> => Meanings(calls) = << >>
           /\ \A c \in C : Meanings(Append(calls, c)) = Append(Meanings(calls), Meaning(c))
<1> DEFINE n == Len(calls)
           m(i) == Meaning(calls[i])
           f == Meanings(calls)
<1>1. n \in Nat /\ DOMAIN calls = 1 .. n /\ \A i \in 1 .. n : calls[i] \in C
    OBVIOUS
<1>2. f = [i \in 1 .. n |-> m(i)] /\ \A i \in 1 .. n : m(i) \in U
    BY <1>1 DEF Meanings
<1> HIDE DEF n, m, f
<1>3. f \in Seq(U) /\ Len(f) = n /\ DOMAIN f = 1 .. n
    <2>1. f \in [1 .. n -> U]
        BY <1>2
    <2> QED
        BY <1>1, <1>2, <2>1
<1>4. ASSUME NEW c \in C PROVE Meanings(Append(calls, c)) = Append(f, Meaning(c))
    <2> DEFINE g == Append(calls, c)
               u == Meaning(c)
               h == Append(f, u)
    <2>1. /\ DOMAIN g = 1 .. n + 1 /\ (\A i \in 1 .. n : g[i] = calls[i]) /\ g[n + 1] = c
        BY DEF n
    <2>2. u \in U
        OBVIOUS
    <2>3. Meanings(g) = [i \in 1 .. n + 1 |-> Meaning(g[i])]
        BY <2>1 DEF Meanings
    <2> HIDE DEF u
    <2>4. /\ h \in Seq(U) /\ Len(h) = n + 1 /\ h[n + 1] = u /\ \A i \in 1 .. n : h[i] = f[i]
        BY <1>1, <1>3, <2>2
    <2> HIDE DEF g, h
    <2>5. h = [i \in 1 .. n + 1 |-> h[i]]
        BY <1>1, <2>4
    <2>6. \A i \in 1 .. n + 1 : Meaning(g[i]) = h[i]
        <3> TAKE i \in 1 .. n + 1
        <3>1. i \in 1 .. n \/ i = n + 1
            BY <1>1
        <3>2. CASE i \in 1 .. n
            BY <1>2, <2>1, <2>4, <3>2 DEF m
        <3>3. CASE i = n + 1
            BY <2>1, <2>4, <3>3 DEF u
        <3> QED
            BY <3>1, <3>2, <3>3
    <2>7. Meanings(g) = h
        BY <2>3, <2>5, <2>6
    <2> QED
        BY <2>7 DEF g, h, u
<1>5. calls = << >> => f = << >>
    <2> SUFFICES ASSUME calls = << >> PROVE f = << >>
        OBVIOUS
    <2>1. n = 0
        BY DEF n
    <2> QED
        BY <1>3, <2>1
<1> QED
    BY <1>3, <1>4, <1>5 DEF f, n

LEMMA ObjsMore ==
    ASSUME NEW U, NEW os \in Seq(U), NEW o \in U
    PROVE  Objs(Append(os, o)) = Objs(os) \o <<object(o)>>
<1> DEFINE n == Len(os)
           V == {object(x) : x \in U}
           p == object(o)
           A == Objs(os)
           v == Append(os, o)
           B == Objs(v)
           D == A \o <<p>>
<1>1. n \in Nat /\ v \in Seq(U) /\ Len(v) = n + 1 /\ (\A i \in 1 .. n : v[i] = os[i]) /\ v[n + 1] = o
    OBVIOUS
<1> HIDE DEF v, n
<1>2. A \in Seq(V) /\ Len(A) = n /\ \A i \in 1 .. n : A[i] = object(os[i])
    <2> HIDE DEF A, V
    <2>1. Objs(os) \in Seq({object(x) : x \in U}) /\ Len(Objs(os)) = Len(os)
          /\ \A i \in 1 .. Len(os) : Objs(os)[i] = object(os[i])
        BY ObjsIs, Zenon
    <2> QED
        BY <2>1, Zenon DEF A, V, n
<1>3. B \in Seq(V) /\ Len(B) = n + 1 /\ \A i \in 1 .. n + 1 : B[i] = object(v[i])
    <2> HIDE DEF B, V
    <2>1. Objs(v) \in Seq({object(x) : x \in U}) /\ Len(Objs(v)) = Len(v)
          /\ \A i \in 1 .. Len(v) : Objs(v)[i] = object(v[i])
        BY <1>1, ObjsIs, Zenon
    <2> QED
        BY <1>1, <2>1, Zenon DEF B, V
<1>4. p \in V
    OBVIOUS
<1> HIDE DEF V, A, B
<1>5. /\ <<p>> \in Seq(V) /\ Len(<<p>>) = 1 /\ <<p>>[1] = p
    BY <1>4
<1>6. D \in Seq(V) /\ Len(D) = n + 1 /\ (\A i \in 1 .. n : D[i] = A[i]) /\ D[n + 1] = p
    <2> HIDE DEF p
    <2> QED
        BY <1>1, <1>2, <1>5, SMTT(30)
<1> HIDE DEF D
<1>7. \A i \in 1 .. n + 1 : B[i] = D[i]
    <2> TAKE i \in 1 .. n + 1
    <2>1. i \in 1 .. n \/ i = n + 1
        BY <1>1
    <2>2. CASE i \in 1 .. n
        BY <1>1, <1>2, <1>3, <1>6, <2>2
    <2>3. CASE i = n + 1
        BY <1>1, <1>3, <1>6, <2>3
    <2> QED
        BY <2>1, <2>2, <2>3
<1>8. B = D
    BY <1>3, <1>6, <1>7, SeqEqual
<1> QED
    BY <1>8 DEF B, D, A, p, v

-----------------------------------------------------------------------------
(* Steps of a session that packs whole objects. *)

\* The stream is what the calls put there that have returned 0, and part of another: of the one
\* in progress what its pieces will complete, or what one left there that failed.
Streamed(L, done, part) ==
    /\ done \in Seq(Byte) /\ part \in Seq(Byte) /\ out = done \o part
    /\ Spelled(L, Objs(Meanings(packed)), done)
    /\ packing = NoPacking => agenda = << >>
    /\ packing = NoPacking /\ result = 0 => part = << >>
    /\ packing # NoPacking /\ result = 0 =>
          \A b : Spelled(L, agenda, b) => Code(L, Meaning(packing), part \o b)
    /\ result # 0 => agenda = << >> /\ Begun(L, part)

Tasks(L) == Task(L, FileBuffer[session], ~MayRefuse[session])

\* The levels of the session are as they should be.
Levelled(L) ==
    /\ Depth \in Nat /\ Row(L)
    /\ \A o \in Within(L) : FileBuffer[session] => ~Bodiless(o)
    /\ \A c \in Call[session] :
          c # NoPacking /\ Meaning(c) \in L[0] /\ Meaning(c) \in Within(L) /\ CallPieces(L, c)

\* Where a call is, in such a session.
Going(L) ==
    /\ packing \in Call[session] \cup {NoPacking}
    /\ packed \in Seq(Call[session])
    /\ agenda \in Seq(Tasks(L))
    /\ \E done, part : Streamed(L, done, part)

LEMMA GoingInit ==
    ASSUME Packer_Init, NEW L PROVE Going(L)
<1>1. /\ session \in Session /\ out = << >> /\ agenda = << >> /\ packing = NoPacking
      /\ result = 0 /\ packed = << >>
    BY DEF Packer_Init
<1>2. Spelled(L, Objs(Meanings(packed)), << >>)
    <2>1. Meanings(packed) = << >>
        BY <1>1 DEF Meanings
    <2>2. Objs(<< >>) = << >>
        BY DEF Objs
    <2> QED
        BY <2>1, <2>2, SpelledNone
<1>3. << >> \in Seq(Byte) /\ << >> = << >> \o << >>
    OBVIOUS
<1>4. Streamed(L, << >>, << >>)
    BY <1>1, <1>2, <1>3 DEF Streamed
<1>5. agenda \in Seq(Tasks(L)) /\ packed \in Seq(Call[session])
    BY <1>1
<1> QED
    BY <1>1, <1>4, <1>5 DEF Going

LEMMA NoneBefore == \A b \in Seq(Byte) : << >> \o b = b /\ b \o << >> = b
OBVIOUS

\* A call begins.
LEMMA GoingBegin ==
    ASSUME NEW L, Levelled(L), Going(L), NEW c \in Call[session], Begin(c)
    PROVE  Going(L)'
<1>1. /\ packing = NoPacking /\ result = 0 /\ packing' = c /\ agenda' = Pieces(c)
      /\ out' = out /\ result' = 0 /\ packed' = packed /\ session' = session
    BY DEF Begin
<1>2. CallPieces(L, c) /\ c # NoPacking
    BY DEF Levelled
<1>3. PICK done, part : Streamed(L, done, part)
    BY DEF Going
<1>4. /\ done \in Seq(Byte) /\ part \in Seq(Byte) /\ part = << >> /\ out = done \o part
      /\ Spelled(L, Objs(Meanings(packed)), done)
    BY <1>1, <1>3 DEF Streamed
<1>5. Pieces(c) \in Seq(Tasks(L))
    BY <1>2 DEF CallPieces, Tasks
<1>6. ASSUME NEW b, Spelled(L, Pieces(c), b) PROVE Code(L, Meaning(c), part \o b)
    <2>1. Len(Pieces(c)) \in Nat
        BY <1>5
    <2>2. b \in Seq(Byte)
        BY <1>6, <2>1, SpelledIn
    <2>3. part \o b = b
        BY <1>4, <2>2, NoneBefore
    <2>4. Code(L, Meaning(c), b)
        BY <1>2, <1>6 DEF CallPieces
    <2> QED
        BY <2>3, <2>4
<1>7. Streamed(L, done, part)'
    BY <1>1, <1>2, <1>4, <1>6, Zenon DEF Streamed
<1>8. Tasks(L)' = Tasks(L)
    BY <1>1 DEF Tasks
<1>9. packing' \in Call[session'] /\ packed' \in Seq(Call[session']) /\ agenda' \in Seq(Tasks(L)')
    BY <1>1, <1>5, <1>8 DEF Going
<1> QED
    BY <1>7, <1>9 DEF Going

\* A level of the recursion.
LEMMA GoingOpen ==
    ASSUME NEW L, Levelled(L), Going(L), Open
    PROVE  Going(L)'
<1> DEFINE p == agenda[1]
           o == p.obj
           T == Tail(agenda)
           O == ObjectPieces(o[1], o[2])
<1>1. /\ agenda # << >> /\ p.is = "object" /\ agenda' = O \o T
      /\ session' = session /\ out' = out /\ packing' = packing /\ result' = result
      /\ packed' = packed
    BY DEF Open
<1>2. PICK done, part : Streamed(L, done, part)
    BY DEF Going
<1>3. agenda \in Seq(Tasks(L)) /\ p \in Tasks(L) /\ T \in Seq(Tasks(L)) /\ agenda = <<p>> \o T
    <2>1. agenda \in Seq(Tasks(L))
        BY DEF Going
    <2> QED
        BY <1>1, <2>1, Cut
<1>4. o \in Within(L)
    <2>1. p \in PieceOf(L)
        BY <1>3 DEF Tasks, Task
    <2> QED
        BY <1>1, <2>1, PieceTyped
<1>5. Depth \in Nat /\ Row(L) /\ (FileBuffer[session] => ~Bodiless(o))
    BY <1>4 DEF Levelled
<1> HIDE DEF O, T, p, o
<1>6. O \in Seq(Tasks(L))
    BY <1>4, <1>5, TaskOpened DEF Tasks, O
<1>7. O \o T \in Seq(Tasks(L))
    BY <1>3, <1>6, ConcatProperties
<1>8. ASSUME NEW b, Spelled(L, O \o T, b) PROVE Spelled(L, agenda, b)
    <2>1. BothPut(L, O, T, b)
        BY <1>3, <1>6, <1>8, SpelledSplit
    <2>2. PICK x \in Seq(Byte), d \in Seq(Byte) : Spelled(L, O, x) /\ Spelled(L, T, d) /\ b = x \o d
        BY <2>1 DEF BothPut
    <2>3. Code(L, o, x)
        BY <1>4, <1>5, <2>2, OpenCode DEF O
    <2>4. Spells(L, p, x)
        BY <1>1, <2>3 DEF Spells, o
    <2>5. Spelled(L, <<p>> \o T, x \o d)
        BY <1>3, <2>2, <2>4, SpelledFirst
    <2> QED
        BY <1>3, <2>2, <2>5
<1>9. packing # NoPacking /\ result = 0
    BY <1>1, <1>2 DEF Streamed
<1>10. Streamed(L, done, part)'
    <2>1. \A b : Spelled(L, agenda', b) => Code(L, Meaning(packing), part \o b)
        BY <1>1, <1>2, <1>8, <1>9, Zenon DEF Streamed
    <2> QED
        BY <1>1, <1>2, <1>9, <2>1, Zenon DEF Streamed
<1>11. Tasks(L)' = Tasks(L)
    BY <1>1 DEF Tasks
<1>12. packing' \in Call[session'] \cup {NoPacking} /\ packed' \in Seq(Call[session'])
       /\ agenda' \in Seq(Tasks(L)')
    BY <1>1, <1>7, <1>11 DEF Going
<1> QED
    BY <1>10, <1>12 DEF Going

\* An append, refused or not: what is left, and what the pieces behind it complete.
LEMMA AppendNext ==
    ASSUME NEW L, Levelled(L), Going(L), agenda # << >>, agenda[1].is = "append",
           NEW done, NEW part, Streamed(L, done, part)
    PROVE  LET p == agenda[1]  T == Tail(agenda)
           IN  /\ packing # NoPacking /\ result = 0
               /\ p.bytes \in Seq(Byte) /\ T \in Seq(Tasks(L)) /\ p \in Tasks(L)
               /\ \A b : Spelled(L, T, b) =>
                     b \in Seq(Byte) /\ Code(L, Meaning(packing), part \o (p.bytes \o b))
<1> DEFINE p == agenda[1]
           T == Tail(agenda)
<1>1. agenda \in Seq(Tasks(L)) /\ p \in Tasks(L) /\ T \in Seq(Tasks(L)) /\ agenda = <<p>> \o T
    <2>1. agenda \in Seq(Tasks(L))
        BY DEF Going
    <2> QED
        BY <2>1, Cut
<1>2. p.bytes \in Seq(Byte)
    <2>1. p \in PieceOf(L)
        BY <1>1 DEF Tasks, Task
    <2> QED
        BY <2>1, PieceTyped
<1>3. packing # NoPacking /\ result = 0
    BY DEF Streamed
<1>4. p.is = "append"
    OBVIOUS
<1> HIDE DEF p, T
<1>5. ASSUME NEW b, Spelled(L, T, b)
      PROVE  b \in Seq(Byte) /\ Code(L, Meaning(packing), part \o (p.bytes \o b))
    <2>1. Len(T) \in Nat
        BY <1>1
    <2>2. b \in Seq(Byte)
        BY <1>5, <2>1, SpelledIn
    <2>3. Spells(L, p, p.bytes)
        BY <1>4 DEF Spells
    <2>4. Spelled(L, <<p>> \o T, p.bytes \o b)
        BY <1>1, <1>2, <1>5, <2>3, SpelledFirst
    <2>5. Spelled(L, agenda, p.bytes \o b)
        BY <1>1, <2>4
    <2> QED
        BY <1>3, <2>2, <2>5 DEF Streamed
<1> QED
    BY <1>1, <1>2, <1>3, <1>5 DEF p, T

\* The callback takes a piece.
LEMMA GoingAppend ==
    ASSUME NEW L, Levelled(L), Going(L), Append_
    PROVE  Going(L)'
<1> DEFINE a == agenda[1].bytes
           T == Tail(agenda)
<1>1. /\ agenda # << >> /\ agenda[1].is = "append" /\ agenda' = T /\ out' = out \o a /\ result' = 0
      /\ session' = session /\ packing' = packing /\ packed' = packed
    BY DEF Append_
<1>2. PICK done, part : Streamed(L, done, part)
    BY DEF Going
<1>3. /\ packing # NoPacking /\ a \in Seq(Byte) /\ T \in Seq(Tasks(L))
      /\ \A b : Spelled(L, T, b) => b \in Seq(Byte) /\ Code(L, Meaning(packing), part \o (a \o b))
    BY <1>1, <1>2, AppendNext
<1> HIDE DEF a, T
<1>4. /\ done \in Seq(Byte) /\ part \in Seq(Byte) /\ out = done \o part
      /\ Spelled(L, Objs(Meanings(packed)), done)
    BY <1>2 DEF Streamed
<1>w. PICK w : w = part \o a
    OBVIOUS
<1>5. w \in Seq(Byte) /\ out' = done \o w
    BY <1>1, <1>3, <1>4, <1>w, ThreeByteRows, SMTT(30)
<1>6. ASSUME NEW b, Spelled(L, T, b) PROVE Code(L, Meaning(packing), w \o b)
    <2>1. b \in Seq(Byte) /\ Code(L, Meaning(packing), part \o (a \o b))
        BY <1>3, <1>6
    <2>2. (part \o a) \o b = part \o (a \o b)
        BY <1>3, <1>4, <2>1, ThreeByteRows, SMTT(30)
    <2> QED
        BY <1>w, <2>1, <2>2
<1>7. Streamed(L, done, w)'
    BY <1>1, <1>3, <1>4, <1>5, <1>6, Zenon DEF Streamed
<1>8. Tasks(L)' = Tasks(L)
    BY <1>1 DEF Tasks
<1>9. packing' \in Call[session'] \cup {NoPacking} /\ packed' \in Seq(Call[session'])
       /\ agenda' \in Seq(Tasks(L)')
    BY <1>1, <1>3, <1>8 DEF Going
<1> QED
    BY <1>7, <1>9 DEF Going

\* The callback refuses a piece, of which a file may have taken the first bytes.
LEMMA WrittenIs ==
    ASSUME NEW a \in Seq(Byte), a # << >>, NEW w \in Written(a)
    PROVE  \E r \in Seq(Byte) : r # << >> /\ w \in Seq(Byte) /\ a = w \o r
<1>1. CASE w = << >>
    BY <1>1, NoneBefore
<1>2. CASE w # << >>
    <2>1. PICK k \in 0 .. Len(a) - 1 : w = SubSeq(a, 1, k)
        BY <1>2 DEF Written
    <2> DEFINE n == Len(a)
               r == SubSeq(a, k + 1, n)
               x == SubSeq(a, 1, k)
    <2>2. n \in Nat /\ k \in Nat /\ k < n
        BY <2>1
    <2>3. r \in Seq(Byte) /\ Len(r) = n - k /\ \A j \in 1 .. n - k : r[j] = a[k + j]
        BY <2>2
    <2>4. x \in Seq(Byte) /\ Len(x) = k /\ \A j \in 1 .. k : x[j] = a[j]
        BY <2>2
    <2> HIDE DEF n, r, x
    <2>7. Len(a) = n
        BY DEF n
    <2> DEFINE y == x \o r
    <2>5. /\ y \in Seq(Byte) /\ Len(y) = k + (n - k)
          /\ (\A j \in 1 .. k : y[j] = x[j])
          /\ (\A j \in k + 1 .. k + (n - k) : y[j] = r[j - k])
        <3>1. /\ y \in Seq(Byte) /\ Len(y) = Len(x) + Len(r)
              /\ (\A j \in 1 .. Len(x) : y[j] = x[j])
              /\ (\A j \in Len(x) + 1 .. Len(x) + Len(r) : y[j] = r[j - Len(x)])
            <4>1. x \in Seq(Byte) /\ r \in Seq(Byte)
                BY <2>3, <2>4
            <4> QED
                BY <4>1, ConcatIs
        <3> QED
            BY <2>3, <2>4, <3>1
    <2> HIDE DEF y
    <2>6. \A j \in 1 .. n : y[j] = a[j]
        <3> TAKE j \in 1 .. n
        <3>1. \/ j \in 1 .. k
              \/ j \in k + 1 .. k + (n - k) /\ j - k \in 1 .. n - k /\ k + (j - k) = j
            BY <2>2
        <3>2. CASE j \in 1 .. k
            BY <2>4, <2>5, <3>2
        <3>3. CASE j \in k + 1 .. k + (n - k) /\ j - k \in 1 .. n - k /\ k + (j - k) = j
            <4>1. y[j] = r[j - k] /\ r[j - k] = a[k + (j - k)]
                BY <2>3, <2>5, <3>3
            <4> QED
                BY <3>3, <4>1
        <3> QED
            BY <3>1, <3>2, <3>3
    <2>8. Len(y) = n
        BY <2>2, <2>5
    <2>9. a = y
        BY <2>5, <2>6, <2>7, <2>8, SeqEqual
    <2>10. r # << >>
        BY <2>2, <2>3
    <2> QED
        BY <2>1, <2>3, <2>4, <2>9, <2>10 DEF x, y
<1> QED
    BY <1>1, <1>2

LEMMA GoingRefuse ==
    ASSUME NEW L, Levelled(L), Going(L), Refuse
    PROVE  Going(L)'
<1> DEFINE p == agenda[1]
           a == p.bytes
           T == Tail(agenda)
<1>1. /\ agenda # << >> /\ p.is = "append" /\ Refuses(a) /\ result' = -1
      /\ agenda' = IF p.checked THEN << >> ELSE T
      /\ session' = session /\ packing' = packing /\ packed' = packed
    BY DEF Refuse
<1>2. PICK w \in Written(a) : out' = out \o w
    BY DEF Refuse
<1>3. PICK done, part : Streamed(L, done, part)
    BY DEF Going
<1>4. /\ packing # NoPacking /\ result = 0 /\ a \in Seq(Byte) /\ T \in Seq(Tasks(L)) /\ p \in Tasks(L)
      /\ \A b : Spelled(L, T, b) => b \in Seq(Byte) /\ Code(L, Meaning(packing), part \o (a \o b))
    BY <1>1, <1>3, AppendNext
<1>5. \/ p.checked /\ ~FileBuffer[session]
      \/ a # << >> /\ (p.checked \/ ~MayRefuse[session])
    BY <1>1, <1>4 DEF Tasks, Task
<1> HIDE DEF p, a, T
<1>6. a # << >> /\ agenda' = << >>
    BY <1>1, <1>5 DEF Refuses
<1>7. PICK r \in Seq(Byte) : r # << >> /\ w \in Seq(Byte) /\ a = w \o r
    BY <1>2, <1>4, <1>6, WrittenIs
<1>8. PICK b \in Seq(Byte) : Spelled(L, T, b)
    BY <1>4, TaskSpelled DEF Tasks, Levelled
<1>9. /\ done \in Seq(Byte) /\ part \in Seq(Byte) /\ out = done \o part
      /\ Spelled(L, Objs(Meanings(packed)), done)
    BY <1>3 DEF Streamed
<1> DEFINE w2 == part \o w
<1>10. w2 \in Seq(Byte) /\ out' = done \o w2
    <2>1. part \o w \in Seq(Byte) /\ (done \o part) \o w = done \o (part \o w)
        BY <1>7, <1>9, ThreeByteRows, SMTT(30)
    <2> QED
        BY <1>2, <1>9, <2>1
<1>11. Begun(L, w2)
    <2>1. r \o b \in Seq(Byte) /\ r \o b # << >>
        <3>1. Len(r \o b) = Len(r) + Len(b) /\ Len(r) >= 1 /\ Len(b) \in Nat /\ r \o b \in Seq(Byte)
            BY <1>7, <1>8
        <3> QED
            BY <3>1
    <2>2. part \o (a \o b) = w2 \o (r \o b)
        <3>1. a \o b = w \o (r \o b)
            BY <1>7, <1>8, ThreeByteRows
        <3>2. part \o (w \o (r \o b)) = (part \o w) \o (r \o b)
            <4> DEFINE z == r \o b
            <4>1. z \in Seq(Byte)
                BY <2>1
            <4> HIDE DEF z
            <4>2. part \o (w \o z) = (part \o w) \o z
                <5>1. part \in Seq(Byte) /\ w \in Seq(Byte) /\ z \in Seq(Byte)
                    BY <1>7, <1>9, <4>1
                <5>2. (part \o w) \o z = part \o (w \o z)
                    BY <5>1, Regroup, ZenonT(60)
                <5> QED
                    BY <5>2
            <4> QED
                BY <4>2 DEF z
        <3> QED
            BY <3>1, <3>2
    <2>3. Code(L, Meaning(packing), w2 \o (r \o b))
        <3>1. Code(L, Meaning(packing), part \o (a \o b))
            BY <1>4, <1>8
        <3> QED
            BY <2>2, <3>1, Zenon
    <2>4. Meaning(packing) \in L[0]
        BY <1>4 DEF Going, Levelled
    <2> HIDE DEF w2
    <2> QED
        BY <2>1, <2>3, <2>4, Zenon DEF Begun
<1> HIDE DEF w2
<1>12. Streamed(L, done, w2)'
    <2>1. -1 # 0
        OBVIOUS
    <2> QED
        BY <1>1, <1>4, <1>6, <1>9, <1>10, <1>11, <2>1, Zenon DEF Streamed
<1>13. packing' \in Call[session'] \cup {NoPacking} /\ packed' \in Seq(Call[session'])
    BY <1>1 DEF Going
<1>14. agenda' \in Seq(Tasks(L)')
    BY <1>6
<1> QED
    BY <1>12, <1>13, <1>14 DEF Going

\* A call returns.
LEMMA GoingReturn ==
    ASSUME NEW L, Levelled(L), Going(L), Return
    PROVE  Going(L)'
<1>1. /\ packing # NoPacking /\ agenda = << >> /\ packing' = NoPacking /\ agenda' = agenda
      /\ packed' = IF result = 0 THEN Append(packed, packing) ELSE packed
      /\ session' = session /\ out' = out /\ result' = result
    BY DEF Return
<1>2. PICK done, part : Streamed(L, done, part)
    BY DEF Going
<1>3. /\ done \in Seq(Byte) /\ part \in Seq(Byte) /\ out = done \o part
      /\ Spelled(L, Objs(Meanings(packed)), done)
    BY <1>2 DEF Streamed
<1>4. packing \in Call[session] /\ packed \in Seq(Call[session])
    BY <1>1 DEF Going
<1>5. agenda' \in Seq(Tasks(L)') /\ agenda' = << >>
    BY <1>1
<1>6. CASE result # 0
    <2>1. Streamed(L, done, part)'
        BY <1>1, <1>2, <1>3, <1>6 DEF Streamed
    <2> QED
        BY <1>1, <1>4, <1>5, <1>6, <2>1 DEF Going
<1>7. CASE result = 0
    <2> DEFINE o == Meaning(packing)
               os == Meanings(packed)
               d2 == done \o part
    <2>1. packed' = Append(packed, packing) /\ packed' \in Seq(Call[session])
        BY <1>1, <1>4, <1>7, AppendProperties
    <2>2. o \in L[0] /\ o \in Within(L) /\ \A c \in Call[session] : Meaning(c) \in L[0]
        BY <1>4 DEF Levelled
    <2>3. os \in Seq(L[0]) /\ Meanings(Append(packed, packing)) = Append(os, o)
        BY <1>4, <2>2, MeaningsAre
    <2> HIDE DEF o, os
    <2>4. Code(L, o, part)
        <3>1. Spelled(L, agenda, << >>)
            BY <1>1, SpelledNone
        <3>2. Code(L, o, part \o << >>)
            BY <1>1, <1>2, <1>7, <3>1 DEF Streamed, o
        <3> QED
            BY <1>3, <3>2, NoneBefore
    <2>5. Spelled(L, Objs(Append(os, o)), d2)
        <3> DEFINE P == {object(x) : x \in L[0]}
                   q == object(o)
                   A == Objs(os)
        <3>1. Spells(L, q, part)
            BY <2>4, PieceIs DEF Spells
        <3>2. q \in P
            BY <2>2
        <3>3. A \in Seq(P)
            BY <2>3, ObjsIs, Zenon
        <3> HIDE DEF P, q, A
        <3>4. Spelled(L, <<q>>, part) /\ <<q>> \in Seq(P)
            BY <1>3, <3>1, <3>2, SpelledOne
        <3>5. Spelled(L, A, done)
            BY <1>3 DEF A, os
        <3>6. Spelled(L, A \o <<q>>, done \o part)
            BY <1>3, <3>3, <3>4, <3>5, SpelledConcat
        <3>7. Objs(Append(os, o)) = A \o <<q>>
            BY <2>2, <2>3, ObjsMore DEF A, q
        <3> QED
            BY <3>6, <3>7
    <2>6. d2 \in Seq(Byte) /\ out' = d2 \o << >> /\ << >> \in Seq(Byte)
        BY <1>1, <1>3, ThreeByteRows, NoneBefore
    <2> HIDE DEF d2
    <2>7. Spelled(L, Objs(Meanings(packed')), d2)
        BY <2>1, <2>3, <2>5
    <2>8. Streamed(L, d2, << >>)'
        BY <1>1, <1>5, <1>7, <2>6, <2>7 DEF Streamed
    <2> QED
        BY <1>1, <1>5, <2>1, <2>8 DEF Going
<1> QED
    BY <1>6, <1>7

\* The stream is given up.
LEMMA GoingClear ==
    ASSUME NEW L, Levelled(L), Going(L), Packer_Clear
    PROVE  Going(L)'
<1>1. /\ packing = NoPacking /\ out' = << >> /\ packed' = << >> /\ result' = 0
      /\ session' = session /\ agenda' = agenda /\ packing' = packing
    BY DEF Packer_Clear
<1>2. agenda = << >>
    BY <1>1 DEF Going, Streamed
<1>3. Spelled(L, Objs(Meanings(packed')), << >>)
    <2>1. Meanings(packed') = << >>
        BY <1>1 DEF Meanings
    <2>2. Objs(<< >>) = << >>
        BY DEF Objs
    <2> QED
        BY <2>1, <2>2, SpelledNone
<1>4. << >> \in Seq(Byte) /\ << >> = << >> \o << >>
    OBVIOUS
<1>5. Streamed(L, << >>, << >>)'
    BY <1>1, <1>2, <1>3, <1>4 DEF Streamed
<1>6. agenda' \in Seq(Tasks(L)') /\ packed' \in Seq(Call[session'])
    BY <1>1, <1>2
<1> QED
    BY <1>1, <1>5, <1>6 DEF Going

\* What a reader finds meanwhile.
LEMMA GoingWhole ==
    ASSUME NEW L, Levelled(L), Going(L)
    PROVE  StreamWhole
<1> DEFINE os == Meanings(packed)
           o == Meaning(packing)
<1>1. PICK done, part : Streamed(L, done, part)
    BY DEF Going
<1>2. /\ done \in Seq(Byte) /\ part \in Seq(Byte) /\ out = done \o part
      /\ Spelled(L, Objs(os), done) /\ Depth \in Nat
    BY <1>1 DEF Streamed, Levelled
<1>3. os \in Seq(L[0]) /\ Packed = os /\ Reading = Reader!Objects(out)
    <2>1. packed \in Seq(Call[session]) /\ \A c \in Call[session] : Meaning(c) \in L[0]
        BY DEF Going, Levelled
    <2> QED
        BY <2>1, MeaningsAre DEF Packed, Meanings, Reading
<1> HIDE DEF os
<1>4. ASSUME Begun(L, part) PROVE Reading = Packed
    <2>1. Reader!Objects(done \o part) = os
        BY <1>2, <1>3, <1>4, ReadingIs
    <2> QED
        BY <1>2, <1>3, <2>1
<1>5. CASE result # 0 \/ packing = NoPacking
    <2>1. Begun(L, part)
        BY <1>1, <1>5 DEF Streamed, Begun
    <2> QED
        BY <1>4, <2>1 DEF StreamWhole
<1>6. CASE result = 0 /\ packing # NoPacking
    <2>1. o \in L[0] /\ Row(L) /\ agenda \in Seq(Tasks(L))
        BY <1>6 DEF Going, Levelled
    <2>2. PICK b \in Seq(Byte) : Spelled(L, agenda, b)
        BY <1>2, <2>1, TaskSpelled DEF Tasks
    <2>3. Code(L, o, part \o b)
        BY <1>1, <1>6, <2>2 DEF Streamed
    <2>4. CASE b # << >>
        <3>1. Begun(L, part)
            BY <2>1, <2>3, <2>4 DEF Begun
        <3> QED
            BY <1>4, <3>1 DEF StreamWhole
    <2>5. CASE b = << >>
        <3>1. \A i \in DOMAIN agenda : agenda[i] = append(<< >>)
            BY <2>1, <2>2, <2>5, NothingPut DEF Tasks
        <3> DEFINE v == Append(os, o)
        <3> HIDE DEF o
        <3>2. Code(L, o, part)
            BY <1>2, <2>3, <2>5, NoneBefore
        <3>3. v \in Seq(L[0])
            BY <1>3, <2>1, AppendProperties
        <3>4. Spelled(L, Objs(v), done \o part)
            <4> DEFINE P == {object(x) : x \in L[0]}
                       q == object(o)
                       A == Objs(os)
            <4>1. Spells(L, q, part)
                BY <3>2, PieceIs DEF Spells
            <4>2. q \in P
                BY <2>1
            <4>3. A \in Seq(P)
                BY <1>3, ObjsIs, Zenon
            <4> HIDE DEF P, q, A
            <4>4. Spelled(L, <<q>>, part) /\ <<q>> \in Seq(P)
                BY <1>2, <4>1, <4>2, SpelledOne
            <4>5. Spelled(L, A, done)
                BY <1>2 DEF A
            <4>6. Spelled(L, A \o <<q>>, done \o part)
                BY <1>2, <4>3, <4>4, <4>5, SpelledConcat
            <4>7. Objs(v) = A \o <<q>>
                BY <1>3, <2>1, ObjsMore DEF A, q
            <4> QED
                BY <4>6, <4>7
        <3>5. out \in Seq(Byte) /\ out \o << >> = out /\ << >> \in Seq(Byte)
            BY <1>2, ThreeByteRows, NoneBefore
        <3>6. Begun(L, << >>)
            BY DEF Begun
        <3> HIDE DEF v
        <3>7. Reader!Objects(out \o << >>) = v
            BY <1>2, <3>3, <3>4, <3>5, <3>6, ReadingIs
        <3>8. Reading = Append(Packed, Meaning(packing))
            BY <1>3, <3>5, <3>7 DEF v, o
        <3> QED
            BY <1>6, <3>1, <3>8 DEF StreamWhole
    <2> QED
        BY <2>4, <2>5
<1> QED
    BY <1>5, <1>6

\* A session that packs whole objects is under way at its levels.
StreamInv(Level) ==
    session \in Session /\ \A s \in Session : s = session /\ WholeObjects => Going(Level[s])

LEMMA LevelledIs ==
    ASSUME PackerConstants, NEW Level, StreamConstants(Level), session \in Session, WholeObjects
    PROVE  Levelled(Level[session])
<1>1. /\ Depth \in Nat /\ Row(Level[session])
      /\ \A o \in Within(Level[session]) : FileBuffer[session] => ~Bodiless(o)
      /\ \A c \in Call[session] : /\ Meaning(c) \in Level[session][0]
                                  /\ Meaning(c) \in Within(Level[session])
    BY LevelIs
<1>2. \A c \in Call[session] : CallPieces(Level[session], c) /\ c # NoPacking
    BY CallPiecesAre, GivenCall
<1> QED
    BY <1>1, <1>2 DEF Levelled

LEMMA StreamStepInv ==
    ASSUME PackerConstants, NEW Level, StreamConstants(Level), StreamInv(Level),
           [Packer_Next]_packer_vars
    PROVE  StreamInv(Level)'
<1>1. session' = session
    BY DEF Packer_Next, packer_vars, Begin, Open, Append_, Refuse, Return, Packer_Clear
<1>2. session \in Session
    BY DEF StreamInv
<1> SUFFICES ASSUME NEW s \in Session, s = session, WholeObjects PROVE Going(Level[s])'
    BY <1>1, <1>2 DEF StreamInv, WholeObjects
<1>3. Levelled(Level[s]) /\ Going(Level[s])
    BY LevelledIs DEF StreamInv
<1>4. PICK L : L = Level[s]
    OBVIOUS
<1>5. Levelled(L) /\ Going(L)
    BY <1>3, <1>4
<1>6. Going(L)'
    <2>1. CASE UNCHANGED packer_vars
        <3>1. \A done, part : Streamed(L, done, part) => Streamed(L, done, part)'
            BY <2>1 DEF packer_vars, Streamed
        <3>2. (\E done, part : Streamed(L, done, part))'
            BY <1>5, <3>1 DEF Going
        <3> QED
            BY <1>5, <2>1, <3>2 DEF Going, packer_vars, Tasks
    <2> QED
        BY <1>5, <2>1, GoingBegin, GoingOpen, GoingAppend, GoingRefuse, GoingReturn, GoingClear
           DEF Packer_Next
<1> QED
    BY <1>4, <1>6

\* Whatever objects are packed, and whatever append is refused, a reader of the stream finds
\* those whose calls have returned 0, and from its last byte on the one being packed.
THEOREM PackerStreamWhole ==
    ASSUME PackerConstants, NEW Level, StreamConstants(Level)
    PROVE  Packer_Spec => []StreamWhole
<1>1. Packer_Init => StreamInv(Level)
    <2>1. Packer_Init => session \in Session
        BY DEF Packer_Init
    <2> QED
        BY <2>1, GoingInit DEF StreamInv
<1>2. StreamInv(Level) /\ [Packer_Next]_packer_vars => StreamInv(Level)'
    BY StreamStepInv
<1>3. StreamInv(Level) => StreamWhole
    <2> SUFFICES ASSUME StreamInv(Level), WholeObjects PROVE StreamWhole
        BY DEF StreamWhole
    <2>1. Levelled(Level[session]) /\ Going(Level[session])
        BY LevelledIs DEF StreamInv
    <2> QED
        BY <2>1, GoingWhole
<1> QED
    BY <1>1, <1>2, <1>3, PTL DEF Packer_Spec
=============================================================================
