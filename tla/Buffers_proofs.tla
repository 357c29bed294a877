--------------------------- MODULE Buffers_proofs ---------------------------
(***************************************************************************)
(* Two buffers that a packer may write to and that do not just copy.          *)
(*                                                                           *)
(* Zbuffer: whatever the compressor keeps back and whichever call fails, it   *)
(* loses no byte of the stream and writes none outside its block (RoomHonest  *)
(* and StreamExact), for every size of block, of uInt and of what is written. *)
(*                                                                           *)
(* Vrefbuffer: append_copy writes where nobody looks and every vector shows   *)
(* bytes that are there (MemoryOwned), and what the vectors of a buffer spell *)
(* is what was written to it (RefinesByteVectors), for every number of        *)
(* buffers, every chunk size and reference size and strings of every length.  *)
(* Spelling is recursive; what it computes is proved by induction over the    *)
(* set of lengths for which the claim holds (Induction).                      *)
(***************************************************************************)
EXTENDS Zbuffer, Vrefbuffer, SequenceTheorems, WellFoundedInduction, TLAPS
-----------------------------------------------------------------------------
(* Zbuffer *)

\* What the compressor has been handed of this stream.
Handed == IF pc \in {"write", "deflate"} THEN Unwritten ELSE written
End == IF closed THEN TailOf ELSE << >>

\* The input is the end of what was written, a flush has none, and no call was made of a
\* buffer that is gone.
InputInv ==
    /\ pc \in {"write", "deflate"} => /\ Unwritten \in Seq(Octet)
                                      /\ written = Unwritten \o in
    /\ pc \in {"flush", "expand"} => in = << >>
    /\ pc = "none" => ret = "none"

ZbufferInv == Zbuffer_TypeOK /\ OutputFits /\ RoomKnown /\ NothingLost /\ FlushedWhole /\ InputInv
-----------------------------------------------------------------------------
(* Sequences *)

\* A sequence is what is in front of a place followed by what is behind it.
LEMMA Split ==
    ASSUME NEW S, NEW s \in Seq(S), NEW n \in 0 .. Len(s)
    PROVE  /\ SubSeq(s, 1, n) \in Seq(S) /\ Len(SubSeq(s, 1, n)) = n
           /\ SubSeq(s, n + 1, Len(s)) \in Seq(S)
           /\ Len(SubSeq(s, n + 1, Len(s))) = Len(s) - n
           /\ SubSeq(s, 1, n) \o SubSeq(s, n + 1, Len(s)) = s
<1>1. SubSeq(s, 1, n) \o SubSeq(s, n + 1, Len(s)) = SubSeq(s, 1, Len(s))
    <2>1. Len(s) \in Nat
        BY LenProperties
    <2>2. 1 \in 1 .. Len(s) + 1 /\ n \in 1 - 1 .. Len(s) /\ Len(s) \in n .. Len(s)
        BY <2>1
    <2> QED
        BY <2>2, ConcatAdjacentSubSeq
<1>2. SubSeq(s, 1, Len(s)) = s
    BY SubSeqFull
<1>3. Len(s) \in Nat /\ \A i \in 1 .. Len(s) : s[i] \in S
    BY LenProperties, ElementOfSeq
<1>4. SubSeq(s, 1, n) \in Seq(S) /\ Len(SubSeq(s, 1, n)) = n
    <2>1. \A i \in 1 .. n : s[i] \in S
        BY <1>3
    <2> QED
        BY <1>3, <2>1, SubSeqProperties
<1>5. SubSeq(s, n + 1, Len(s)) \in Seq(S) /\ Len(SubSeq(s, n + 1, Len(s))) = Len(s) - n
    <2>1. \A i \in n + 1 .. Len(s) : s[i] \in S
        BY <1>3
    <2> QED
        BY <1>3, <2>1, SubSeqProperties
<1> QED
    BY <1>1, <1>2, <1>4, <1>5

\* The front of a concatenation.
LEMMA Front ==
    ASSUME NEW S, NEW s \in Seq(S), NEW t \in Seq(S)
    PROVE  SubSeq(s \o t, 1, Len(s \o t) - Len(t)) = s
<1>1. /\ s \o t \in Seq(S) /\ Len(s \o t) = Len(s) + Len(t)
      /\ \A i \in 1 .. Len(s) : (s \o t)[i] = s[i]
      /\ Len(s) \in Nat /\ Len(t) \in Nat
    BY ConcatProperties, LenProperties
<1>2. /\ SubSeq(s \o t, 1, Len(s)) \in Seq(S) /\ Len(SubSeq(s \o t, 1, Len(s))) = Len(s)
    BY <1>1, Split
<1>3. \A i \in 1 .. Len(s) : SubSeq(s \o t, 1, Len(s))[i] = s[i]
    <2>1. \A i \in 1 .. Len(s) : (s \o t)[i] \in S
        BY <1>1, ElementOfSeq
    <2>2. \A i \in 1 .. Len(s) - 1 + 1 : SubSeq(s \o t, 1, Len(s))[i] = (s \o t)[1 + i - 1]
        BY <1>1, <2>1, SubSeqProperties
    <2> QED
        BY <1>1, <2>2
<1>4. SubSeq(s \o t, 1, Len(s)) = s
    BY <1>1, <1>2, <1>3, SeqEqual
<1> QED
    BY <1>1, <1>4

LEMMA Assoc == \A r, s, t \in Seq(Unit) : (r \o s) \o t = r \o (s \o t)
BY ConcatAssociative

LEMMA OctetAssoc == \A r, s, t \in Seq(Octet) : (r \o s) \o t = r \o (s \o t)
BY ConcatAssociative

LEMMA Concat == \A s, t \in Seq(Unit) : s \o t \in Seq(Unit)
BY ConcatProperties

LEMMA NoMore == \A s \in Seq(Unit) : s \o << >> = s
BY ConcatEmptySeq

\* A sequence of bytes is one of units.
LEMMA OctetsAreUnits == ASSUME NEW s \in Seq(Octet) PROVE s \in Seq(Unit)
BY SeqMonotonic DEF Unit

LEMMA MarksAreUnits == HeadOf \in Seq(Unit) /\ TailOf \in Seq(Unit) /\ TailLeft \in Seq(Unit)
<1>1. HeadOf \in Seq(Unit) /\ TailOf \in Seq(Unit)
    BY ZbufferConstants, SeqMonotonic DEF Unit
<1> QED
    BY <1>1, EmptySeq DEF TailLeft
-----------------------------------------------------------------------------
(* What a call of deflate does *)

\* Nothing is lost between the compressor and the block.
LEMMA Deflated ==
    ASSUME Zbuffer_TypeOK, NEW k \in 0 .. Len(in), NEW put \in 0 .. avail, NEW tail \in Seq(Unit),
           Deflate(k, put, tail)
    PROVE  /\ content' \in Seq(Unit) /\ Len(content') = Len(content) + put
           /\ pending' \in Seq(Unit)
           /\ Len(pending') = Len(pending) + k + Len(tail) - put
           /\ in' \in Seq(Octet) /\ Len(in') = Len(in) - k
           /\ avail' \in 0 .. UInt - 1 /\ avail' = avail - put
           /\ in = SubSeq(in, 1, k) \o in'
           /\ SubSeq(in, 1, k) \in Seq(Octet)
           /\ taken \o content' \o pending'
                = ((taken \o content \o pending) \o SubSeq(in, 1, k)) \o tail
<1> DEFINE eaten == SubSeq(in, 1, k)
           made  == pending \o eaten \o tail
           m1 == SubSeq(made, 1, put)
           m2 == SubSeq(made, put + 1, Len(made))
<1>1. /\ put <= Len(made)
      /\ content' = content \o m1
      /\ avail' = avail - put
      /\ pending' = m2
      /\ in' = SubSeq(in, k + 1, Len(in))
    BY DEF Deflate
<1>2. /\ content \in Seq(Unit) /\ pending \in Seq(Unit) /\ taken \in Seq(Unit)
      /\ in \in Seq(Octet) /\ avail \in 0 .. UInt - 1 /\ UInt \in Nat
    BY ZbufferConstants DEF Zbuffer_TypeOK
<1>3. /\ eaten \in Seq(Octet) /\ Len(eaten) = k
      /\ in' \in Seq(Octet) /\ Len(in') = Len(in) - k /\ in = eaten \o in'
    BY <1>1, <1>2, Split
<1>4. eaten \in Seq(Unit)
    BY <1>3, OctetsAreUnits
<1>5. /\ pending \o eaten \in Seq(Unit) /\ made \in Seq(Unit)
      /\ Len(made) = Len(pending) + k + Len(tail) /\ Len(made) \in Nat
    <2> HIDE DEF eaten
    <2>1. pending \o eaten \in Seq(Unit) /\ Len(pending \o eaten) = Len(pending) + k
        BY <1>2, <1>3, <1>4, ConcatProperties
    <2> QED
        BY <2>1, ConcatProperties, LenProperties
<1> HIDE DEF made, eaten
<1>6. /\ m1 \in Seq(Unit) /\ Len(m1) = put /\ m2 \in Seq(Unit) /\ Len(m2) = Len(made) - put
      /\ m1 \o m2 = made
    <2>1. put \in 0 .. Len(made)
        BY <1>1, <1>5
    <2> QED
        BY <1>5, <2>1, Split, ZenonT(60)
<1> HIDE DEF m1, m2
<1>7. content \o m1 \in Seq(Unit) /\ Len(content \o m1) = Len(content) + put
    BY <1>2, <1>6, ConcatProperties
<1>8. (taken \o (content \o m1)) \o m2 = ((taken \o content \o pending) \o eaten) \o tail
    <2>1. taken \o content \in Seq(Unit) /\ taken \o content \o pending \in Seq(Unit)
        BY <1>2, Concat
    <2>2. taken \o (content \o m1) = (taken \o content) \o m1
        BY <1>2, <1>6, Assoc, ZenonT(60)
    <2>3. ((taken \o content) \o m1) \o m2 = (taken \o content) \o made
        BY <1>6, <2>1, Assoc, ZenonT(60)
    <2>4. made = (pending \o eaten) \o tail
        BY DEF made
    <2>5. (taken \o content) \o ((pending \o eaten) \o tail)
            = ((taken \o content) \o (pending \o eaten)) \o tail
        BY <1>5, <2>1, Assoc, ZenonT(60)
    <2>6. (taken \o content) \o (pending \o eaten) = ((taken \o content) \o pending) \o eaten
        <3> DEFINE front == taken \o content
        <3> HIDE DEF front
        <3>1. front \in Seq(Unit) /\ pending \in Seq(Unit) /\ eaten \in Seq(Unit)
            BY <1>2, <1>4, <2>1 DEF front
        <3>2. (front \o pending) \o eaten = front \o (pending \o eaten)
            BY <3>1, Assoc, ZenonT(60)
        <3> QED
            BY <3>2 DEF front
    <2> QED
        BY <2>2, <2>3, <2>4, <2>5, <2>6
<1>9. avail' \in 0 .. UInt - 1
    BY <1>1, <1>2
<1>10. Len(pending') = Len(pending) + k + Len(tail) - put
    BY <1>1, <1>5, <1>6
<1> QED
    BY <1>1, <1>2, <1>3, <1>6, <1>7, <1>9, <1>10, <1>8 DEF eaten
-----------------------------------------------------------------------------
(* The invariant *)

LEMMA ZbufferTypes == Zbuffer_TypeOK => /\ content \in Seq(Unit) /\ pending \in Seq(Unit)
                         /\ taken \in Seq(Unit) /\ in \in Seq(Octet) /\ written \in Seq(Octet)
                         /\ Len(content) \in Nat /\ Len(in) \in Nat /\ Len(pending) \in Nat
                         /\ avail \in Nat /\ block \in Nat /\ UInt \in Nat /\ UInt > 1
BY ZbufferConstants, LenProperties DEF Zbuffer_TypeOK

LEMMA ZbufferInit == Zbuffer_Init => ZbufferInv
<1> SUFFICES ASSUME Zbuffer_Init PROVE ZbufferInv
    OBVIOUS
<1>1. Zbuffer_TypeOK
    <2>1. /\ << >> \in Seq(Unit) /\ << >> \in Seq(Octet) /\ HeadOf \in Seq(Unit)
          /\ 0 \in 0 .. MaxBlock /\ 0 \in 0 .. UInt - 1
        BY MarksAreUnits, EmptySeq, ZbufferConstants
    <2> QED
        BY <2>1 DEF Zbuffer_Init, Zbuffer_TypeOK
<1>2. OutputFits /\ RoomKnown
    BY EmptySeq DEF Zbuffer_Init, OutputFits, RoomKnown
<1>3. NothingLost
    BY MarksAreUnits, ConcatEmptySeq, EmptySeq DEF Zbuffer_Init, NothingLost
<1>4. FlushedWhole /\ InputInv
    BY DEF Zbuffer_Init, FlushedWhole, InputInv
<1> QED
    BY <1>1, <1>2, <1>3, <1>4 DEF ZbufferInv

\* What was taken, is in the block and is still in the compressor, by name.
LEMMA Stream ==
    /\ NothingLost <=> taken \o content \o pending = HeadOf \o Handed \o End
    /\ NothingLost' <=> taken' \o content' \o pending' = HeadOf \o Handed' \o End'
BY DEF NothingLost, Handed, End

\* What is left of a number that uInt may not hold.
LEMMA Remainder ==
    ASSUME NEW n \in Nat, NEW u \in Nat, u > 0
    PROVE  n % u \in 0 .. u - 1 /\ n % u <= n /\ (n < u => n % u = n)
<1>1. n % u \in 0 .. u - 1
    OBVIOUS
<1>2. n % u <= n
    OBVIOUS
<1>3. n < u => n % u = n
    OBVIOUS
<1> QED
    BY <1>1, <1>2, <1>3

\* A block of the size that expand asks for.
LEMMA Expanded ==
    ASSUME Zbuffer_TypeOK, OutputFits, RoomKnown, Expand
    PROVE  /\ block' \in 0 .. MaxBlock /\ avail' \in 0 .. UInt - 1 /\ content' = content
           /\ OutputFits' /\ RoomKnown'
<1> DEFINE csize == Len(content) + avail
           nsize == IF csize = 0 THEN INIT_SIZE ELSE csize * 2
           room  == nsize - Len(content)
<1>1. /\ Len(content) \in Nat /\ avail \in Nat /\ block \in Nat
      /\ UInt \in Nat /\ UInt > 1 /\ INIT_SIZE \in Nat /\ MaxBlock \in Nat
    BY ZbufferTypes, ZbufferConstants
<1>2. /\ nsize <= MaxBlock /\ block' = nsize
      /\ avail' = room % UInt /\ content' = content
    BY DEF Expand
<1>3. /\ nsize \in Nat /\ room \in Nat /\ room = nsize - Len(content)
    BY <1>1
<1> HIDE DEF nsize, room
<1>4. /\ room % UInt \in 0 .. UInt - 1 /\ room % UInt <= room
      /\ room < UInt => room % UInt = room
    BY <1>1, <1>3, Remainder
<1>5. OutputFits'
    BY <1>1, <1>2, <1>3, <1>4 DEF OutputFits
<1>6. RoomKnown'
    BY <1>1, <1>2, <1>3, <1>4 DEF RoomKnown
<1> QED
    BY <1>1, <1>2, <1>3, <1>4, <1>5, <1>6

LEMMA Zbuffer_WriteInv == ASSUME ZbufferInv, NEW t \in Text, Zbuffer_Write(t) PROVE ZbufferInv'
<1>1. t \in Seq(Octet) /\ written \in Seq(Octet)
    BY ZbufferConstants, ZbufferTypes DEF ZbufferInv
<1>2. /\ in' = t /\ written' = written \o t /\ pc' = "write" /\ pc = "idle" /\ ret' = "none"
      /\ UNCHANGED <<block, content, avail, pending, closed, taken>>
    BY DEF Zbuffer_Write
<1>3. written' \in Seq(Octet)
    BY <1>1, <1>2, ConcatProperties
<1>4. Unwritten' = written
    BY <1>1, <1>2, Front DEF Unwritten
<1>5. Zbuffer_TypeOK'
    BY <1>1, <1>2, <1>3 DEF ZbufferInv, Zbuffer_TypeOK
<1>6. OutputFits' /\ RoomKnown'
    BY <1>2 DEF ZbufferInv, OutputFits, RoomKnown
<1>7. NothingLost'
    BY <1>2, <1>4, Stream DEF ZbufferInv, Handed, End
<1>8. FlushedWhole' /\ InputInv'
    BY <1>1, <1>2, <1>4 DEF FlushedWhole, InputInv
<1> QED
    BY <1>5, <1>6, <1>7, <1>8 DEF ZbufferInv

LEMMA WriteDoneInv == ASSUME ZbufferInv, WriteDone PROVE ZbufferInv'
<1>1. /\ pc = "write" /\ in = << >> /\ pc' = "idle" /\ ret' = "ok"
      /\ UNCHANGED <<block, content, avail, in, pending, closed, written, taken>>
    BY DEF WriteDone, zstream
<1>2. Unwritten = written
    BY <1>1, ZbufferTypes, SubSeqFull, EmptySeq, LenProperties DEF ZbufferInv, Unwritten
<1>3. Zbuffer_TypeOK'
    BY <1>1 DEF ZbufferInv, Zbuffer_TypeOK
<1>4. OutputFits' /\ RoomKnown'
    BY <1>1 DEF ZbufferInv, OutputFits, RoomKnown
<1>5. NothingLost'
    BY <1>1, <1>2, Stream DEF ZbufferInv, Handed, End
<1>6. FlushedWhole' /\ InputInv'
    BY <1>1 DEF FlushedWhole, InputInv
<1> QED
    BY <1>3, <1>4, <1>5, <1>6 DEF ZbufferInv

\* A write that fails gives back what it has not handed over.
LEMMA WriteFailsInv ==
    ASSUME ZbufferInv, pc \in {"write", "deflate"}, pc' = "idle", ret' = "error",
           written' = Unwritten, UNCHANGED <<block, content, avail, in, pending, closed, taken>>
    PROVE  ZbufferInv'
<1>1. Unwritten \in Seq(Octet)
    BY DEF ZbufferInv, InputInv
<1>2. Zbuffer_TypeOK'
    BY <1>1 DEF ZbufferInv, Zbuffer_TypeOK
<1>3. OutputFits' /\ RoomKnown'
    BY DEF ZbufferInv, OutputFits, RoomKnown
<1>4. NothingLost'
    BY Stream DEF ZbufferInv, Handed, End
<1>5. FlushedWhole' /\ InputInv'
    BY DEF FlushedWhole, InputInv
<1> QED
    BY <1>2, <1>3, <1>4, <1>5 DEF ZbufferInv

LEMMA WriteExpandsInv == ASSUME ZbufferInv, WriteExpands PROVE ZbufferInv'
<1>1. CASE pc' = "idle"
    <2>1. /\ pc = "write" /\ ret' = "error" /\ written' = Unwritten
          /\ UNCHANGED <<block, content, avail, in, pending, closed, taken>>
        BY <1>1 DEF WriteExpands
    <2> QED
        BY <1>1, <2>1, WriteFailsInv
<1>2. CASE pc' # "idle"
    <2>1. /\ pc = "write" /\ Expand /\ pc' = "deflate"
          /\ UNCHANGED <<in, pending, closed, taken, ret, written>>
        BY <1>2 DEF WriteExpands
    <2>2. /\ block' \in 0 .. MaxBlock /\ avail' \in 0 .. UInt - 1 /\ content' = content
          /\ OutputFits' /\ RoomKnown'
        BY <2>1, Expanded DEF ZbufferInv
    <2>3. Zbuffer_TypeOK'
        BY <2>1, <2>2 DEF ZbufferInv, Zbuffer_TypeOK
    <2>4. Unwritten' = Unwritten
        BY <2>1 DEF Unwritten
    <2>5. NothingLost'
        BY <2>1, <2>2, <2>4, Stream DEF ZbufferInv, Handed, End
    <2>6. FlushedWhole' /\ InputInv'
        BY <2>1, <2>4 DEF ZbufferInv, FlushedWhole, InputInv
    <2> QED
        BY <2>2, <2>3, <2>5, <2>6 DEF ZbufferInv
<1> QED
    BY <1>1, <1>2

LEMMA WriteDeflatesInv == ASSUME ZbufferInv, WriteDeflates PROVE ZbufferInv'
<1>1. CASE pc' = "idle"
    <2>1. /\ pc \in {"write", "deflate"} /\ ret' = "error" /\ written' = Unwritten
          /\ UNCHANGED <<block, content, avail, in, pending, closed, taken>>
        BY <1>1 DEF WriteDeflates
    <2> QED
        BY <1>1, <2>1, WriteFailsInv
<1>2. CASE pc' # "idle"
    <2>1. /\ pc \in {"write", "deflate"} /\ ~closed /\ DeflateOk /\ pc' = "write"
          /\ UNCHANGED <<ret, written, block, closed, taken>>
        BY <1>2 DEF WriteDeflates
    <2>2. PICK k \in 0 .. Len(in), put \in 0 .. avail : Deflate(k, put, << >>)
        BY <2>1 DEF DeflateOk
    <2> DEFINE eaten == SubSeq(in, 1, k)
    <2>3. /\ content' \in Seq(Unit) /\ Len(content') = Len(content) + put
          /\ pending' \in Seq(Unit)
          /\ in' \in Seq(Octet)
          /\ avail' \in 0 .. UInt - 1 /\ avail' = avail - put
          /\ in = eaten \o in' /\ eaten \in Seq(Octet)
          /\ taken \o content' \o pending'
               = ((taken \o content \o pending) \o eaten) \o << >>
        <3>1. << >> \in Seq(Unit)
            BY EmptySeq
        <3> QED
            BY <2>2, <3>1, Deflated DEF ZbufferInv
    <2> HIDE DEF eaten
    <2>4. Zbuffer_TypeOK'
        BY <2>1, <2>3 DEF ZbufferInv, Zbuffer_TypeOK
    <2>5. OutputFits' /\ RoomKnown'
        <3>1. Len(content') + avail' = Len(content) + avail /\ block' = block
            BY <2>1, <2>3, ZbufferTypes, SMTT(30) DEF ZbufferInv
        <3> QED
            BY <3>1 DEF ZbufferInv, OutputFits, RoomKnown
    <2>6. Unwritten \in Seq(Octet) /\ written = Unwritten \o in
        BY <2>1 DEF ZbufferInv, InputInv
    <2>7. /\ Unwritten \o eaten \in Seq(Octet)
          /\ written' = (Unwritten \o eaten) \o in'
        <3>1. Unwritten \o eaten \in Seq(Octet)
            BY <2>3, <2>6, ConcatProperties
        <3>2. (Unwritten \o eaten) \o in' = Unwritten \o (eaten \o in')
            BY <2>3, <2>6, OctetAssoc
        <3> QED
            BY <2>1, <2>3, <2>6, <3>1, <3>2
    <2>8. Unwritten' = Unwritten \o eaten
        BY <2>3, <2>7, Front DEF Unwritten
    <2>9. NothingLost'
        <3>1. Handed = Unwritten /\ Handed' = Unwritten' /\ End = << >> /\ End' = << >>
            BY <2>1 DEF Handed, End
        <3>2. /\ Unwritten \in Seq(Unit) /\ eaten \in Seq(Unit)
              /\ Unwritten \o eaten \in Seq(Unit) /\ HeadOf \in Seq(Unit)
              /\ taken \in Seq(Unit) /\ content \in Seq(Unit) /\ pending \in Seq(Unit)
            BY <2>3, <2>6, <2>7, OctetsAreUnits, MarksAreUnits, ZbufferTypes DEF ZbufferInv
        <3>3. taken \o content \o pending = HeadOf \o Unwritten
            <4>1. taken \o content \o pending = HeadOf \o Unwritten \o << >>
                BY <3>1, Stream DEF ZbufferInv
            <4> QED
                BY <3>2, <4>1, Concat, NoMore
        <3>4. /\ HeadOf \o Unwritten \in Seq(Unit) /\ (HeadOf \o Unwritten) \o eaten \in Seq(Unit)
              /\ HeadOf \o (Unwritten \o eaten) \in Seq(Unit)
            BY <3>2, Concat
        <3>5. taken \o content' \o pending' = (HeadOf \o Unwritten) \o eaten
            BY <2>3, <3>3, <3>4, NoMore
        <3>6. (HeadOf \o Unwritten) \o eaten = HeadOf \o (Unwritten \o eaten)
            <4>1. HeadOf \in Seq(Unit) /\ Unwritten \in Seq(Unit) /\ eaten \in Seq(Unit)
                BY <3>2
            <4> QED
                BY <4>1, Assoc, Zenon
        <3>7. HeadOf \o (Unwritten \o eaten) \o << >> = HeadOf \o (Unwritten \o eaten)
            BY <3>4, NoMore
        <3>8. taken' = taken
            BY <2>1
        <3> QED
            BY <2>8, <3>1, <3>5, <3>6, <3>7, <3>8, Stream
    <2>10. FlushedWhole' /\ InputInv'
        BY <2>1, <2>7, <2>8 DEF FlushedWhole, InputInv
    <2> QED
        BY <2>4, <2>5, <2>9, <2>10 DEF ZbufferInv
<1> QED
    BY <1>1, <1>2

LEMMA FlushInv == ASSUME ZbufferInv, Flush PROVE ZbufferInv'
<1>1. /\ pc = "idle" /\ in = << >> /\ pc' = "flush" /\ ret' = "none"
      /\ UNCHANGED <<block, content, avail, in, pending, closed, written, taken>>
    BY DEF Flush, CanFlush, zstream
<1>2. Zbuffer_TypeOK'
    BY <1>1 DEF ZbufferInv, Zbuffer_TypeOK
<1>3. OutputFits' /\ RoomKnown'
    BY <1>1 DEF ZbufferInv, OutputFits, RoomKnown
<1>4. NothingLost'
    BY <1>1, Stream DEF ZbufferInv, Handed, End
<1>5. FlushedWhole' /\ InputInv'
    BY <1>1 DEF FlushedWhole, InputInv
<1> QED
    BY <1>2, <1>3, <1>4, <1>5 DEF ZbufferInv

\* A call of deflate with Z_FINISH: the tail is made at most once.
LEMMA Finished ==
    ASSUME ZbufferInv, pc = "flush", NEW k \in 0 .. Len(in), NEW put \in 0 .. avail,
           NEW tail \in Seq(Unit), Deflate(k, put, tail),
           \/ tail = TailLeft /\ closed' = TRUE
           \/ tail = << >> /\ UNCHANGED closed,
           pc' \in {"idle", "expand"}, ret' \in {ret, "data"},
           ret' = "data" /\ pc' = "idle" => closed' /\ pending' = << >>,
           UNCHANGED <<block, written, taken>>
    PROVE  ZbufferInv'
<1> DEFINE eaten == SubSeq(in, 1, k)
<1>1. /\ content' \in Seq(Unit) /\ Len(content') = Len(content) + put
      /\ pending' \in Seq(Unit)
      /\ in' \in Seq(Octet) /\ Len(in') = Len(in) - k
      /\ avail' \in 0 .. UInt - 1 /\ avail' = avail - put
      /\ taken \o content' \o pending' = ((taken \o content \o pending) \o eaten) \o tail
    BY Deflated DEF ZbufferInv
<1>2. in = << >> /\ k = 0
    BY EmptySeq DEF ZbufferInv, InputInv
<1>3. eaten = << >>
    BY <1>2, SubSeqEmpty
<1>4. in' = << >>
    BY <1>1, <1>2, EmptySeq
<1> HIDE DEF eaten
<1>5. closed \in BOOLEAN /\ closed' \in BOOLEAN /\ ret \in {"none", "ok", "error", "data", "NULL"}
    BY DEF ZbufferInv, Zbuffer_TypeOK
<1>6. Zbuffer_TypeOK'
    BY <1>1, <1>5 DEF ZbufferInv, Zbuffer_TypeOK
<1>7. OutputFits' /\ RoomKnown'
    <2>1. Len(content') + avail' = Len(content) + avail
        BY <1>1, ZbufferTypes, SMTT(30) DEF ZbufferInv
    <2> QED
        BY <2>1 DEF ZbufferInv, OutputFits, RoomKnown
<1>8. NothingLost'
    <2> DEFINE head == HeadOf \o written
    <2>1. /\ written \in Seq(Unit) /\ HeadOf \in Seq(Unit) /\ End \in Seq(Unit)
          /\ taken \in Seq(Unit) /\ content \in Seq(Unit) /\ pending \in Seq(Unit)
        BY MarksAreUnits, OctetsAreUnits, ZbufferTypes, EmptySeq DEF ZbufferInv, End
    <2>2. head \in Seq(Unit) /\ head \o End \in Seq(Unit)
        BY <2>1, Concat
    <2> HIDE DEF head
    <2>3. taken \o content \o pending = head \o End
        BY Stream DEF ZbufferInv, Handed, head
    <2>4. taken \o content' \o pending' = (head \o End) \o tail
        BY <1>1, <1>3, <2>2, <2>3, NoMore
    <2>5. (head \o End) \o tail = head \o End'
        <3>1. CASE tail = << >> /\ closed' = closed
            BY <2>2, <3>1, NoMore DEF End
        <3>2. CASE tail = TailLeft /\ closed' = TRUE /\ closed
            BY <2>2, <3>2, NoMore DEF End, TailLeft
        <3>3. CASE tail = TailLeft /\ closed' = TRUE /\ ~closed
            <4>1. End = << >> /\ tail = TailOf /\ End' = TailOf
                BY <3>3 DEF End, TailLeft
            <4> QED
                BY <2>2, <4>1, NoMore
        <3> QED
            BY <1>5, <3>1, <3>2, <3>3
    <2>6. Handed' = written
        BY DEF Handed
    <2> QED
        BY <2>4, <2>5, <2>6, Stream DEF head
<1>9. FlushedWhole' /\ InputInv'
    BY <1>4 DEF FlushedWhole, InputInv
<1> QED
    BY <1>6, <1>7, <1>8, <1>9 DEF ZbufferInv

LEMMA FlushDeflatesInv == ASSUME ZbufferInv, FlushDeflates PROVE ZbufferInv'
<1>0. /\ pc = "flush" /\ UNCHANGED <<block, written, taken>>
      /\ Len(in) \in Nat /\ avail \in Nat /\ Len(pending) \in Nat
      /\ TailLeft \in Seq(Unit) /\ << >> \in Seq(Unit) /\ Len(TailLeft) \in Nat
    BY ZbufferTypes, MarksAreUnits, EmptySeq, LenProperties DEF ZbufferInv, FlushDeflates
<1>1. CASE DeflateEnds /\ pc' = "idle" /\ ret' = "data"
    <2>1. /\ Left \in 0 .. avail /\ Len(in) \in 0 .. Len(in)
          /\ Deflate(Len(in), Left, TailLeft) /\ closed' = TRUE
        BY <1>0, <1>1 DEF DeflateEnds, Left
    <2>2. Len(pending') = Len(pending) + Len(in) + Len(TailLeft) - Left /\ pending' \in Seq(Unit)
        BY <1>0, <2>1, Deflated DEF ZbufferInv
    <2>3. pending' = << >>
        BY <1>0, <2>2, EmptySeq DEF Left
    <2> QED
        BY <1>0, <1>1, <2>1, <2>3, Finished
<1>2. CASE DeflateFills /\ pc' = "expand" /\ ret' = ret
    <2>1. avail \in 0 .. avail /\ Len(in) \in 0 .. Len(in)
        BY <1>0
    <2>2. CASE Deflate(Len(in), avail, TailLeft) /\ closed' = TRUE
        BY <1>0, <1>2, <2>1, <2>2, Finished
    <2>3. ASSUME NEW k \in 0 .. Len(in), Deflate(k, avail, << >>), UNCHANGED closed
          PROVE  ZbufferInv'
        BY <1>0, <1>2, <2>1, <2>3, Finished
    <2> QED
        BY <1>2, <2>2, <2>3 DEF DeflateFills
<1>3. CASE /\ pc' \in {"expand", "idle"} /\ ret' \in {ret, "NULL"} /\ (pc' = "idle" => ret' = "NULL")
           /\ UNCHANGED <<content, avail, in, pending, closed>>
    <2>1. in = << >>
        BY <1>0 DEF ZbufferInv, InputInv
    <2>2. Zbuffer_TypeOK'
        BY <1>0, <1>3 DEF ZbufferInv, Zbuffer_TypeOK
    <2>3. OutputFits' /\ RoomKnown'
        BY <1>0, <1>3 DEF ZbufferInv, OutputFits, RoomKnown
    <2>4. NothingLost'
        BY <1>0, <1>3, Stream DEF ZbufferInv, Handed, End
    <2>5. FlushedWhole' /\ InputInv'
        BY <1>3, <2>1 DEF FlushedWhole, InputInv
    <2> QED
        BY <2>2, <2>3, <2>4, <2>5 DEF ZbufferInv
<1> QED
    BY <1>1, <1>2, <1>3 DEF FlushDeflates

LEMMA FlushExpandsInv == ASSUME ZbufferInv, FlushExpands PROVE ZbufferInv'
<1>1. /\ pc = "expand" /\ in = << >>
      /\ UNCHANGED <<in, pending, closed, written, taken>>
    BY DEF FlushExpands, zstream, ZbufferInv, InputInv
<1>2. /\ block' \in 0 .. MaxBlock /\ avail' \in 0 .. UInt - 1 /\ content' = content
      /\ OutputFits' /\ RoomKnown'
    <2>1. CASE Expand
        BY <2>1, Expanded DEF ZbufferInv
    <2>2. CASE UNCHANGED <<block, content, avail>>
        BY <2>2 DEF ZbufferInv, Zbuffer_TypeOK, OutputFits, RoomKnown
    <2> QED
        BY <2>1, <2>2 DEF FlushExpands
<1>3. \/ pc' = "flush" /\ ret' = ret
      \/ pc' = "idle" /\ ret' = "NULL"
    BY DEF FlushExpands
<1>4. Zbuffer_TypeOK'
    BY <1>1, <1>2, <1>3 DEF ZbufferInv, Zbuffer_TypeOK
<1>5. NothingLost'
    BY <1>1, <1>2, <1>3, Stream DEF ZbufferInv, Handed, End
<1>6. FlushedWhole' /\ InputInv'
    BY <1>1, <1>3 DEF FlushedWhole, InputInv
<1> QED
    BY <1>2, <1>4, <1>5, <1>6 DEF ZbufferInv

\* reset_buffer gives all the room of the block back.
LEMMA Rewound ==
    ASSUME Zbuffer_TypeOK, OutputFits, RoomKnown, Rewind, UNCHANGED block
    PROVE  /\ content' = << >> /\ avail' \in 0 .. UInt - 1
           /\ OutputFits' /\ RoomKnown'
<1> DEFINE room == avail + Len(content)
<1>1. /\ Len(content) \in Nat /\ avail \in Nat /\ block \in Nat /\ UInt \in Nat /\ UInt > 1
      /\ room \in Nat /\ room = avail + Len(content)
    BY ZbufferTypes
<1>2. content' = << >> /\ avail' = room % UInt /\ Len(content') = 0
    BY EmptySeq DEF Rewind
<1> HIDE DEF room
<1>3. room % UInt \in 0 .. UInt - 1 /\ room % UInt <= room /\ (room < UInt => room % UInt = room)
    BY <1>1, Remainder
<1>4. OutputFits'
    BY <1>1, <1>2, <1>3 DEF OutputFits
<1>5. RoomKnown'
    BY <1>1, <1>2, <1>3 DEF RoomKnown
<1> QED
    BY <1>2, <1>3, <1>4, <1>5

\* What a new stream begins with.
LEMMA Afresh ==
    ASSUME pending' = HeadOf, closed' = FALSE, written' = << >>, taken' = << >>,
           content' = << >>, pc' \in {"idle", "none"}
    PROVE  NothingLost'
<1>1. HeadOf \in Seq(Unit) /\ << >> \in Seq(Unit)
    BY MarksAreUnits, EmptySeq
<1>2. << >> \o << >> = << >> /\ << >> \o HeadOf = HeadOf /\ HeadOf \o << >> = HeadOf
    BY <1>1, ConcatEmptySeq
<1>3. Handed' = << >> /\ End' = << >>
    BY DEF Handed, End
<1> QED
    BY <1>2, <1>3, Stream

LEMMA ResetInv == ASSUME ZbufferInv, Reset PROVE ZbufferInv'
<1>1. /\ pc = "idle" /\ pc' = "idle" /\ ret' = "none" /\ Rewind /\ UNCHANGED <<block, in>>
      /\ pending' = HeadOf /\ closed' = FALSE /\ written' = << >> /\ taken' = << >>
    BY DEF Reset, ZbufferInv
<1>2. content' = << >> /\ avail' \in 0 .. UInt - 1 /\ OutputFits' /\ RoomKnown'
    BY <1>1, Rewound DEF ZbufferInv
<1>3. Zbuffer_TypeOK'
    BY <1>1, <1>2, MarksAreUnits, EmptySeq DEF ZbufferInv, Zbuffer_TypeOK
<1>4. NothingLost'
    BY <1>1, <1>2, Afresh
<1>5. FlushedWhole' /\ InputInv'
    BY <1>1 DEF FlushedWhole, InputInv
<1> QED
    BY <1>2, <1>3, <1>4, <1>5 DEF ZbufferInv

\* The application takes what is in the buffer.
LEMMA Taken ==
    ASSUME ZbufferInv, pc = "idle", content' = << >>, taken' = taken \o content,
           avail' \in 0 .. UInt - 1, block' \in 0 .. MaxBlock, OutputFits', RoomKnown',
           UNCHANGED <<in, pending, closed, pc, ret, written>>
    PROVE  ZbufferInv'
<1>1. /\ taken \in Seq(Unit) /\ content \in Seq(Unit) /\ << >> \in Seq(Unit)
      /\ taken \o content \in Seq(Unit)
    BY ZbufferTypes, Concat, EmptySeq DEF ZbufferInv
<1>2. Zbuffer_TypeOK'
    BY <1>1 DEF ZbufferInv, Zbuffer_TypeOK
<1>3. (taken \o content) \o << >> = taken \o content
    BY <1>1, NoMore
<1>4. NothingLost'
    BY <1>3, Stream DEF ZbufferInv, Handed, End
<1>5. FlushedWhole' /\ InputInv'
    BY DEF ZbufferInv, FlushedWhole, InputInv
<1> QED
    BY <1>2, <1>4, <1>5 DEF ZbufferInv

LEMMA Reset_BufferInv == ASSUME ZbufferInv, Reset_Buffer PROVE ZbufferInv'
<1>1. /\ pc = "idle" /\ Rewind /\ taken' = taken \o content
      /\ UNCHANGED <<block, in, pending, closed, pc, ret, written>>
    BY DEF Reset_Buffer
<1>2. /\ content' = << >> /\ avail' \in 0 .. UInt - 1 /\ OutputFits' /\ RoomKnown'
      /\ block' \in 0 .. MaxBlock
    BY <1>1, Rewound DEF ZbufferInv, Zbuffer_TypeOK
<1> QED
    BY <1>1, <1>2, Taken

\* No block, no room.
LEMMA Nothing ==
    ASSUME block' = 0, content' = << >>, avail' = 0
    PROVE  /\ OutputFits' /\ RoomKnown'
           /\ block' \in 0 .. MaxBlock /\ avail' \in 0 .. UInt - 1
BY ZbufferConstants, EmptySeq DEF OutputFits, RoomKnown

LEMMA Release_BufferInv == ASSUME ZbufferInv, Release_Buffer PROVE ZbufferInv'
<1>1. /\ pc = "idle" /\ block' = 0 /\ content' = << >> /\ avail' = 0
      /\ taken' = taken \o content /\ UNCHANGED <<in, pending, closed, pc, ret, written>>
    BY DEF Release_Buffer
<1> QED
    BY <1>1, Nothing, Taken

LEMMA Zbuffer_DestroyInv == ASSUME ZbufferInv, Zbuffer_Destroy PROVE ZbufferInv'
<1>1. /\ block' = 0 /\ content' = << >> /\ avail' = 0 /\ in' = << >>
      /\ pending' = HeadOf /\ closed' = FALSE /\ written' = << >> /\ taken' = << >>
      /\ ret' = "none" /\ pc' = "none"
    BY DEF Zbuffer_Destroy
<1>2. Zbuffer_TypeOK'
    BY <1>1, Nothing, MarksAreUnits, EmptySeq DEF Zbuffer_TypeOK
<1>3. NothingLost'
    BY <1>1, Afresh
<1>4. FlushedWhole' /\ InputInv'
    BY <1>1 DEF FlushedWhole, InputInv
<1> QED
    BY <1>1, <1>2, <1>3, <1>4, Nothing DEF ZbufferInv

LEMMA Zbuffer_NewInv == ASSUME ZbufferInv, Zbuffer_New PROVE ZbufferInv'
<1>1. /\ pc = "none" /\ pc' = "idle"
      /\ UNCHANGED <<block, content, avail, in, ret, pending, closed, written, taken>>
    BY DEF Zbuffer_New, zstream
<1>2. Zbuffer_TypeOK' /\ OutputFits' /\ RoomKnown'
    BY <1>1 DEF ZbufferInv, Zbuffer_TypeOK, OutputFits, RoomKnown
<1>3. NothingLost'
    BY <1>1, Stream DEF ZbufferInv, Handed, End
<1> QED
    BY <1>1, <1>2, <1>3 DEF ZbufferInv, FlushedWhole, InputInv

LEMMA ZbufferStep == ZbufferInv /\ [Zbuffer_Next]_zbuffer_vars => ZbufferInv'
<1> SUFFICES ASSUME ZbufferInv, [Zbuffer_Next]_zbuffer_vars PROVE ZbufferInv'
    OBVIOUS
<1>1. CASE \E t \in Text : Zbuffer_Write(t)
    BY <1>1, Zbuffer_WriteInv
<1>2. CASE Step
    BY <1>2, WriteDoneInv, WriteExpandsInv, WriteDeflatesInv, FlushDeflatesInv,
       FlushExpandsInv DEF Step
<1>3. CASE Reset \/ Reset_Buffer \/ Release_Buffer
    BY <1>3, ResetInv, Reset_BufferInv, Release_BufferInv
<1>4. CASE Flush \/ Zbuffer_New \/ Zbuffer_Destroy
    BY <1>4, FlushInv, Zbuffer_NewInv, Zbuffer_DestroyInv
<1>5. CASE UNCHANGED zbuffer_vars
    BY <1>5, Stream DEF zbuffer_vars, ZbufferInv, Zbuffer_TypeOK, OutputFits, RoomKnown, NothingLost, FlushedWhole,
       InputInv, Unwritten
<1> QED
    BY <1>1, <1>2, <1>3, <1>4, <1>5 DEF Zbuffer_Next
-----------------------------------------------------------------------------
LEMMA ZbufferInvariance == Zbuffer_Spec => []ZbufferInv
BY ZbufferInit, ZbufferStep, PTL DEF Zbuffer_Spec

\* next_out and avail_out describe room inside the block, after any series of expansions,
\* rewinds and releases; they lose some of it only where 32 bits cannot count it.
THEOREM ZbufferRoomHonest == Zbuffer_Spec => []RoomHonest
<1>1. ZbufferInv => RoomHonest
    BY DEF ZbufferInv, RoomHonest
<1> QED
    BY <1>1, ZbufferInvariance, PTL

\* The compressed stream is the one that was written, whole when flush returns the block,
\* whichever calls found no memory on the way.
THEOREM ZbufferStreamExact == Zbuffer_Spec => []StreamExact
<1>1. ZbufferInv => StreamExact
    BY DEF ZbufferInv, StreamExact
<1> QED
    BY <1>1, ZbufferInvariance, PTL
-----------------------------------------------------------------------------
(* Induction over the numbers, for a set and not for a predicate, and what a list of *)
(* sequences spells, which needs it                                                 *)

LEMMA HasLeast == ASSUME NEW T, T \subseteq Nat, T # {} PROVE \E n \in T : \A m \in T : n <= m
<1>1. PICK x \in T : \A y \in T : ~ (<<y, x>> \in OpToRel(<, Nat))
    BY NatLessThanWellFounded, WFMin
<1>2. \A y \in T : y \in Nat /\ x \in Nat /\ ~(y < x)
    BY <1>1 DEF OpToRel
<1>3. ASSUME NEW m \in T PROVE x <= m
    BY <1>2, <1>3
<1> QED
    BY <1>3

LEMMA Induction ==
    ASSUME NEW S, 0 \in S, \A n \in Nat : n \in S => n + 1 \in S
    PROVE  \A n \in Nat : n \in S
<1> DEFINE T == Nat \ S
<1>1. ASSUME T # {} PROVE FALSE
    <2>1. PICK n \in T : \A m \in T : n <= m
        BY <1>1, HasLeast
    <2>2. n \in Nat /\ n # 0 /\ n - 1 \in Nat /\ n - 1 \notin T /\ (n - 1) + 1 = n
        BY <2>1
    <2> QED
        BY <2>2
<1> QED
    BY <1>1

LEMMA ConcatIs ==
    ASSUME NEW S, NEW s \in Seq(S), NEW t \in Seq(S)
    PROVE  /\ s \o t \in Seq(S) /\ Len(s) \in Nat /\ Len(t) \in Nat
           /\ Len(s \o t) = Len(s) + Len(t) /\ DOMAIN (s \o t) = 1 .. Len(s) + Len(t)
           /\ \A i \in 1 .. Len(s) : (s \o t)[i] = s[i]
           /\ \A i \in Len(s) + 1 .. Len(s) + Len(t) :
                 (s \o t)[i] = t[i - Len(s)] /\ i - Len(s) \in 1 .. Len(t)
OBVIOUS

\* f[i] is what the first i elements of g, n sequences, spell one behind the other.
Joined(f, g, n) == f = [i \in 0 .. n |-> IF i = 0 THEN << >> ELSE f[i - 1] \o g[i]]

\* Concatenation is associative; for Zenon, which does not see this by itself.
Associative(S) == \A s, t, u \in Seq(S) : (s \o t) \o u = s \o (t \o u)

LEMMA ConcatIsAssociative == \A S : Associative(S)
<1> SUFFICES ASSUME NEW S PROVE Associative(S)
    OBVIOUS
<1>1. ASSUME NEW s \in Seq(S), NEW t \in Seq(S), NEW u \in Seq(S)
      PROVE  (s \o t) \o u = s \o (t \o u)
    BY ConcatAssociative
<1> QED
    BY <1>1 DEF Associative

LEMMA JoinedIs ==
    ASSUME NEW f, NEW g, NEW n \in Nat, Joined(f, g, n)
    PROVE  f[0] = << >> /\ \A i \in 1 .. n : f[i] = f[i - 1] \o g[i]
<1>1. f = [i \in 0 .. n |-> IF i = 0 THEN << >> ELSE f[i - 1] \o g[i]]
    BY DEF Joined
<1>2. \A i \in 0 .. n : f[i] = IF i = 0 THEN << >> ELSE f[i - 1] \o g[i]
    BY <1>1
<1>3. 0 \in 0 .. n /\ \A i \in 1 .. n : i \in 0 .. n /\ i # 0
    OBVIOUS
<1>4. f[0] = << >>
    BY <1>2, <1>3
<1>5. \A i \in 1 .. n : f[i] = f[i - 1] \o g[i]
    BY <1>2, <1>3
<1> QED
    BY <1>4, <1>5

LEMMA JoinedExists == ASSUME NEW g PROVE \A n \in Nat : \E f : Joined(f, g, n)
<1> DEFINE S == {n \in Nat : \E f : Joined(f, g, n)}
<1>1. 0 \in S
    <2> DEFINE f == [i \in 0 .. 0 |-> << >>]
    <2>1. f = [i \in 0 .. 0 |-> IF i = 0 THEN << >> ELSE f[i - 1] \o g[i]]
        OBVIOUS
    <2> QED
        BY <2>1 DEF Joined
<1>2. ASSUME NEW n \in Nat, n \in S PROVE n + 1 \in S
    <2>1. PICK f : Joined(f, g, n)
        BY <1>2
    <2> DEFINE h == [i \in 0 .. n + 1 |-> IF i = n + 1 THEN f[n] \o g[n + 1] ELSE f[i]]
    <2>2. f[0] = << >> /\ \A i \in 1 .. n : f[i] = f[i - 1] \o g[i]
        BY <2>1, JoinedIs
    <2>3. \A i \in 0 .. n + 1 : h[i] = IF i = n + 1 THEN f[n] \o g[n + 1] ELSE f[i]
        OBVIOUS
    <2>4. ASSUME NEW i \in 0 .. n + 1
          PROVE  h[i] = IF i = 0 THEN << >> ELSE h[i - 1] \o g[i]
        <3> HIDE DEF h
        <3>1. CASE i = 0
            BY <2>2, <2>3, <3>1
        <3>2. CASE i = n + 1
            <4>1. (n + 1) - 1 = n /\ n + 1 # 0 /\ n # n + 1 /\ n \in 0 .. n + 1 /\ n + 1 \in 0 .. n + 1
                OBVIOUS
            <4>2. h[n + 1] = f[n] \o g[n + 1] /\ h[n] = f[n]
                BY <2>3, <4>1
            <4> QED
                BY <3>2, <4>1, <4>2
        <3>3. CASE i \in 1 .. n
            <4>1. i # n + 1 /\ i - 1 # n + 1 /\ i - 1 \in 0 .. n + 1
                BY <3>3
            <4> QED
                BY <2>2, <2>3, <3>3, <4>1
        <3> QED
            BY <3>1, <3>2, <3>3
    <2>5. h = [i \in 0 .. n + 1 |-> h[i]]
        OBVIOUS
    <2> HIDE DEF h
    <2>6. h = [i \in 0 .. n + 1 |-> IF i = 0 THEN << >> ELSE h[i - 1] \o g[i]]
        BY <2>4, <2>5
    <2>7. Joined(h, g, n + 1)
        BY <2>6 DEF Joined
    <2> QED
        BY <2>7
<1> HIDE DEF S
<1>3. \A n \in Nat : n \in S
    BY <1>1, <1>2, Induction
<1> QED
    BY <1>3 DEF S

AreSeqs(g, n, T) == \A i \in 1 .. n : g[i] \in Seq(T)

\* What is joined are sequences.
LEMMA JoinedSeq ==
    ASSUME NEW T, NEW f, NEW g, NEW n \in Nat, Joined(f, g, n), AreSeqs(g, n, T)
    PROVE  \A i \in 0 .. n : f[i] \in Seq(T)
<1> DEFINE S == {i \in Nat : i <= n => f[i] \in Seq(T)}
<1>1. f[0] = << >> /\ \A i \in 1 .. n : f[i] = f[i - 1] \o g[i]
    BY JoinedIs
<1>2. 0 \in S
    <2>1. << >> \in Seq(T)
        OBVIOUS
    <2> QED
        BY <1>1, <2>1
<1>3. ASSUME NEW i \in Nat, i \in S PROVE i + 1 \in S
    <2> SUFFICES ASSUME i + 1 <= n PROVE f[i + 1] \in Seq(T)
        OBVIOUS
    <2>1. i + 1 \in 1 .. n /\ (i + 1) - 1 = i /\ i <= n
        OBVIOUS
    <2>2. f[i + 1] = f[i] \o g[i + 1] /\ f[i] \in Seq(T) /\ g[i + 1] \in Seq(T)
        BY <1>1, <1>3, <2>1 DEF AreSeqs
    <2> QED
        BY <2>2, ConcatIs
<1> HIDE DEF S
<1>4. \A i \in Nat : i \in S
    BY <1>2, <1>3, Induction
<1> QED
    BY <1>4 DEF S

\* The same elements spell the same.
LEMMA JoinedSame ==
    ASSUME NEW f, NEW g, NEW n \in Nat, Joined(f, g, n),
           NEW h, NEW k, NEW m \in Nat, Joined(h, k, m),
           NEW l \in Nat, l <= n, l <= m, \A i \in 1 .. l : g[i] = k[i]
    PROVE  f[l] = h[l]
<1> DEFINE S == {i \in Nat : i <= l => f[i] = h[i]}
<1>1. f[0] = << >> /\ \A i \in 1 .. n : f[i] = f[i - 1] \o g[i]
    BY JoinedIs, ZenonT(60)
<1>2. h[0] = << >> /\ \A i \in 1 .. m : h[i] = h[i - 1] \o k[i]
    BY JoinedIs, ZenonT(60)
<1>3. 0 \in S
    BY <1>1, <1>2
<1>4. ASSUME NEW i \in Nat, i \in S PROVE i + 1 \in S
    <2> SUFFICES ASSUME i + 1 <= l PROVE f[i + 1] = h[i + 1]
        OBVIOUS
    <2>1. /\ i + 1 \in 1 .. n /\ i + 1 \in 1 .. m /\ i + 1 \in 1 .. l /\ (i + 1) - 1 = i
          /\ i <= l
        OBVIOUS
    <2>2. f[i + 1] = f[i] \o g[i + 1] /\ h[i + 1] = h[i] \o k[i + 1] /\ g[i + 1] = k[i + 1]
        BY <1>1, <1>2, <2>1
    <2> QED
        BY <1>4, <2>1, <2>2
<1> HIDE DEF S
<1>5. \A i \in Nat : i \in S
    BY <1>3, <1>4, Induction
<1> QED
    BY <1>5 DEF S

\* The elements of d behind the first n are those of k.
Behind(d, n, k, m) == \A i \in 1 .. m : d[n + i] = k[i]

\* Elements behind those that spell p spell behind p.
LEMMA JoinedConcat ==
    ASSUME NEW T, NEW n \in Nat, NEW p \in Seq(T),
           NEW h, NEW k, NEW m \in Nat, Joined(h, k, m), AreSeqs(k, m, T),
           NEW e, NEW d, Joined(e, d, n + m), e[n] = p,
           Behind(d, n, k, m)
    PROVE  e[n + m] = p \o h[m]
<1> DEFINE Whole(i) == e[n + i] = p \o h[i]
           Done == {i \in Nat : i <= m => Whole(i)}
<1>1. h[0] = << >> /\ \A i \in 1 .. m : h[i] = h[i - 1] \o k[i]
    BY JoinedIs, ZenonT(60)
<1>2. n + m \in Nat /\ \A i \in 1 .. n + m : e[i] = e[i - 1] \o d[i]
    <2>1. n + m \in Nat
        OBVIOUS
    <2> QED
        BY <2>1, JoinedIs, ZenonT(60)
<1>3. \A i \in 0 .. m : h[i] \in Seq(T)
    BY JoinedSeq
<1>4. 0 \in Done
    <2>0. n + 0 = n /\ p \o << >> = p
        OBVIOUS
    <2>1. e[n + 0] = p /\ p \o << >> = p
        BY <2>0
    <2> QED
        BY <1>1, <2>1
<1>5. ASSUME NEW i \in Nat, i \in Done PROVE i + 1 \in Done
    <2>0. ASSUME i + 1 <= m PROVE Whole(i + 1)
        <3>1. /\ i + 1 \in 1 .. m /\ i \in 0 .. m /\ (i + 1) - 1 = i /\ i <= m
              /\ n + (i + 1) \in 1 .. n + m /\ (n + (i + 1)) - 1 = n + i
            BY <2>0
        <3>2. e[n + (i + 1)] = e[n + i] \o k[i + 1] /\ h[i + 1] = h[i] \o k[i + 1]
            BY <1>1, <1>2, <3>1 DEF Behind
        <3>3. p \in Seq(T) /\ h[i] \in Seq(T) /\ k[i + 1] \in Seq(T)
            BY <1>3, <3>1 DEF AreSeqs
        <3>4. e[n + i] = p \o h[i]
            BY <1>5, <3>1
        <3>5. (p \o h[i]) \o k[i + 1] = p \o (h[i] \o k[i + 1])
            <4>1. Associative(T)
                BY ConcatIsAssociative
            <4> QED
                BY <3>3, <4>1, Zenon DEF Associative
        <3>6. e[n + (i + 1)] = p \o h[i + 1]
            BY <3>2, <3>4, <3>5
        <3> QED
            BY <3>6
    <2> HIDE DEF Whole
    <2> QED
        BY <2>0
<1>6. \A i \in Nat : i \in Done
    <2> HIDE DEF Done
    <2> QED
        BY <1>4, <1>5, Induction
<1>7. Whole(m)
    <2> HIDE DEF Whole
    <2> QED
        BY <1>6
<1> QED
    BY <1>7
-----------------------------------------------------------------------------
(* The inductive invariant *)

\* The chunk that a migrate has allocated and not yet given to a buffer.
InHand == IF call = NoCall THEN {} ELSE {call.empty}

\* clear and migrate take the newest chunk to have chunk_size bytes.
HeadHolds ==
    \A v \in Buffer :
        IF Exists(v) THEN chunks[v] # << >> /\ ChunkSize[v] <= Len(mem[chunks[v][1]])
                     ELSE chunks[v] = << >>

\* What a migrate has established when it reaches each place.
CallInv ==
    call # NoCall =>
        /\ call.from # call.to /\ Exists(call.from) /\ Exists(call.to)
        /\ ChunkSize[call.to] <= ChunkSize[call.from]
        /\ Len(mem[call.empty]) = ChunkSize[call.from]
        /\ call.nnext # 0
        /\ call.is = "realloc" => Len(array[call.from]) + Len(array[call.to]) <= call.nnext
        /\ call.is = "link" => Len(array[call.from]) + Len(array[call.to]) <= end[call.to]

IInv == MemoryOwned /\ HeadHolds /\ CallInv
-----------------------------------------------------------------------------
(* The conjuncts, said of one chunk and one vector at a time *)

Once(s) == \A i, j \in DOMAIN s : s[i] = s[j] => i = j

LEMMA Constants ==
    ASSUME VrefbufferConstants
    PROVE  /\ PACKER_MAX \in Nat /\ NFIRST \in Nat \ {0} /\ MaxVec \in Nat
           /\ \A v \in Buffer : ChunkSize[v] \in Nat /\ RefArgument[v] \in Nat
           /\ \A d \in Data : d.bytes \in Seq(Char) /\ Len(d.bytes) \in Nat /\ d \notin Chunk
           /\ \A d \in Temporary : Len(d.bytes) <= PACKER_MAX /\ d \notin String
           /\ Temporary \subseteq Data /\ String \subseteq Data
BY DEF VrefbufferConstants, Data

\* The parts of TypeOK and what they say of one buffer.
LEMMA Types ==
    ASSUME TypeOK
    PROVE  /\ array \in [Buffer -> Seq(Vector)] /\ end \in [Buffer -> Nat]
           /\ chunks \in [Buffer -> Seq(Chunk)] /\ free \in [Buffer -> Nat]
           /\ DOMAIN ptr = Buffer /\ DOMAIN mem \subseteq Chunk
           /\ \A v \in Buffer :
                 /\ array[v] \in Seq(Vector) /\ Len(array[v]) \in Nat
                 /\ DOMAIN array[v] = 1 .. Len(array[v])
                 /\ chunks[v] \in Seq(Chunk) /\ Len(chunks[v]) \in Nat
                 /\ DOMAIN chunks[v] = 1 .. Len(chunks[v])
                 /\ end[v] \in Nat /\ free[v] \in Nat
                 /\ end[v] # 0 => ptr[v].chunk \in Chunk /\ ptr[v].at \in Nat
                                  /\ ptr[v] = [chunk |-> ptr[v].chunk, at |-> ptr[v].at]
                 /\ end[v] = 0 => ptr[v] = NoPtr
           /\ \A v \in Buffer : \A i \in 1 .. Len(array[v]) :
                 /\ array[v][i] \in Vector /\ array[v][i].block \in Chunk \cup Data
                 /\ array[v][i].at \in Nat /\ array[v][i].len \in Nat
           /\ \A c \in DOMAIN mem : mem[c] \in Seq(Char \cup {Garbage}) /\ Len(mem[c]) \in Nat
<1>1. \A v \in Buffer : array[v] \in Seq(Vector) /\ chunks[v] \in Seq(Chunk)
    BY DEF TypeOK
<1>2. \A v \in Buffer : /\ Len(array[v]) \in Nat /\ DOMAIN array[v] = 1 .. Len(array[v])
                        /\ Len(chunks[v]) \in Nat /\ DOMAIN chunks[v] = 1 .. Len(chunks[v])
    BY <1>1
<1>3. \A v \in Buffer : \A i \in 1 .. Len(array[v]) : array[v][i] \in Vector
    BY <1>1
<1>4. \A x \in Vector : x.block \in Chunk \cup Data /\ x.at \in Nat /\ x.len \in Nat
    BY DEF Vector
<1>5. \A c \in DOMAIN mem : mem[c] \in Seq(Char \cup {Garbage}) /\ Len(mem[c]) \in Nat
    BY DEF TypeOK
<1>6. ASSUME NEW v \in Buffer
      PROVE  /\ end[v] # 0 => ptr[v].chunk \in Chunk /\ ptr[v].at \in Nat
                              /\ ptr[v] = [chunk |-> ptr[v].chunk, at |-> ptr[v].at]
             /\ end[v] = 0 => ptr[v] = NoPtr
    BY DEF TypeOK, Exists
<1> QED
    BY <1>1, <1>2, <1>3, <1>4, <1>5, <1>6 DEF TypeOK

LEMMA CallTypes ==
    ASSUME TypeOK
    PROVE  \/ call = NoCall /\ call.is = "none"
           \/ /\ call # NoCall /\ call.is \in {"grow", "realloc", "link"}
              /\ call.from \in Buffer /\ call.to \in Buffer /\ call.empty \in Chunk
              /\ call.nnext \in Nat
BY DEF TypeOK, NoCall

\* A chunk is in one list once, or in hand, or free.
Listed ==
    /\ \A c : c \in DOMAIN mem <=> (\E v \in Buffer : c \in Elements(chunks[v])) \/ c \in InHand
    /\ \A v \in Buffer : Once(chunks[v])
    /\ \A v, w \in Buffer : \A c \in Elements(chunks[v]) : c \in Elements(chunks[w]) => v = w
    /\ \A v \in Buffer : \A c \in Elements(chunks[v]) : c \notin InHand

LEMMA HeldListed == HeldOnce <=> Listed
<1> DEFINE U == UNION {Elements(chunks[v]) : v \in Buffer}
<1>1. \A c : c \in U <=> \E v \in Buffer : c \in Elements(chunks[v])
    OBVIOUS
<1>2. HeldOnce <=>
      /\ DOMAIN mem = U \cup InHand
      /\ \A v \in Buffer : Once(chunks[v])
      /\ \A v, w \in Buffer : v # w => Elements(chunks[v]) \cap Elements(chunks[w]) = {}
      /\ \A v \in Buffer : Elements(chunks[v]) \cap InHand = {}
    BY DEF HeldOnce, InHand, Once
<1> HIDE DEF U
<1>3. DOMAIN mem = U \cup InHand
      <=> \A c : c \in DOMAIN mem <=> (\E v \in Buffer : c \in Elements(chunks[v])) \/ c \in InHand
    <2>1. \A c : c \in U \cup InHand
                 <=> (\E v \in Buffer : c \in Elements(chunks[v])) \/ c \in InHand
        BY <1>1
    <2>2. DOMAIN mem = U \cup InHand <=> \A c : c \in DOMAIN mem <=> c \in U \cup InHand
        OBVIOUS
    <2>3. (\A c : c \in DOMAIN mem <=> c \in U \cup InHand)
          <=> \A c : c \in DOMAIN mem
                     <=> (\E v \in Buffer : c \in Elements(chunks[v])) \/ c \in InHand
        BY <2>1
    <2> QED
        BY <2>2, <2>3, Zenon
<1>4. (\A v, w \in Buffer : v # w => Elements(chunks[v]) \cap Elements(chunks[w]) = {})
      <=> \A v, w \in Buffer : \A c \in Elements(chunks[v]) : c \in Elements(chunks[w]) => v = w
    OBVIOUS
<1>5. (\A v \in Buffer : Elements(chunks[v]) \cap InHand = {})
      <=> \A v \in Buffer : \A c \in Elements(chunks[v]) : c \notin InHand
    OBVIOUS
<1> QED
    BY <1>2, <1>3, <1>4, <1>5 DEF Listed

LEMMA ElementsOf ==
    ASSUME NEW S, NEW s \in Seq(S)
    PROVE  /\ Elements(s) \subseteq S
           /\ \A c : c \in Elements(s) <=> \E i \in 1 .. Len(s) : s[i] = c
           /\ \A i \in 1 .. Len(s) : s[i] \in Elements(s)
BY DEF Elements

LEMMA ElementsConcat ==
    ASSUME NEW S, NEW s \in Seq(S), NEW t \in Seq(S)
    PROVE  /\ Elements(s \o t) = Elements(s) \cup Elements(t)
           /\ Once(s) /\ Once(t) /\ Elements(s) \cap Elements(t) = {} => Once(s \o t)
           /\ s # << >> => (s \o t)[1] = s[1] /\ s \o t # << >>
<1> DEFINE l == s \o t
<1>1. /\ l \in Seq(S) /\ Len(l) = Len(s) + Len(t) /\ Len(s) \in Nat /\ Len(t) \in Nat
      /\ DOMAIN l = 1 .. Len(s) + Len(t) /\ DOMAIN s = 1 .. Len(s) /\ DOMAIN t = 1 .. Len(t)
      /\ \A i \in 1 .. Len(s) : l[i] = s[i]
      /\ \A i \in Len(s) + 1 .. Len(s) + Len(t) : l[i] = t[i - Len(s)] /\ i - Len(s) \in 1 .. Len(t)
    OBVIOUS
<1> HIDE DEF l
<1>2. \A i \in 1 .. Len(t) : l[i + Len(s)] = t[i] /\ i + Len(s) \in DOMAIN l
    <2> SUFFICES ASSUME NEW i \in 1 .. Len(t) PROVE l[i + Len(s)] = t[i] /\ i + Len(s) \in DOMAIN l
        OBVIOUS
    <2>1. i + Len(s) \in Len(s) + 1 .. Len(s) + Len(t) /\ (i + Len(s)) - Len(s) = i
        BY <1>1
    <2> QED
        BY <1>1, <2>1
<1>3. \A i \in DOMAIN l : i \in DOMAIN s \/ i \in Len(s) + 1 .. Len(s) + Len(t)
    BY <1>1
<1>4. Elements(l) = Elements(s) \cup Elements(t)
    <2>1. \A c \in Elements(s) \cup Elements(t) : c \in Elements(l)
        <3>1. ASSUME NEW i \in 1 .. Len(s) PROVE s[i] \in Elements(l)
            <4>1. i \in DOMAIN l /\ l[i] = s[i]
                BY <1>1
            <4> QED
                BY <4>1 DEF Elements
        <3>2. ASSUME NEW i \in 1 .. Len(t) PROVE t[i] \in Elements(l)
            BY <1>2 DEF Elements
        <3> QED
            BY <1>1, <3>1, <3>2 DEF Elements
    <2>2. \A c \in Elements(l) : c \in Elements(s) \cup Elements(t)
        BY <1>1, <1>3 DEF Elements
    <2> QED
        BY <2>1, <2>2
<1>5. ASSUME Once(s), Once(t), Elements(s) \cap Elements(t) = {} PROVE Once(l)
    <2> SUFFICES ASSUME NEW i \in DOMAIN l, NEW j \in DOMAIN l, l[i] = l[j] PROVE i = j
        BY DEF Once
    <2> DEFINE n == Len(s)
    <2>1. CASE i \in DOMAIN s /\ j \in DOMAIN s
        BY <1>1, <1>5, <2>1 DEF Once
    <2>2. CASE i \notin DOMAIN s /\ j \notin DOMAIN s
        <3>1. i \in n + 1 .. n + Len(t) /\ j \in n + 1 .. n + Len(t)
            BY <1>3, <2>2
        <3>2. t[i - n] = t[j - n] /\ i - n \in DOMAIN t /\ j - n \in DOMAIN t
            BY <1>1, <3>1
        <3>3. i - n = j - n
            BY <1>5, <3>2 DEF Once
        <3> QED
            BY <1>1, <3>1, <3>3
    <2>3. ASSUME NEW h \in DOMAIN s, NEW k \in DOMAIN l, k \notin DOMAIN s, l[h] = l[k] PROVE FALSE
        <3>1. k \in n + 1 .. n + Len(t)
            BY <1>3, <2>3
        <3>2. l[k] = t[k - n] /\ k - n \in DOMAIN t /\ l[h] = s[h]
            BY <1>1, <3>1
        <3>3. s[h] \in Elements(s) /\ t[k - n] \in Elements(t)
            BY <3>2 DEF Elements
        <3> QED
            BY <1>5, <2>3, <3>2, <3>3
    <2> QED
        BY <2>1, <2>2, <2>3
<1>6. ASSUME s # << >> PROVE l[1] = s[1] /\ l # << >>
    <2>1. Len(s) # 0
        BY <1>6
    <2>2. 1 \in 1 .. Len(s) /\ Len(l) # 0
        BY <1>1, <2>1
    <2> QED
        BY <1>1, <2>2
<1> QED
    BY <1>4, <1>5, <1>6 DEF l

LEMMA ElementsSingle ==
    ASSUME NEW S, NEW c \in S
    PROVE  <<c>> \in Seq(S) /\ Elements(<<c>>) = {c} /\ Once(<<c>>) /\ <<c>> # << >> /\ <<c>>[1] = c
BY DEF Elements, Once

LEMMA ElementsEmpty == Elements(<< >>) = {} /\ Once(<< >>)
BY DEF Elements, Once
-----------------------------------------------------------------------------
(* What the actions are made of *)

\* IInv with its conjuncts at hand, HeldOnce in the form of Listed.
Parts == /\ TypeOK /\ RoomInChunk /\ RoomUnseen /\ VectorsHeld /\ Listed /\ VectorsFit
         /\ NoTemporary /\ HeadHolds /\ CallInv

LEMMA PartsInv == IInv <=> Parts /\ VectorsInside
BY HeldListed DEF IInv, Parts, MemoryOwned

LEMMA FunctionSeq ==
    ASSUME NEW S, NEW n \in Nat, NEW t \in [1 .. n -> S]
    PROVE  t \in Seq(S) /\ Len(t) = n
OBVIOUS

LEMMA MallocIs ==
    ASSUME VrefbufferConstants, TypeOK, NEW c \in Unallocated, NEW size \in Nat
    PROVE  /\ DOMAIN Malloc(c, size) = DOMAIN mem \cup {c}
           /\ c \in Chunk /\ c \notin DOMAIN mem
           /\ \A b \in DOMAIN mem : Malloc(c, size)[b] = mem[b]
           /\ Malloc(c, size)[c] = [i \in 1 .. size |-> Garbage]
           /\ \A b \in DOMAIN Malloc(c, size) : Malloc(c, size)[b] \in Seq(Char \cup {Garbage})
           /\ Len(Malloc(c, size)[c]) = size
<1>1. /\ DOMAIN Malloc(c, size) = DOMAIN mem \cup {c}
      /\ c \in Chunk /\ c \notin DOMAIN mem
      /\ \A b \in DOMAIN mem : Malloc(c, size)[b] = mem[b]
      /\ Malloc(c, size)[c] = [i \in 1 .. size |-> Garbage]
    BY DEF Malloc, Unallocated
<1>2. /\ [i \in 1 .. size |-> Garbage] \in Seq(Char \cup {Garbage})
      /\ Len([i \in 1 .. size |-> Garbage]) = size
    OBVIOUS
<1> QED
    BY <1>1, <1>2, Types

Cell == Char \cup {Garbage}
MemoryOK(m) == \A b \in DOMAIN m : m[b] \in Seq(Cell)

\* n is m with bytes written at p.
Overwritten(m, p, bytes, n) ==
    /\ DOMAIN n = DOMAIN m
    /\ \A b \in DOMAIN m : /\ n[b] \in Seq(Cell) /\ Len(n[b]) = Len(m[b])
                           /\ b # p.chunk => n[b] = m[b]
    /\ \A i \in 1 .. Len(m[p.chunk]) :
          n[p.chunk][i] = IF i \in p.at + 1 .. p.at + Len(bytes) THEN bytes[i - p.at]
                                                                 ELSE m[p.chunk][i]

LEMMA MemcpyIs ==
    ASSUME NEW m, MemoryOK(m), NEW p, p.chunk \in DOMAIN m, p.at \in Nat,
           NEW bytes \in Seq(Char)
    PROVE  Overwritten(m, p, bytes, Memcpy(m, p, bytes))
<1> USE DEF Cell, MemoryOK
<1> DEFINE s == m[p.chunk]
           t == [i \in DOMAIN s |-> IF i \in p.at + 1 .. p.at + Len(bytes)
                                    THEN bytes[i - p.at] ELSE s[i]]
<1>1. s \in Seq(Char \cup {Garbage}) /\ Len(s) \in Nat /\ DOMAIN s = 1 .. Len(s)
    OBVIOUS
<1>2. Memcpy(m, p, bytes) = [m EXCEPT ![p.chunk] = t]
    BY DEF Memcpy
<1>3. \A i \in 1 .. Len(s) : t[i] \in Char \cup {Garbage}
    <2> SUFFICES ASSUME NEW i \in 1 .. Len(s) PROVE t[i] \in Char \cup {Garbage}
        OBVIOUS
    <2>1. CASE i \in p.at + 1 .. p.at + Len(bytes)
        <3>1. i - p.at \in 1 .. Len(bytes)
            BY <2>1
        <3> QED
            BY <1>1, <2>1, <3>1
    <2>2. CASE i \notin p.at + 1 .. p.at + Len(bytes)
        BY <1>1, <2>2
    <2> QED
        BY <2>1, <2>2
<1>4. DOMAIN t = 1 .. Len(s)
    BY <1>1
<1>5. \A i \in 1 .. Len(s) : t[i] = IF i \in p.at + 1 .. p.at + Len(bytes)
                                    THEN bytes[i - p.at] ELSE s[i]
    BY <1>1
<1>6. t = [i \in 1 .. Len(s) |-> t[i]]
    BY <1>1
<1> HIDE DEF t
<1>7. t \in [1 .. Len(s) -> Char \cup {Garbage}]
    BY <1>3, <1>4, <1>6
<1>8. t \in Seq(Char \cup {Garbage}) /\ Len(t) = Len(s)
    BY <1>1, <1>7, FunctionSeq
<1> DEFINE n == Memcpy(m, p, bytes)
<1>9. /\ DOMAIN n = DOMAIN m
      /\ \A b \in DOMAIN m : n[b] = IF b = p.chunk THEN t ELSE m[b]
    BY <1>2
<1> HIDE DEF n
<1>10. Overwritten(m, p, bytes, n)
    BY <1>1, <1>5, <1>8, <1>9 DEF Overwritten
<1> QED
    BY <1>10 DEF n

\* Where append_copy is about to write: room that the buffer has, or a new chunk that it
\* will have.
PlaceOK(v, len, place) ==
    /\ place.p.chunk \in Chunk /\ place.p.at \in Nat /\ place.room \in Nat
    /\ place.p = [chunk |-> place.p.chunk, at |-> place.p.at]
    /\ place.list \in Seq(Chunk) /\ len <= place.room
    /\ \A b \in DOMAIN place.m : place.m[b] \in Seq(Char \cup {Garbage})
    /\ place.p.chunk \in DOMAIN place.m
    /\ place.p.at + place.room <= Len(place.m[place.p.chunk])
    /\ \A b \in DOMAIN mem : b \in DOMAIN place.m /\ place.m[b] = mem[b]
    /\ \/ /\ place.p = ptr[v] /\ place.room = free[v] /\ place.m = mem
          /\ place.list = chunks[v]
       \/ /\ place.p.chunk \notin DOMAIN mem /\ place.p.at = 0
          /\ ChunkSize[v] <= place.room
          /\ DOMAIN place.m = DOMAIN mem \cup {place.p.chunk}
          /\ place.list = <<place.p.chunk>> \o chunks[v]

LEMMA PlaceIs ==
    ASSUME VrefbufferConstants, Parts, call = NoCall, NEW v \in Buffer, Exists(v),
           NEW len \in Nat, NEW place \in Place(v, len)
    PROVE  PlaceOK(v, len, place)
<1> TypeOK /\ RoomInChunk /\ Listed
    BY DEF Parts
<1>1. CASE Fits(v, len)
    <2>1. place = [p |-> ptr[v], room |-> free[v], m |-> mem, list |-> chunks[v]]
        BY <1>1 DEF Place
    <2>2. place.p = ptr[v] /\ place.room = free[v] /\ place.m = mem /\ place.list = chunks[v]
        BY <2>1
    <2>3. ptr[v].chunk \in DOMAIN mem /\ ptr[v].at + free[v] <= Len(mem[ptr[v].chunk])
        BY DEF RoomInChunk, Listed
    <2> QED
        BY <1>1, <2>2, <2>3, Types DEF Fits, Exists, PlaceOK
<1>2. CASE ~Fits(v, len)
    <2>1. PICK c \in Unallocated :
              place = [p |-> AtStart(c), room |-> NewSize(v, len), m |-> Malloc(c, NewSize(v, len)),
                       list |-> <<c>> \o chunks[v]]
        BY <1>2 DEF Place
    <2>2. /\ place.p = AtStart(c) /\ place.room = NewSize(v, len)
          /\ place.m = Malloc(c, NewSize(v, len)) /\ place.list = <<c>> \o chunks[v]
        BY <2>1
    <2>3. NewSize(v, len) \in Nat /\ len <= NewSize(v, len) /\ ChunkSize[v] <= NewSize(v, len)
        BY Constants DEF NewSize
    <2>4. place.p.chunk = c /\ place.p.at = 0
        BY <2>2 DEF AtStart
    <2>5. c \in Chunk /\ <<c>> \in Seq(Chunk) /\ chunks[v] \in Seq(Chunk)
        BY Types DEF Unallocated
    <2>6. place.list \in Seq(Chunk)
        BY <2>2, <2>5
    <2>7. /\ DOMAIN place.m = DOMAIN mem \cup {c}
          /\ c \notin DOMAIN mem
          /\ \A b \in DOMAIN mem : place.m[b] = mem[b]
          /\ \A b \in DOMAIN place.m : place.m[b] \in Seq(Char \cup {Garbage})
          /\ Len(place.m[c]) = NewSize(v, len)
        <3> DEFINE n == NewSize(v, len)
        <3> HIDE DEF n
        <3>1. n \in Nat /\ place.m = Malloc(c, n)
            BY <2>2, <2>3 DEF n
        <3>2. /\ DOMAIN Malloc(c, n) = DOMAIN mem \cup {c}
              /\ c \notin DOMAIN mem
              /\ \A b \in DOMAIN mem : Malloc(c, n)[b] = mem[b]
              /\ \A b \in DOMAIN Malloc(c, n) : Malloc(c, n)[b] \in Seq(Char \cup {Garbage})
              /\ Len(Malloc(c, n)[c]) = n
            BY <3>1, MallocIs
        <3> QED
            BY <3>1, <3>2 DEF n
    <2>8. place.p = [chunk |-> place.p.chunk, at |-> place.p.at]
        BY <2>2 DEF AtStart
    <2> QED
        BY <2>2, <2>3, <2>4, <2>5, <2>6, <2>7, <2>8 DEF PlaceOK
<1> QED
    BY <1>1, <1>2


\* The chunks of a buffer when it gets the list of a place.
LEMMA PlaceList ==
    ASSUME Parts, NEW v \in Buffer, Exists(v), NEW len, NEW place, PlaceOK(v, len, place)
    PROVE  /\ place.list \in Seq(Chunk) /\ place.list # << >> /\ Once(place.list)
           /\ Elements(place.list) = Elements(chunks[v]) \cup {place.p.chunk}
           /\ \/ place.p = ptr[v] /\ place.m = mem /\ place.list = chunks[v]
              \/ place.p.chunk \notin DOMAIN mem /\ place.list[1] = place.p.chunk
<1> TypeOK /\ RoomInChunk /\ Listed /\ HeadHolds
    BY DEF Parts
<1> DEFINE c0 == place.p.chunk
<1>1. /\ place.list \in Seq(Chunk) /\ c0 \in Chunk
      /\ \/ place.p = ptr[v] /\ place.m = mem /\ place.list = chunks[v]
         \/ c0 \notin DOMAIN mem /\ place.list = <<c0>> \o chunks[v]
    BY DEF PlaceOK
<1>2. chunks[v] \in Seq(Chunk) /\ Once(chunks[v]) /\ chunks[v] # << >>
    BY Types DEF Listed, HeadHolds
<1>3. CASE place.p = ptr[v] /\ place.m = mem /\ place.list = chunks[v]
    <2>1. c0 \in Elements(chunks[v])
        BY <1>3 DEF RoomInChunk
    <2> QED
        BY <1>2, <1>3, <2>1
<1>4. CASE c0 \notin DOMAIN mem /\ place.list = <<c0>> \o chunks[v]
    <2>1. c0 \notin Elements(chunks[v])
        BY <1>4 DEF Listed
    <2>2. <<c0>> \in Seq(Chunk) /\ Elements(<<c0>>) = {c0} /\ Once(<<c0>>) /\ <<c0>> # << >> /\ <<c0>>[1] = c0
        BY <1>1, ElementsSingle
    <2> HIDE DEF c0
    <2>3. /\ Elements(<<c0>> \o chunks[v]) = Elements(<<c0>>) \cup Elements(chunks[v])
          /\ Elements(<<c0>>) \cap Elements(chunks[v]) = {} => Once(<<c0>> \o chunks[v])
          /\ (<<c0>> \o chunks[v])[1] = c0 /\ <<c0>> \o chunks[v] # << >>
        <3> DEFINE l == <<c0>>
        <3>1. l \in Seq(Chunk) /\ Once(l) /\ l # << >> /\ l[1] = c0
            BY <2>2
        <3> HIDE DEF l
        <3>2. /\ Elements(l \o chunks[v]) = Elements(l) \cup Elements(chunks[v])
              /\ Elements(l) \cap Elements(chunks[v]) = {} => Once(l \o chunks[v])
              /\ (l \o chunks[v])[1] = c0 /\ l \o chunks[v] # << >>
            BY <1>2, <3>1, ElementsConcat
        <3> QED
            BY <3>2 DEF l
    <2>4. place.list # << >> /\ Once(place.list) /\ place.list[1] = c0
        BY <1>4, <2>1, <2>2, <2>3
    <2>5. Elements(place.list) = Elements(chunks[v]) \cup {c0}
        BY <1>4, <2>2, <2>3
    <2> QED
        BY <1>1, <1>4, <2>4, <2>5 DEF c0
<1> QED
    BY <1>1, <1>3, <1>4

\* The bytes of a place when len of them have been taken are seen by vectors of v that end
\* there, and no other vector is new.
VectorsOf(v, place, len) ==
    /\ array' \in [Buffer -> Seq(Vector)] /\ end' \in [Buffer -> Nat]
    /\ \A w \in Buffer : Exists(w)' <=> Exists(w)
    /\ \A w \in Buffer : Len(array'[w]) <= end'[w]
    /\ \A w \in Buffer : \A i \in 1 .. Len(array'[w]) :
          \/ i \in 1 .. Len(array[w]) /\ array'[w][i] = array[w][i]
          \/ /\ w = v /\ array'[w][i].block = place.p.chunk
             /\ array'[w][i].at + array'[w][i].len = place.p.at + len

\* append_copy: what it writes is in the buffer's room, and the vectors that see it end
\* where the room that is left begins.
LEMMA TakeRoomInv ==
    ASSUME VrefbufferConstants, Parts, call = NoCall, call' = call,
           NEW v \in Buffer, Exists(v), NEW bytes \in Seq(Char),
           NEW place, PlaceOK(v, Len(bytes), place), TakeRoom(v, place, bytes),
           VectorsOf(v, place, Len(bytes))
    PROVE  Parts'
<1> DEFINE len == Len(bytes)
           c0 == place.p.chunk
<1> TypeOK /\ RoomInChunk /\ RoomUnseen /\ VectorsHeld /\ Listed /\ NoTemporary /\ HeadHolds
    BY DEF Parts
<1>len. len \in Nat
    OBVIOUS
<1>new. /\ array' \in [Buffer -> Seq(Vector)] /\ end' \in [Buffer -> Nat]
        /\ \A w \in Buffer : Exists(w)' <=> Exists(w)
        /\ \A w \in Buffer : Len(array'[w]) <= end'[w]
    BY DEF VectorsOf
<1>1. /\ mem' = Memcpy(place.m, place.p, bytes)
      /\ ptr' = [ptr EXCEPT ![v] = [chunk |-> c0, at |-> place.p.at + len]]
      /\ free' = [free EXCEPT ![v] = place.room - len]
      /\ chunks' = [chunks EXCEPT ![v] = place.list]
    BY DEF TakeRoom
<1>2. /\ c0 \in Chunk /\ place.p.at \in Nat /\ place.room \in Nat /\ len <= place.room
      /\ \A b \in DOMAIN place.m : place.m[b] \in Seq(Char \cup {Garbage})
      /\ c0 \in DOMAIN place.m
      /\ place.p.at + place.room <= Len(place.m[c0])
      /\ \A b \in DOMAIN mem : b \in DOMAIN place.m /\ place.m[b] = mem[b]
      /\ \/ place.p = ptr[v] /\ place.room = free[v] /\ place.m = mem
         \/ /\ c0 \notin DOMAIN mem /\ place.p.at = 0 /\ ChunkSize[v] <= place.room
            /\ DOMAIN place.m = DOMAIN mem \cup {c0}
    BY DEF PlaceOK
<1>3. /\ DOMAIN mem' = DOMAIN place.m
      /\ \A b \in DOMAIN mem' : mem'[b] \in Seq(Char \cup {Garbage})
                                /\ Len(mem'[b]) = Len(place.m[b])
    <2> DEFINE new == Memcpy(place.m, place.p, bytes)
    <2> HIDE DEF new
    <2>1. /\ DOMAIN new = DOMAIN place.m
          /\ \A b \in DOMAIN place.m : /\ new[b] \in Seq(Char \cup {Garbage})
                                       /\ Len(new[b]) = Len(place.m[b])
        <3> DEFINE m == place.m
                   p == place.p
        <3>1. MemoryOK(m) /\ p.chunk \in DOMAIN m /\ p.at \in Nat
            BY <1>2 DEF MemoryOK, Cell
        <3>2. new = Memcpy(m, p, bytes)
            BY DEF new
        <3> HIDE DEF m, p
        <3>3. Overwritten(m, p, bytes, new)
            BY <3>1, <3>2, MemcpyIs
        <3> QED
            BY <3>3 DEF Overwritten, Cell, m
    <2>2. mem' = new
        BY <1>1 DEF new
    <2> QED
        BY <2>1, <2>2
<1>4. /\ chunks' \in [Buffer -> Seq(Chunk)]
      /\ \A w \in Buffer \ {v} : chunks'[w] = chunks[w]
      /\ Elements(chunks'[v]) = Elements(chunks[v]) \cup {c0}
      /\ \A w \in Buffer : Once(chunks'[w])
      /\ chunks'[v] # << >>
      /\ \/ place.m = mem /\ chunks'[v] = chunks[v]
         \/ c0 \notin DOMAIN mem /\ chunks'[v][1] = c0
    <2>1. /\ place.list \in Seq(Chunk) /\ place.list # << >> /\ Once(place.list)
          /\ Elements(place.list) = Elements(chunks[v]) \cup {c0}
          /\ \/ place.m = mem /\ place.list = chunks[v]
             \/ c0 \notin DOMAIN mem /\ place.list[1] = c0
        BY PlaceList
    <2>2. chunks' \in [Buffer -> Seq(Chunk)] /\ chunks'[v] = place.list
          /\ \A w \in Buffer \ {v} : chunks'[w] = chunks[w]
        BY <1>1, <2>1, Types
    <2> QED
        BY <2>1, <2>2 DEF Listed
<1>5. /\ DOMAIN ptr' = Buffer /\ ptr'[v] = [chunk |-> c0, at |-> place.p.at + len]
      /\ ptr'[v].chunk = c0 /\ ptr'[v].at = place.p.at + len
      /\ free' \in [Buffer -> Nat] /\ free'[v] = place.room - len
      /\ \A w \in Buffer \ {v} : ptr'[w] = ptr[w] /\ free'[w] = free[w]
    BY <1>len, <1>1, <1>2, Types, SMTT(30)
<1>6. ASSUME NEW w \in Buffer, c0 \in Elements(chunks[w]) PROVE w = v
    BY <1>2, <1>6, ZenonT(60) DEF RoomInChunk, Listed
<1>7. TypeOK'
    <2>1. DOMAIN mem' \subseteq Chunk
        BY <1>2, <1>3, Types
    <2>2. \A w \in Buffer : \/ ptr'[w] = NoPtr /\ ~Exists(w)'
                            \/ ptr'[w] \in [chunk : Chunk, at : Nat] /\ Exists(w)'
        <3> SUFFICES ASSUME NEW w \in Buffer
                     PROVE  \/ ptr'[w] = NoPtr /\ ~Exists(w)'
                            \/ ptr'[w] \in [chunk : Chunk, at : Nat] /\ Exists(w)'
            OBVIOUS
        <3>1. CASE w = v
            <4>1. ptr'[v] = [chunk |-> c0, at |-> place.p.at + len] /\ Exists(v)'
                BY <1>5, <1>new
            <4>2. place.p.at + len \in Nat
                BY <1>len, <1>2
            <4> QED
                BY <1>2, <3>1, <4>1, <4>2
        <3>2. CASE w # v
            <4>1. ptr'[w] = ptr[w] /\ (Exists(w)' <=> Exists(w))
                BY <1>5, <1>new, <3>2
            <4> QED
                BY <4>1 DEF TypeOK
        <3> QED
            BY <3>1, <3>2
    <2> QED
        BY <1>3, <1>4, <1>5, <1>new, <2>1, <2>2 DEF TypeOK, NoCall
<1>8. RoomInChunk'
    <2> SUFFICES ASSUME NEW w \in Buffer, Exists(w)
                 PROVE  /\ ptr'[w].chunk \in Elements(chunks'[w])
                        /\ ptr'[w].at + free'[w] <= Len(mem'[ptr'[w].chunk])
        BY <1>new DEF RoomInChunk
    <2>1. CASE w = v
        <3>1. Len(mem'[c0]) = Len(place.m[c0])
            BY <1>2, <1>3
        <3>2. (place.p.at + len) + (place.room - len) = place.p.at + place.room
            BY <1>len, <1>2
        <3> QED
            BY <1>2, <1>4, <1>5, <2>1, <3>1, <3>2
    <2>2. CASE w # v
        <3>1. ptr[w].chunk \in Elements(chunks[w]) /\ ptr[w].at + free[w] <= Len(mem[ptr[w].chunk])
            BY DEF RoomInChunk
        <3>2. ptr[w].chunk \in DOMAIN mem
            BY <3>1 DEF Listed
        <3>3. Len(mem'[ptr[w].chunk]) = Len(mem[ptr[w].chunk])
            BY <1>2, <1>3, <3>2
        <3>4. ptr'[w] = ptr[w] /\ free'[w] = free[w] /\ chunks'[w] = chunks[w]
            BY <1>4, <1>5, <2>2
        <3> QED
            BY <3>1, <3>3, <3>4
    <2> QED
        BY <2>1, <2>2
<1> DEFINE Old(w, i) == i \in 1 .. Len(array[w]) /\ array'[w][i] = array[w][i]
           New0(w, i) == /\ w = v /\ array'[w][i].block = c0
                         /\ array'[w][i].at + array'[w][i].len = place.p.at + len
<1>9. /\ \A w \in Buffer : DOMAIN array'[w] = 1 .. Len(array'[w])
      /\ \A w \in Buffer : \A i \in 1 .. Len(array'[w]) : Old(w, i) \/ New0(w, i)
    BY DEF VectorsOf
<1>10. RoomUnseen'
    <2> SUFFICES ASSUME NEW u \in Buffer, NEW w \in Buffer, Exists(u), NEW i \in 1 .. Len(array'[w]),
                        array'[w][i].block = ptr'[u].chunk
                 PROVE  \/ array'[w][i].at + array'[w][i].len <= ptr'[u].at
                        \/ ptr'[u].at + free'[u] <= array'[w][i].at
        BY <1>9, <1>new DEF RoomUnseen
    <2>1. ptr[u].chunk \in DOMAIN mem /\ ptr[u].chunk \in Elements(chunks[u])
        BY DEF RoomInChunk, Listed
    <2>2. CASE Old(w, i)
        <3>1. \/ array[w][i].block # ptr[u].chunk
              \/ array[w][i].at + array[w][i].len <= ptr[u].at
              \/ ptr[u].at + free[u] <= array[w][i].at
            BY <2>2, Types DEF RoomUnseen
        <3>2. array[w][i].block \in DOMAIN mem \cup Data
            <4>1. i \in DOMAIN array[w] /\ array'[w][i] = array[w][i]
                BY <2>2, Types
            <4>2. array[w][i].block \in Elements(chunks[w]) \cup Data
                BY <4>1 DEF VectorsHeld
            <4> QED
                BY <4>2 DEF Listed
        <3>3. CASE u # v
            BY <1>5, <2>2, <3>1, <3>3
        <3>4. CASE u = v
            <4>1. c0 \in DOMAIN mem
                BY <1>2, <1>5, <2>2, <3>2, <3>4, Constants
            <4>2. place.p = ptr[v] /\ place.room = free[v]
                BY <1>2, <4>1
            <4>3. /\ ptr[v].at \in Nat /\ free[v] \in Nat
                  /\ array[w][i].at \in Nat /\ array[w][i].len \in Nat
                BY <2>2, Types DEF Exists
            <4>4. /\ ptr'[u].at = ptr[v].at + len /\ free'[u] = free[v] - len
                  /\ array'[w][i] = array[w][i] /\ array[w][i].block = ptr[v].chunk
                BY <1>5, <2>2, <3>4, <4>2
            <4>5. \/ array[w][i].at + array[w][i].len <= ptr[v].at
                  \/ ptr[v].at + free[v] <= array[w][i].at
                BY <3>1, <3>4, <4>4
            <4>6. CASE array[w][i].at + array[w][i].len <= ptr[v].at
                <5> DEFINE x == array[w][i].at
                           y == array[w][i].len
                           a == ptr[v].at
                <5>1. x \in Nat /\ y \in Nat /\ a \in Nat /\ x + y <= a
                    BY <4>3, <4>6
                <5> HIDE DEF x, y, a
                <5>2. x + y <= a + len
                    BY <1>len, <5>1
                <5> QED
                    BY <4>4, <5>2 DEF x, y, a
            <4>7. CASE ptr[v].at + free[v] <= array[w][i].at
                <5>1. (ptr[v].at + len) + (free[v] - len) = ptr[v].at + free[v]
                    BY <1>len, <4>3
                <5> QED
                    BY <4>4, <4>7, <5>1
            <4> QED
                BY <4>5, <4>6, <4>7
        <3> QED
            BY <3>3, <3>4
    <2>3. CASE New0(w, i)
        <3>1. u = v
            BY <1>2, <1>5, <1>6, <2>1, <2>3
        <3> QED
            BY <1>len, <1>2, <1>5, <2>3, <3>1
    <2> QED
        BY <1>9, <2>2, <2>3
<1>11. VectorsHeld'
    <2> SUFFICES ASSUME NEW w \in Buffer, NEW i \in 1 .. Len(array'[w])
                 PROVE  array'[w][i].block \in Elements(chunks'[w]) \cup Data
        BY <1>9 DEF VectorsHeld
    <2>1. CASE Old(w, i)
        BY <1>4, <2>1, Types DEF VectorsHeld
    <2>2. CASE New0(w, i)
        BY <1>4, <2>2
    <2> QED
        BY <1>9, <2>1, <2>2
<1>12. Listed'
    <2>1. InHand = {} /\ InHand' = {}
        BY DEF InHand
    <2>2. \A c : c \in DOMAIN mem' <=> c \in DOMAIN mem \/ c = c0
        BY <1>2, <1>3
    <2>3. \A c : c \in DOMAIN mem' <=> (\E w \in Buffer : c \in Elements(chunks'[w]))
        BY <1>4, <2>1, <2>2 DEF Listed
    <2>4. \A w, u \in Buffer : \A c \in Elements(chunks'[w]) : c \in Elements(chunks'[u]) => w = u
        <3> SUFFICES ASSUME NEW w \in Buffer, NEW u \in Buffer, NEW c \in Elements(chunks'[w]),
                            c \in Elements(chunks'[u])
                     PROVE  w = u
            OBVIOUS
        <3>1. c \in Elements(chunks[w]) \/ (w = v /\ c = c0)
            <4>1. CASE w = v
                BY <1>4, <4>1
            <4>2. CASE w # v
                BY <1>4, <4>2
            <4> QED
                BY <4>1, <4>2
        <3>2. c \in Elements(chunks[u]) \/ (u = v /\ c = c0)
            <4>1. CASE u = v
                BY <1>4, <4>1
            <4>2. CASE u # v
                BY <1>4, <4>2
            <4> QED
                BY <4>1, <4>2
        <3> QED
            BY <1>6, <3>1, <3>2 DEF Listed
    <2> QED
        BY <1>4, <2>1, <2>3, <2>4 DEF Listed
<1>13. NoTemporary'
    <2> SUFFICES ASSUME NEW w \in Buffer, NEW i \in 1 .. Len(array'[w])
                 PROVE  array'[w][i].block \notin Temporary
        BY <1>9 DEF NoTemporary
    <2>1. CASE Old(w, i)
        BY <2>1, Types DEF NoTemporary
    <2>2. CASE New0(w, i)
        BY <1>2, <2>2, Constants
    <2> QED
        BY <1>9, <2>1, <2>2
<1>14. HeadHolds'
    <2> SUFFICES ASSUME NEW w \in Buffer
                 PROVE  IF Exists(w) THEN chunks'[w] # << >> /\ ChunkSize[w] <= Len(mem'[chunks'[w][1]])
                                     ELSE chunks'[w] = << >>
        BY <1>new DEF HeadHolds
    <2>1. ASSUME chunks[w] # << >> PROVE chunks[w][1] \in DOMAIN mem
        <3>1. 1 \in DOMAIN chunks[w]
            BY <2>1, Types
        <3> QED
            BY <3>1 DEF Listed, Elements
    <2>2. \A b \in DOMAIN mem : b \in DOMAIN mem' /\ Len(mem'[b]) = Len(mem[b])
        BY <1>2, <1>3
    <2>3. CASE w # v \/ (place.m = mem /\ chunks'[v] = chunks[v])
        BY <1>4, <2>1, <2>2, <2>3 DEF HeadHolds
    <2>4. CASE w = v /\ c0 \notin DOMAIN mem /\ chunks'[v][1] = c0
        <3>1. ChunkSize[v] <= place.room /\ place.p.at = 0 /\ ChunkSize[v] \in Nat
            BY <1>2, <2>4, Constants
        <3>2. ChunkSize[v] <= Len(mem'[c0])
            BY <1>2, <1>3, <3>1
        <3> QED
            BY <1>4, <2>4, <3>2
    <2> QED
        BY <1>4, <2>3, <2>4
<1>15. VectorsFit' /\ CallInv'
    BY <1>new DEF VectorsFit, CallInv
<1> QED
    BY <1>7, <1>8, <1>10, <1>11, <1>12, <1>13, <1>14, <1>15 DEF Parts
-----------------------------------------------------------------------------
(* One action at a time *)

\* The chunks of the lists are allocated, the newest of each among them.
LEMMA ListedAllocated ==
    ASSUME TypeOK, Listed, NEW w \in Buffer
    PROVE  /\ Elements(chunks[w]) \subseteq DOMAIN mem
           /\ chunks[w] # << >> => chunks[w][1] \in Elements(chunks[w])
<1>1. ASSUME chunks[w] # << >> PROVE chunks[w][1] \in Elements(chunks[w])
    <2>1. 1 \in 1 .. Len(chunks[w]) /\ chunks[w] \in Seq(Chunk)
        BY <1>1, Types
    <2> QED
        BY <2>1, ElementsOf
<1> QED
    BY <1>1 DEF Listed

\* One more vector, in an array that has room for it or is enlarged.
LEMMA PutVectorIs ==
    ASSUME TypeOK, VectorsFit, NEW v \in Buffer, Exists(v), NEW iov \in Vector, PutVector(v, iov)
    PROVE  /\ array' \in [Buffer -> Seq(Vector)] /\ end' \in [Buffer -> Nat]
           /\ \A w \in Buffer : Exists(w)' <=> Exists(w)
           /\ \A w \in Buffer : Len(array'[w]) <= end'[w]
           /\ \A w \in Buffer \ {v} : array'[w] = array[w] /\ end'[w] = end[w]
           /\ array'[v] = Append(array[v], iov)
           /\ \A w \in Buffer : \A i \in 1 .. Len(array'[w]) :
                 \/ i \in 1 .. Len(array[w]) /\ array'[w][i] = array[w][i]
                 \/ w = v /\ array'[w][i] = iov
<1>1. array[v] \in Seq(Vector) /\ Len(array[v]) \in Nat /\ end[v] \in Nat /\ Len(array[v]) <= end[v]
    BY Types DEF VectorsFit
<1>2. array' \in [Buffer -> Seq(Vector)] /\ array'[v] = Append(array[v], iov)
      /\ \A w \in Buffer \ {v} : array'[w] = array[w]
    BY <1>1, Types DEF PutVector
<1>3. /\ Len(array'[v]) = Len(array[v]) + 1
      /\ \A i \in 1 .. Len(array[v]) : array'[v][i] = array[v][i]
      /\ array'[v][Len(array[v]) + 1] = iov
    BY <1>1, <1>2
<1>4. /\ end' \in [Buffer -> Nat] /\ \A w \in Buffer \ {v} : end'[w] = end[w]
      /\ end'[v] # 0 /\ Len(array'[v]) <= end'[v]
    <2>1. CASE HasSlot(v)
        BY <1>1, <1>3, <2>1, Types DEF PutVector, HasSlot, Exists
    <2>2. CASE ~HasSlot(v)
        <3>1. Len(array[v]) = end[v] /\ end[v] # 0
            BY <1>1, <2>2 DEF HasSlot, Exists
        <3>2. end' = [end EXCEPT ![v] = Len(array[v]) * 2]
            BY <2>2 DEF PutVector
        <3>3. end' \in [Buffer -> Nat] /\ end'[v] = Len(array[v]) * 2
              /\ \A w \in Buffer \ {v} : end'[w] = end[w]
            BY <1>1, <3>2, Types
        <3> QED
            BY <1>1, <1>3, <3>1, <3>3
    <2> QED
        BY <2>1, <2>2
<1>5. \A w \in Buffer : (Exists(w)' <=> Exists(w)) /\ Len(array'[w]) <= end'[w]
    BY <1>2, <1>4 DEF Exists, VectorsFit
<1>6. ASSUME NEW w \in Buffer, NEW i \in 1 .. Len(array'[w])
      PROVE  \/ i \in 1 .. Len(array[w]) /\ array'[w][i] = array[w][i]
             \/ w = v /\ array'[w][i] = iov
    <2>1. CASE w = v
        BY <1>1, <1>3, <2>1
    <2>2. CASE w # v
        BY <1>2, <2>2
    <2> QED
        BY <2>1, <2>2
<1> QED
    BY <1>2, <1>4, <1>5, <1>6

\* The last vector of v made longer; it ends at p.
Lengthened(v, n) == array' = [array EXCEPT ![v][Len(array[v])].len = @ + n]

LengthenedFrom(v, n, p) ==
    LET k == Len(array[v])
        last == array[v][k]
    IN  /\ k \in Nat /\ k \in 1 .. k /\ last \in Vector /\ last.at \in Nat /\ last.len \in Nat
        /\ last.block = p.chunk /\ last.at + last.len = p.at
        /\ array' \in [Buffer -> Seq(Vector)]
        /\ \A w \in Buffer \ {v} : array'[w] = array[w]
        /\ Len(array'[v]) = k /\ \A i \in 1 .. k : i # k => array'[v][i] = array[v][i]
        /\ array'[v][k] \in Vector /\ array'[v][k].block = p.chunk
        /\ array'[v][k].at = last.at /\ array'[v][k].len = last.len + n

LEMMA LongerIs ==
    ASSUME TypeOK, NEW v \in Buffer, NEW n \in Nat, NEW p, Adjoins(v, p),
           Lengthened(v, n)
    PROVE  LengthenedFrom(v, n, p)
<1> DEFINE k == Len(array[v])
           last == array[v][k]
<1>1. /\ array[v] \in Seq(Vector) /\ k \in Nat /\ k \in 1 .. k /\ last \in Vector
      /\ last.block = p.chunk /\ last.at + last.len = p.at
      /\ last.at \in Nat /\ last.len \in Nat /\ DOMAIN array[v] = 1 .. k
    <2>1. k # 0
        BY Types DEF Adjoins
    <2>2. k \in 1 .. k
        BY <2>1, Types
    <2> QED
        BY <2>2, Types DEF Adjoins
<1> DEFINE more == [last EXCEPT !.len = @ + n]
<1>2. more \in Vector /\ more.block = last.block /\ more.at = last.at /\ more.len = last.len + n
    <2>1. last = [block |-> last.block, at |-> last.at, len |-> last.len]
        BY <1>1 DEF Vector
    <2>2. more = [block |-> last.block, at |-> last.at, len |-> last.len + n]
        BY <2>1
    <2>3. last.len + n \in Nat
        BY <1>1
    <2> QED
        BY <1>1, <2>2, <2>3 DEF Vector
<1>3. array' = [array EXCEPT ![v] = [@ EXCEPT ![k] = more]]
    BY Types, <1>1 DEF Lengthened
<1> HIDE DEF more
<1>4. [array[v] EXCEPT ![k] = more] \in Seq(Vector)
      /\ Len([array[v] EXCEPT ![k] = more]) = k
    BY <1>1, <1>2, ExceptSeq
<1>5. /\ array' \in [Buffer -> Seq(Vector)] /\ array'[v] = [array[v] EXCEPT ![k] = more]
      /\ \A w \in Buffer \ {v} : array'[w] = array[w]
    BY <1>3, <1>4, Types
<1>6. /\ Len(array'[v]) = k /\ array'[v][k] = more
      /\ \A i \in 1 .. k : i # k => array'[v][i] = array[v][i]
    BY <1>1, <1>4, <1>5
<1> QED
    BY <1>1, <1>2, <1>5, <1>6 DEF LengthenedFrom

LEMMA CopyInv ==
    ASSUME VrefbufferConstants, Parts, NEW v \in Buffer, NEW d \in Data, Append_Copy(v, d)
    PROVE  Parts'
<1> TypeOK /\ VectorsFit
    BY DEF Parts
<1> DEFINE n == Len(d.bytes)
<1>0. call = NoCall /\ call' = call /\ Exists(v) /\ d.bytes \in Seq(Char) /\ n \in Nat
    BY Constants DEF Append_Copy
<1>1. PICK place \in Place(v, n) :
          /\ TakeRoom(v, place, d.bytes)
          /\ \/ /\ Adjoins(v, place.p)
                /\ array' = [array EXCEPT ![v][Len(array[v])].len = @ + n]
                /\ UNCHANGED end
             \/ PutVector(v, [block |-> place.p.chunk, at |-> place.p.at, len |-> n])
    BY DEF Append_Copy
<1>2. PlaceOK(v, n, place)
    BY <1>0, PlaceIs
<1>3. place.p.chunk \in Chunk /\ place.p.at \in Nat
    BY <1>2 DEF PlaceOK
<1>4. VectorsOf(v, place, n)
    <2>1. CASE /\ Adjoins(v, place.p)
               /\ array' = [array EXCEPT ![v][Len(array[v])].len = @ + n]
               /\ UNCHANGED end
        <3> DEFINE k == Len(array[v])
                   last == array[v][k]
        <3>1. /\ k \in Nat /\ last.at \in Nat /\ last.len \in Nat /\ last.at + last.len = place.p.at
              /\ array' \in [Buffer -> Seq(Vector)]
              /\ \A w \in Buffer \ {v} : array'[w] = array[w]
              /\ Len(array'[v]) = k /\ \A i \in 1 .. k : i # k => array'[v][i] = array[v][i]
              /\ array'[v][k].block = place.p.chunk /\ array'[v][k].at = last.at
              /\ array'[v][k].len = last.len + n
            <4>1. n \in Nat /\ Adjoins(v, place.p) /\ Lengthened(v, n)
                BY <1>0, <2>1 DEF Lengthened
            <4> HIDE DEF n
            <4>2. LengthenedFrom(v, n, place.p)
                BY <4>1, LongerIs
            <4> QED
                BY <4>2 DEF LengthenedFrom
        <3>2. (last.at + (last.len + n)) = place.p.at + n
            BY <1>0, <1>3, <3>1
        <3>3. ASSUME NEW w \in Buffer, NEW i \in 1 .. Len(array'[w])
              PROVE  \/ i \in 1 .. Len(array[w]) /\ array'[w][i] = array[w][i]
                     \/ /\ w = v /\ array'[w][i].block = place.p.chunk
                        /\ array'[w][i].at + array'[w][i].len = place.p.at + n
            <4>1. CASE w # v
                BY <3>1, <4>1
            <4>2. CASE w = v /\ i # k
                BY <3>1, <4>2
            <4>3. CASE w = v /\ i = k
                BY <3>1, <3>2, <4>3
            <4> QED
                BY <4>1, <4>2, <4>3
        <3>4. \A w \in Buffer : (Exists(w)' <=> Exists(w)) /\ Len(array'[w]) <= end'[w]
            BY <2>1, <3>1 DEF Exists, VectorsFit
        <3> QED
            BY <2>1, <3>1, <3>3, <3>4, Types DEF VectorsOf
    <2>2. CASE PutVector(v, [block |-> place.p.chunk, at |-> place.p.at, len |-> n])
        <3> DEFINE iov == [block |-> place.p.chunk, at |-> place.p.at, len |-> n]
        <3>1. /\ iov \in Vector /\ iov.block = place.p.chunk
              /\ iov.at + iov.len = place.p.at + n
            BY <1>0, <1>3 DEF Vector
        <3> HIDE DEF iov
        <3>2. /\ array' \in [Buffer -> Seq(Vector)] /\ end' \in [Buffer -> Nat]
              /\ \A w \in Buffer : Exists(w)' <=> Exists(w)
              /\ \A w \in Buffer : Len(array'[w]) <= end'[w]
              /\ \A w \in Buffer : \A i \in 1 .. Len(array'[w]) :
                    \/ i \in 1 .. Len(array[w]) /\ array'[w][i] = array[w][i]
                    \/ w = v /\ array'[w][i] = iov
            <4>1. PutVector(v, iov)
                BY <2>2 DEF iov
            <4> QED
                BY <1>0, <3>1, <4>1, PutVectorIs
        <3> QED
            BY <3>1, <3>2 DEF VectorsOf
    <2> QED
        BY <1>1, <2>1, <2>2
<1> HIDE DEF n
<1> QED
    BY <1>0, <1>1, <1>2, <1>4, TakeRoomInv DEF n

LEMMA CopyFailsInv ==
    ASSUME VrefbufferConstants, Parts, NEW v \in Buffer, NEW d \in Data, Append_CopyFails(v, d)
    PROVE  Parts'
<1> TypeOK /\ VectorsFit
    BY DEF Parts
<1> DEFINE n == Len(d.bytes)
<1>0. /\ call = NoCall /\ call' = call /\ Exists(v) /\ d.bytes \in Seq(Char) /\ n \in Nat
      /\ array' = array /\ end' = end
    BY Constants DEF Append_CopyFails
<1>1. PICK place \in Place(v, n) : TakeRoom(v, place, d.bytes)
    BY DEF Append_CopyFails
<1>2. PlaceOK(v, n, place)
    BY <1>0, PlaceIs
<1>3. VectorsOf(v, place, n)
    BY <1>0, Types DEF VectorsOf, VectorsFit, Exists
<1> QED
    BY <1>0, <1>1, <1>2, <1>3, TakeRoomInv

\* A string that is referred to is the application's, not a packer's.
LEMMA RefInv ==
    ASSUME VrefbufferConstants, Parts, NEW v \in Buffer, NEW d \in String, Append_Ref(v, d)
    PROVE  Parts'
<1> TypeOK /\ RoomInChunk /\ RoomUnseen /\ VectorsHeld /\ Listed /\ VectorsFit /\ NoTemporary /\ HeadHolds
    BY DEF Parts
<1> DEFINE iov == [block |-> d, at |-> 0, len |-> Len(d.bytes)]
<1>1. /\ iov \in Vector /\ iov.block = d /\ d \in Data /\ d \notin Chunk /\ d \notin Temporary
    BY Constants DEF Vector
<1>2. call = NoCall /\ Exists(v) /\ PutVector(v, iov) /\ UNCHANGED <<chunks, free, ptr, mem, call>>
    BY DEF Append_Ref
<1> HIDE DEF iov
<1>3. /\ array' \in [Buffer -> Seq(Vector)] /\ end' \in [Buffer -> Nat]
      /\ \A w \in Buffer : Exists(w)' <=> Exists(w)
      /\ \A w \in Buffer : Len(array'[w]) <= end'[w]
      /\ \A w \in Buffer : \A i \in 1 .. Len(array'[w]) :
            \/ i \in 1 .. Len(array[w]) /\ array'[w][i] = array[w][i]
            \/ w = v /\ array'[w][i] = iov
    BY <1>1, <1>2, PutVectorIs
<1>4. \A w \in Buffer : DOMAIN array'[w] = 1 .. Len(array'[w]) /\ DOMAIN array[w] = 1 .. Len(array[w])
    BY <1>3, Types
<1>5. TypeOK'
    BY <1>2, <1>3 DEF TypeOK
<1>6. RoomInChunk' /\ Listed' /\ HeadHolds' /\ CallInv' /\ VectorsFit'
    BY <1>2, <1>3 DEF RoomInChunk, Listed, InHand, HeadHolds, CallInv, VectorsFit
<1>7. RoomUnseen'
    <2> SUFFICES ASSUME NEW u \in Buffer, NEW w \in Buffer, Exists(u), NEW i \in 1 .. Len(array'[w]),
                        array'[w][i].block = ptr[u].chunk
                 PROVE  \/ array'[w][i].at + array'[w][i].len <= ptr[u].at
                        \/ ptr[u].at + free[u] <= array'[w][i].at
        BY <1>2, <1>3, <1>4 DEF RoomUnseen
    <2>1. array'[w][i] # iov
        BY <1>1, Types DEF Exists
    <2> QED
        BY <1>3, <1>4, <2>1 DEF RoomUnseen
<1>8. VectorsHeld'
    BY <1>1, <1>2, <1>3, <1>4 DEF VectorsHeld
<1>9. NoTemporary'
    BY <1>1, <1>2, <1>3, <1>4, SMTT(30) DEF NoTemporary
<1> QED
    BY <1>5, <1>6, <1>7, <1>8, <1>9 DEF Parts

\* The fields of a buffer that hold memory are those of v's, the rest is as it was.
LEMMA NewInv ==
    ASSUME VrefbufferConstants, Parts, NEW v \in Buffer, New(v)
    PROVE  Parts'
<1> TypeOK /\ RoomInChunk /\ RoomUnseen /\ VectorsHeld /\ Listed /\ VectorsFit /\ NoTemporary /\ HeadHolds
    BY DEF Parts
<1>0. call = NoCall /\ ~Exists(v) /\ array' = array /\ call' = call
    BY DEF New
<1>1. PICK c \in Unallocated :
          /\ mem' = Malloc(c, ChunkSize[v])
          /\ chunks' = [chunks EXCEPT ![v] = <<c>>]
          /\ ptr' = [ptr EXCEPT ![v] = AtStart(c)]
    BY DEF New
<1>2. /\ free' = [free EXCEPT ![v] = ChunkSize[v]] /\ end' = [end EXCEPT ![v] = NFIRST]
      /\ ChunkSize[v] \in Nat /\ NFIRST \in Nat /\ NFIRST # 0
    BY Constants DEF New
<1>3. /\ c \in Chunk /\ c \notin DOMAIN mem /\ DOMAIN mem' = DOMAIN mem \cup {c}
      /\ \A b \in DOMAIN mem : mem'[b] = mem[b]
      /\ \A b \in DOMAIN mem' : mem'[b] \in Seq(Char \cup {Garbage})
      /\ Len(mem'[c]) = ChunkSize[v]
    <2> DEFINE n == ChunkSize[v]
    <2>1. n \in Nat /\ mem' = Malloc(c, n)
        BY <1>1, <1>2
    <2> HIDE DEF n
    <2>2. /\ c \in Chunk /\ c \notin DOMAIN mem /\ DOMAIN Malloc(c, n) = DOMAIN mem \cup {c}
          /\ \A b \in DOMAIN mem : Malloc(c, n)[b] = mem[b]
          /\ \A b \in DOMAIN Malloc(c, n) : Malloc(c, n)[b] \in Seq(Char \cup {Garbage})
          /\ Len(Malloc(c, n)[c]) = n
        BY <2>1, MallocIs
    <2> QED
        BY <2>1, <2>2 DEF n
<1>4. /\ chunks' \in [Buffer -> Seq(Chunk)] /\ Elements(chunks'[v]) = {c} /\ Once(chunks'[v])
      /\ chunks'[v] # << >> /\ chunks'[v][1] = c
      /\ \A w \in Buffer \ {v} : chunks'[w] = chunks[w]
    <2>1. <<c>> \in Seq(Chunk) /\ Elements(<<c>>) = {c} /\ Once(<<c>>) /\ <<c>> # << >> /\ <<c>>[1] = c
        BY <1>3, ElementsSingle
    <2>2. chunks' \in [Buffer -> Seq(Chunk)] /\ chunks'[v] = <<c>>
          /\ \A w \in Buffer \ {v} : chunks'[w] = chunks[w]
        BY <1>1, <2>1, Types
    <2> QED
        BY <2>1, <2>2
<1>5. chunks[v] = << >> /\ Elements(chunks[v]) = {} /\ array[v] = << >>
    <2>1. chunks[v] = << >>
        BY <1>0 DEF HeadHolds
    <2>2. Len(array[v]) = 0
        BY <1>0, Types DEF VectorsFit, Exists
    <2> QED
        BY <2>1, <2>2, ElementsEmpty, Types
<1>6. /\ DOMAIN ptr' = Buffer /\ ptr'[v] = [chunk |-> c, at |-> 0]
      /\ free' \in [Buffer -> Nat] /\ free'[v] = ChunkSize[v]
      /\ end' \in [Buffer -> Nat] /\ end'[v] # 0
      /\ \A w \in Buffer \ {v} : ptr'[w] = ptr[w] /\ free'[w] = free[w] /\ end'[w] = end[w]
    BY <1>1, <1>2, Types DEF AtStart
<1>7. \A w \in Buffer \ {v} : Exists(w)' <=> Exists(w)
    BY <1>6 DEF Exists
<1>8. TypeOK'
    <2>1. ASSUME NEW w \in Buffer
          PROVE  \/ ptr'[w] = NoPtr /\ ~Exists(w)'
                 \/ ptr'[w] \in [chunk : Chunk, at : Nat] /\ Exists(w)'
        <3>1. CASE w = v
            BY <1>3, <1>6, <3>1 DEF Exists
        <3>2. CASE w # v
            BY <1>6, <1>7, <3>2 DEF TypeOK
        <3> QED
            BY <3>1, <3>2
    <2> QED
        BY <1>0, <1>3, <1>4, <1>6, <2>1 DEF TypeOK, NoCall
<1>9. \A w \in Buffer \ {v} : \A b \in Elements(chunks[w]) : b \in DOMAIN mem /\ b # c
    BY <1>3 DEF Listed
<1>10. RoomInChunk'
    <2> SUFFICES ASSUME NEW w \in Buffer, Exists(w)'
                 PROVE  /\ ptr'[w].chunk \in Elements(chunks'[w])
                        /\ ptr'[w].at + free'[w] <= Len(mem'[ptr'[w].chunk])
        BY DEF RoomInChunk
    <2>1. CASE w = v
        BY <1>2, <1>3, <1>4, <1>6, <2>1
    <2>2. CASE w # v
        <3>1. ptr[w].chunk \in Elements(chunks[w]) /\ ptr[w].at + free[w] <= Len(mem[ptr[w].chunk])
            BY <1>7, <2>2 DEF RoomInChunk
        <3> QED
            BY <1>3, <1>4, <1>6, <1>9, <2>2, <3>1
    <2> QED
        BY <2>1, <2>2
<1>11. RoomUnseen'
    <2> SUFFICES ASSUME NEW u \in Buffer, NEW w \in Buffer, Exists(u)', NEW i \in DOMAIN array[w],
                        array[w][i].block = ptr'[u].chunk
                 PROVE  \/ array[w][i].at + array[w][i].len <= ptr'[u].at
                        \/ ptr'[u].at + free'[u] <= array[w][i].at
        BY <1>0 DEF RoomUnseen
    <2>1. w # v
        BY <1>5
    <2>2. CASE u = v
        <3>1. array[w][i].block \in Elements(chunks[w]) \cup Data
            BY DEF VectorsHeld
        <3> QED
            BY <1>3, <1>6, <1>9, <2>1, <2>2, <3>1, Constants
    <2>3. CASE u # v
        BY <1>6, <1>7, <2>3 DEF RoomUnseen
    <2> QED
        BY <2>2, <2>3
<1>12. VectorsHeld'
    <2> SUFFICES ASSUME NEW w \in Buffer, NEW i \in DOMAIN array[w]
                 PROVE  array[w][i].block \in Elements(chunks'[w]) \cup Data
        BY <1>0 DEF VectorsHeld
    <2>1. w # v
        BY <1>5
    <2> QED
        BY <1>4, <2>1 DEF VectorsHeld
<1>13. Listed'
    <2>1. InHand = {} /\ InHand' = {}
        BY <1>0 DEF InHand
    <2>2. \A b : b \in DOMAIN mem' <=> (\E w \in Buffer : b \in Elements(chunks'[w]))
        <3>1. \A b : b \in DOMAIN mem <=> (\E w \in Buffer \ {v} : b \in Elements(chunks[w]))
            BY <1>5, <2>1 DEF Listed
        <3> QED
            BY <1>3, <1>4, <3>1
    <2>3. \A w, u \in Buffer : \A b \in Elements(chunks'[w]) : b \in Elements(chunks'[u]) => w = u
        <3> SUFFICES ASSUME NEW w \in Buffer, NEW u \in Buffer, NEW b \in Elements(chunks'[w]),
                            b \in Elements(chunks'[u]), w # u
                     PROVE  FALSE
            OBVIOUS
        <3>1. CASE w # v /\ u # v
            BY <1>4, <3>1 DEF Listed
        <3>2. CASE w = v
            BY <1>4, <1>9, <3>2
        <3>3. CASE u = v
            BY <1>4, <1>9, <3>3
        <3> QED
            BY <3>1, <3>2, <3>3
    <2> QED
        BY <1>4, <2>1, <2>2, <2>3 DEF Listed
<1>14. VectorsFit'
    <2>1. Len(array[v]) = 0 /\ end'[v] \in Nat
        BY <1>5, <1>6
    <2> QED
        BY <1>0, <1>6, <2>1 DEF VectorsFit
<1>15. NoTemporary' /\ CallInv'
    BY <1>0 DEF NoTemporary, CallInv
<1>16. HeadHolds'
    <2> SUFFICES ASSUME NEW w \in Buffer
                 PROVE  IF Exists(w)' THEN chunks'[w] # << >> /\ ChunkSize[w] <= Len(mem'[chunks'[w][1]])
                                      ELSE chunks'[w] = << >>
        BY DEF HeadHolds
    <2>1. CASE w = v
        BY <1>2, <1>3, <1>4, <1>6, <2>1 DEF Exists
    <2>2. CASE w # v
        <3>1. ASSUME chunks[w] # << >> PROVE chunks[w][1] \in DOMAIN mem
            BY <3>1, ListedAllocated
        <3> QED
            BY <1>3, <1>4, <1>7, <2>2, <3>1 DEF HeadHolds
    <2> QED
        BY <2>1, <2>2
<1> QED
    BY <1>8, <1>10, <1>11, <1>12, <1>13, <1>14, <1>15, <1>16 DEF Parts

\* A buffer is emptied and keeps one of its chunks or none; the others are freed.
Leaves(v) ==
    /\ call = NoCall /\ call' = call
    /\ array' = [array EXCEPT ![v] = << >>]
    /\ chunks' \in [Buffer -> Seq(Chunk)] /\ Once(chunks'[v])
    /\ Elements(chunks'[v]) \subseteq Elements(chunks[v])
    /\ mem' = Without(Elements(chunks[v]) \ Elements(chunks'[v]))
    /\ end' \in [Buffer -> Nat] /\ free' \in [Buffer -> Nat] /\ DOMAIN ptr' = Buffer
    /\ \A w \in Buffer \ {v} : /\ chunks'[w] = chunks[w] /\ end'[w] = end[w]
                               /\ free'[w] = free[w] /\ ptr'[w] = ptr[w]
    /\ \/ end'[v] = 0 /\ ptr'[v] = NoPtr /\ chunks'[v] = << >>
       \/ /\ end'[v] # 0 /\ chunks'[v] # << >>
          /\ ptr'[v] = AtStart(chunks'[v][1]) /\ free'[v] = ChunkSize[v]
          /\ ChunkSize[v] <= Len(mem[chunks'[v][1]])

LEMMA LeavesInv ==
    ASSUME VrefbufferConstants, Parts, NEW v \in Buffer, Leaves(v)
    PROVE  Parts'
<1> TypeOK /\ RoomInChunk /\ RoomUnseen /\ VectorsHeld /\ Listed /\ VectorsFit /\ NoTemporary /\ HeadHolds
    BY DEF Parts
<1>0. call = NoCall /\ call' = call
    BY DEF Leaves
<1>1. /\ chunks' \in [Buffer -> Seq(Chunk)] /\ Once(chunks'[v])
      /\ Elements(chunks'[v]) \subseteq Elements(chunks[v])
      /\ end' \in [Buffer -> Nat] /\ free' \in [Buffer -> Nat] /\ DOMAIN ptr' = Buffer
      /\ \A w \in Buffer \ {v} : /\ chunks'[w] = chunks[w] /\ end'[w] = end[w]
                                 /\ free'[w] = free[w] /\ ptr'[w] = ptr[w]
    BY DEF Leaves
<1>2. /\ array' \in [Buffer -> Seq(Vector)] /\ array'[v] = << >>
      /\ \A w \in Buffer \ {v} : array'[w] = array[w]
    BY Types DEF Leaves
<1>3. /\ \A b : b \in DOMAIN mem' <=> b \in DOMAIN mem /\ (b \in Elements(chunks[v])
                                                           => b \in Elements(chunks'[v]))
      /\ \A b \in DOMAIN mem' : mem'[b] = mem[b]
    BY DEF Leaves, Without
<1>4. \A w \in Buffer \ {v} : \A b \in Elements(chunks[w]) :
          b \in DOMAIN mem /\ b \in DOMAIN mem' /\ b \notin Elements(chunks[v])
    BY <1>3 DEF Listed
<1>5. \A b \in Elements(chunks'[v]) : b \in DOMAIN mem'
    BY <1>1, <1>3 DEF Listed
<1>6. \/ end'[v] = 0 /\ ptr'[v] = NoPtr /\ chunks'[v] = << >>
      \/ /\ end'[v] # 0 /\ chunks'[v] # << >> /\ chunks'[v][1] \in Elements(chunks'[v])
         /\ ptr'[v] = [chunk |-> chunks'[v][1], at |-> 0]
         /\ ptr'[v].at + free'[v] <= Len(mem'[chunks'[v][1]])
         /\ ChunkSize[v] <= Len(mem'[chunks'[v][1]])
    <2>1. CASE end'[v] # 0
        <3>1. /\ chunks'[v] # << >> /\ free'[v] = ChunkSize[v]
              /\ ptr'[v] = [chunk |-> chunks'[v][1], at |-> 0]
              /\ ChunkSize[v] <= Len(mem[chunks'[v][1]])
            BY <2>1 DEF Leaves, AtStart
        <3>2. chunks'[v][1] \in Elements(chunks'[v])
            <4>1. chunks'[v] \in Seq(Chunk)
                BY <1>1
            <4>2. 1 \in 1 .. Len(chunks'[v])
                BY <3>1, <4>1
            <4> QED
                BY <4>1, <4>2, ElementsOf
        <3>3. mem'[chunks'[v][1]] = mem[chunks'[v][1]]
            BY <1>3, <1>5, <3>2
        <3> QED
            BY <2>1, <3>1, <3>2, <3>3, Constants
    <2>2. CASE end'[v] = 0
        BY <2>2 DEF Leaves
    <2> QED
        BY <2>1, <2>2
<1>7. \A w \in Buffer \ {v} : Exists(w)' <=> Exists(w)
    BY <1>1 DEF Exists
<1>8. TypeOK'
    <2>1. ASSUME NEW w \in Buffer
          PROVE  \/ ptr'[w] = NoPtr /\ ~Exists(w)'
                 \/ ptr'[w] \in [chunk : Chunk, at : Nat] /\ Exists(w)'
        <3>1. CASE w = v
            <4>1. Elements(chunks'[v]) \subseteq Chunk
                BY <1>1, ElementsOf
            <4> QED
                BY <1>6, <3>1, <4>1 DEF Exists
        <3>2. CASE w # v
            BY <1>1, <1>7, <3>2 DEF TypeOK
        <3> QED
            BY <3>1, <3>2
    <2>2. /\ DOMAIN mem' \subseteq Chunk
          /\ \A c \in DOMAIN mem' : mem'[c] \in Seq(Char \cup {Garbage})
        BY <1>3 DEF TypeOK
    <2> QED
        BY <1>0, <1>1, <1>2, <2>1, <2>2 DEF TypeOK, NoCall
<1>9. RoomInChunk'
    <2> SUFFICES ASSUME NEW w \in Buffer, Exists(w)'
                 PROVE  /\ ptr'[w].chunk \in Elements(chunks'[w])
                        /\ ptr'[w].at + free'[w] <= Len(mem'[ptr'[w].chunk])
        BY DEF RoomInChunk
    <2>1. CASE w = v
        BY <1>6, <2>1 DEF Exists
    <2>2. CASE w # v
        <3>1. ptr[w].chunk \in Elements(chunks[w]) /\ ptr[w].at + free[w] <= Len(mem[ptr[w].chunk])
            BY <1>7, <2>2 DEF RoomInChunk
        <3> QED
            BY <1>1, <1>3, <1>4, <2>2, <3>1
    <2> QED
        BY <2>1, <2>2
<1>10. RoomUnseen'
    <2> SUFFICES ASSUME NEW u \in Buffer, NEW w \in Buffer, Exists(u)', NEW i \in DOMAIN array'[w],
                        array'[w][i].block = ptr'[u].chunk
                 PROVE  \/ array'[w][i].at + array'[w][i].len <= ptr'[u].at
                        \/ ptr'[u].at + free'[u] <= array'[w][i].at
        BY DEF RoomUnseen
    <2>1. w # v /\ array'[w] = array[w]
        BY <1>2
    <2>2. CASE u = v
        <3>1. array[w][i].block \in Elements(chunks[w]) \cup Data
            BY <2>1 DEF VectorsHeld
        <3>2. ptr'[v].chunk \in Elements(chunks[v]) /\ ptr'[v].chunk \in Chunk
            <4>1. Elements(chunks'[v]) \subseteq Chunk
                BY <1>1, ElementsOf
            <4> QED
                BY <1>1, <1>6, <2>2, <4>1 DEF Exists
        <3> QED
            BY <1>4, <2>1, <2>2, <3>1, <3>2, Constants
    <2>3. CASE u # v
        BY <1>1, <1>7, <2>1, <2>3, ZenonT(60) DEF RoomUnseen
    <2> QED
        BY <2>2, <2>3
<1>11. VectorsHeld'
    <2> SUFFICES ASSUME NEW w \in Buffer, NEW i \in DOMAIN array'[w]
                 PROVE  array'[w][i].block \in Elements(chunks'[w]) \cup Data
        BY DEF VectorsHeld
    <2>1. w # v /\ array'[w] = array[w]
        BY <1>2
    <2> QED
        BY <1>1, <2>1 DEF VectorsHeld
<1>12. Listed'
    <2>1. InHand = {} /\ InHand' = {}
        BY <1>0 DEF InHand
    <2>2. \A b : b \in DOMAIN mem' <=> (\E w \in Buffer : b \in Elements(chunks'[w]))
        <3>1. ASSUME NEW b \in DOMAIN mem' PROVE \E w \in Buffer : b \in Elements(chunks'[w])
            <4>1. PICK w \in Buffer : b \in Elements(chunks[w])
                BY <1>3, <2>1 DEF Listed
            <4>2. CASE w = v
                BY <1>3, <4>1, <4>2
            <4>3. CASE w # v
                BY <1>1, <4>1, <4>3
            <4> QED
                BY <4>2, <4>3
        <3>2. ASSUME NEW w \in Buffer, NEW b \in Elements(chunks'[w]) PROVE b \in DOMAIN mem'
            <4>1. CASE w = v
                BY <1>5, <4>1
            <4>2. CASE w # v
                BY <1>1, <1>4, <4>2
            <4> QED
                BY <4>1, <4>2
        <3> QED
            BY <3>1, <3>2
    <2>3. \A w, u \in Buffer : \A b \in Elements(chunks'[w]) : b \in Elements(chunks'[u]) => w = u
        <3> SUFFICES ASSUME NEW w \in Buffer, NEW u \in Buffer, NEW b \in Elements(chunks'[w]),
                            b \in Elements(chunks'[u])
                     PROVE  w = u
            OBVIOUS
        <3>1. b \in Elements(chunks[w]) /\ b \in Elements(chunks[u])
            BY <1>1
        <3> QED
            BY <3>1 DEF Listed
    <2>4. \A w \in Buffer : Once(chunks'[w])
        BY <1>1 DEF Listed
    <2> QED
        BY <2>1, <2>2, <2>3, <2>4 DEF Listed
<1>13. VectorsFit' /\ NoTemporary' /\ CallInv'
    <2>1. Len(array'[v]) = 0 /\ end'[v] \in Nat
        BY <1>1, <1>2
    <2>2. VectorsFit'
        <3> SUFFICES ASSUME NEW w \in Buffer PROVE Len(array'[w]) <= end'[w]
            BY DEF VectorsFit
        <3>1. CASE w = v
            BY <2>1, <3>1
        <3>2. CASE w # v
            BY <1>1, <1>2, <3>2 DEF VectorsFit
        <3> QED
            BY <3>1, <3>2
    <2>3. NoTemporary'
        <3> SUFFICES ASSUME NEW w \in Buffer, NEW i \in DOMAIN array'[w]
                     PROVE  array'[w][i].block \notin Temporary
            BY DEF NoTemporary
        <3>1. w # v /\ array'[w] = array[w]
            BY <1>2
        <3> QED
            BY <3>1 DEF NoTemporary
    <2> QED
        BY <1>0, <2>2, <2>3 DEF CallInv
<1>14. HeadHolds'
    <2> SUFFICES ASSUME NEW w \in Buffer
                 PROVE  IF Exists(w)' THEN chunks'[w] # << >> /\ ChunkSize[w] <= Len(mem'[chunks'[w][1]])
                                      ELSE chunks'[w] = << >>
        BY DEF HeadHolds
    <2>1. CASE w = v
        BY <1>6, <2>1 DEF Exists
    <2>2. CASE w # v
        <3>1. chunks[w] # << >> => chunks[w][1] \in Elements(chunks[w])
            BY ListedAllocated
        <3> QED
            BY <1>1, <1>3, <1>4, <1>7, <2>2, <3>1 DEF HeadHolds
    <2> QED
        BY <2>1, <2>2
<1> QED
    BY <1>8, <1>9, <1>10, <1>11, <1>12, <1>13, <1>14 DEF Parts

LEMMA DestroyInv ==
    ASSUME VrefbufferConstants, Parts, NEW v \in Buffer, Destroy(v)
    PROVE  Parts'
<1> TypeOK
    BY DEF Parts
<1>1. /\ chunks' = [chunks EXCEPT ![v] = << >>] /\ end' = [end EXCEPT ![v] = 0]
      /\ ptr' = [ptr EXCEPT ![v] = NoPtr] /\ free' = [free EXCEPT ![v] = 0]
    BY DEF Destroy
<1>2. /\ chunks' \in [Buffer -> Seq(Chunk)] /\ chunks'[v] = << >>
      /\ \A w \in Buffer \ {v} : chunks'[w] = chunks[w]
    BY <1>1, Types
<1>3. /\ end' \in [Buffer -> Nat] /\ free' \in [Buffer -> Nat] /\ DOMAIN ptr' = Buffer
      /\ \A w \in Buffer \ {v} : end'[w] = end[w] /\ free'[w] = free[w] /\ ptr'[w] = ptr[w]
      /\ end'[v] = 0 /\ ptr'[v] = NoPtr
    BY <1>1, Types
<1>4. mem' = Without(Elements(chunks[v]) \ Elements(chunks'[v]))
    <2>1. Elements(chunks[v]) \ {} = Elements(chunks[v])
        OBVIOUS
    <2> QED
        BY <1>2, <2>1, ElementsEmpty DEF Destroy
<1>5. Leaves(v)
    BY <1>2, <1>3, <1>4, ElementsEmpty DEF Destroy, Leaves
<1> QED
    BY <1>5, LeavesInv

LEMMA ClearInv ==
    ASSUME VrefbufferConstants, Parts, NEW v \in Buffer, Clear(v)
    PROVE  Parts'
<1> TypeOK /\ Listed /\ HeadHolds
    BY DEF Parts
<1> DEFINE head == chunks[v][1]
<1>0. head \in Elements(chunks[v]) /\ head \in Chunk /\ ChunkSize[v] <= Len(mem[head])
    BY ListedAllocated, Types DEF Clear, HeadHolds, TypeOK
<1> HIDE DEF head
<1>1. /\ chunks' = [chunks EXCEPT ![v] = <<head>>] /\ end' = end
      /\ ptr' = [ptr EXCEPT ![v] = AtStart(head)] /\ free' = [free EXCEPT ![v] = ChunkSize[v]]
      /\ mem' = Without(Elements(chunks[v]) \ {head})
    BY DEF Clear, head
<1>2. <<head>> \in Seq(Chunk) /\ Elements(<<head>>) = {head} /\ Once(<<head>>) /\ <<head>> # << >>
      /\ <<head>>[1] = head
    BY <1>0, ElementsSingle
<1>3. /\ chunks' \in [Buffer -> Seq(Chunk)] /\ chunks'[v] = <<head>>
      /\ \A w \in Buffer \ {v} : chunks'[w] = chunks[w]
    BY <1>1, <1>2, Types
<1>4. /\ end' \in [Buffer -> Nat] /\ free' \in [Buffer -> Nat] /\ DOMAIN ptr' = Buffer
      /\ \A w \in Buffer \ {v} : end'[w] = end[w] /\ free'[w] = free[w] /\ ptr'[w] = ptr[w]
      /\ ptr'[v] = AtStart(head) /\ free'[v] = ChunkSize[v]
    BY <1>1, Types, Constants
<1>5. end'[v] # 0
    BY <1>1 DEF Clear, Exists
<1>6. /\ Once(chunks'[v]) /\ Elements(chunks'[v]) = {head} /\ chunks'[v] # << >>
      /\ chunks'[v][1] = head
    BY <1>2, <1>3
<1>7. mem' = Without(Elements(chunks[v]) \ Elements(chunks'[v]))
    BY <1>1, <1>6
<1>8. Leaves(v)
    BY <1>0, <1>3, <1>4, <1>5, <1>6, <1>7 DEF Clear, Leaves
<1> QED
    BY <1>8, LeavesInv

\* While a migrate allocates, the buffers are as they were.
LEMMA MigrateInv ==
    ASSUME VrefbufferConstants, Parts, NEW v \in Buffer, NEW to \in Buffer, Migrate(v, to)
    PROVE  Parts'
<1> TypeOK /\ RoomInChunk /\ RoomUnseen /\ VectorsHeld /\ Listed /\ VectorsFit /\ NoTemporary /\ HeadHolds
    BY DEF Parts
<1>0. /\ call = NoCall /\ Exists(v) /\ Exists(to) /\ v # to
      /\ array' = array /\ end' = end /\ chunks' = chunks /\ free' = free /\ ptr' = ptr
    BY DEF Migrate
<1>1. PICK c \in Unallocated, less \in BOOLEAN :
          /\ CanMigrate(v, to, less)
          /\ mem' = Malloc(c, ChunkSize[v])
          /\ call' = [is |-> IF less THEN "grow" ELSE "link",
                      from |-> v, to |-> to, empty |-> c, nnext |-> end[to] * 2]
    BY DEF Migrate
<1>2. /\ c \in Chunk /\ c \notin DOMAIN mem /\ DOMAIN mem' = DOMAIN mem \cup {c}
      /\ \A b \in DOMAIN mem : mem'[b] = mem[b]
      /\ \A b \in DOMAIN mem' : mem'[b] \in Seq(Char \cup {Garbage})
      /\ Len(mem'[c]) = ChunkSize[v]
    <2> DEFINE n == ChunkSize[v]
    <2>1. n \in Nat /\ mem' = Malloc(c, n)
        BY <1>1, Constants
    <2> HIDE DEF n
    <2>2. /\ c \in Chunk /\ c \notin DOMAIN mem /\ DOMAIN Malloc(c, n) = DOMAIN mem \cup {c}
          /\ \A b \in DOMAIN mem : Malloc(c, n)[b] = mem[b]
          /\ \A b \in DOMAIN Malloc(c, n) : Malloc(c, n)[b] \in Seq(Char \cup {Garbage})
          /\ Len(Malloc(c, n)[c]) = n
        BY <2>1, MallocIs
    <2> QED
        BY <2>1, <2>2 DEF n
<1>3. /\ call'.is \in {"grow", "link"} /\ call'.from = v /\ call'.to = to /\ call'.empty = c
      /\ call'.nnext = end[to] * 2 /\ call' # NoCall
      /\ call'.is = "link" => ~less
      /\ call' \in [is : {"grow", "realloc", "link"}, from : Buffer, to : Buffer,
                    empty : Chunk, nnext : Nat]
    <2>1. end[to] * 2 \in Nat
        BY Types
    <2>2. /\ call'.is = (IF less THEN "grow" ELSE "link") /\ call'.from = v /\ call'.to = to
          /\ call'.empty = c /\ call'.nnext = end[to] * 2
        BY <1>1
    <2>3. call' # NoCall
        BY <2>2 DEF NoCall
    <2> QED
        BY <1>1, <1>2, <2>1, <2>2, <2>3
<1>4. TypeOK'
    <2>1. /\ DOMAIN mem' \subseteq Chunk
          /\ \A b \in DOMAIN mem' : mem'[b] \in Seq(Char \cup {Garbage})
        BY <1>2 DEF TypeOK
    <2> QED
        BY <1>0, <1>3, <2>1 DEF TypeOK, Exists
<1>5. RoomInChunk'
    BY <1>0, <1>2 DEF RoomInChunk, Listed, Exists
<1>6. RoomUnseen' /\ VectorsHeld' /\ VectorsFit' /\ NoTemporary'
    BY <1>0 DEF RoomUnseen, VectorsHeld, VectorsFit, NoTemporary, Exists
<1>7. Listed'
    <2>1. InHand = {} /\ InHand' = {c}
        BY <1>0, <1>3 DEF InHand
    <2>2. \A w \in Buffer : \A b \in Elements(chunks[w]) : b # c
        BY <1>2 DEF Listed
    <2> QED
        BY <1>0, <1>2, <2>1, <2>2 DEF Listed
<1>8. HeadHolds'
    BY <1>0, <1>2, ListedAllocated DEF HeadHolds, Exists
<1>9. CallInv'
    <2>1. Len(array[v]) \in Nat /\ Len(array[to]) \in Nat /\ end[to] \in Nat /\ end[to] # 0
        BY <1>0, Types DEF Exists
    <2>2. call'.is = "link" => Len(array[v]) + Len(array[to]) <= end[to]
        <3>1. call'.is = "link" => Len(array[to]) + Len(array[v]) <= end[to]
            BY <1>1, <1>3 DEF CanMigrate
        <3> DEFINE x == Len(array[to])
                   y == Len(array[v])
        <3>2. x \in Nat /\ y \in Nat
            BY <2>1
        <3> HIDE DEF x, y
        <3>3. x + y = y + x
            BY <3>2
        <3> QED
            BY <3>1, <3>3 DEF x, y
    <2>3. ChunkSize[to] <= ChunkSize[v]
        BY <1>1 DEF CanMigrate
    <2>4. end[to] * 2 # 0
        BY <2>1
    <2> QED
        BY <1>0, <1>2, <1>3, <2>2, <2>3, <2>4 DEF CallInv, Exists
<1> QED
    BY <1>4, <1>5, <1>6, <1>7, <1>8, <1>9 DEF Parts

\* The loop that enlarges the target's array touches the call only, and the realloc after
\* it the room in that array.
LEMMA CallInHand ==
    ASSUME Parts, call.is \in {"grow", "realloc", "link"}
    PROVE  /\ call # NoCall /\ InHand = {call.empty}
           /\ call \in [is : {"grow", "realloc", "link"}, from : Buffer, to : Buffer,
                        empty : Chunk, nnext : Nat]
           /\ call.from \in Buffer /\ call.to \in Buffer /\ call.empty \in Chunk
           /\ call.nnext \in Nat /\ call.nnext # 0 /\ call.from # call.to
           /\ Exists(call.from) /\ Exists(call.to)
           /\ ChunkSize[call.to] <= ChunkSize[call.from]
           /\ call.empty \in DOMAIN mem /\ Len(mem[call.empty]) = ChunkSize[call.from]
           /\ \A w \in Buffer : call.empty \notin Elements(chunks[w])
           /\ call.is = "realloc" => Len(array[call.from]) + Len(array[call.to]) <= call.nnext
           /\ call.is = "link" => Len(array[call.from]) + Len(array[call.to]) <= end[call.to]
<1>1. call # NoCall
    BY DEF NoCall
<1>2. InHand = {call.empty}
    BY <1>1 DEF InHand
<1>3. call \in [is : {"grow", "realloc", "link"}, from : Buffer, to : Buffer,
                empty : Chunk, nnext : Nat]
    BY <1>1 DEF Parts, TypeOK
<1> QED
    BY <1>1, <1>2, <1>3, ZenonT(60) DEF Parts, CallInv, Listed

LEMMA GrowInv == ASSUME Parts, Grow PROVE Parts'
<1>0. /\ array' = array /\ end' = end /\ chunks' = chunks /\ free' = free /\ ptr' = ptr
      /\ mem' = mem /\ call.is = "grow"
    BY DEF Grow
<1>1. /\ call # NoCall /\ InHand = {call.empty}
      /\ call \in [is : {"grow", "realloc", "link"}, from : Buffer, to : Buffer,
                   empty : Chunk, nnext : Nat]
      /\ call.nnext \in Nat /\ call.nnext # 0
    BY <1>0, CallInHand
<1>2. /\ call' \in [is : {"grow", "realloc", "link"}, from : Buffer, to : Buffer,
                    empty : Chunk, nnext : Nat]
      /\ call'.from = call.from /\ call'.to = call.to /\ call'.empty = call.empty
      /\ call'.nnext # 0 /\ call'.is # "link" /\ call' # NoCall
      /\ call'.is = "realloc" => ~(call'.nnext < Len(array[call.from]) + Len(array[call.to]))
    <2>1. CASE call.nnext < Len(array[call.from]) + Len(array[call.to])
        <3>1. call' = [call EXCEPT !.nnext = call.nnext * 2]
            BY <2>1 DEF Grow
        <3>2. call.nnext * 2 \in Nat /\ call.nnext * 2 # 0
            BY <1>1
        <3>3. call'.is = "grow" /\ call'.nnext = call.nnext * 2
            BY <1>0, <1>1, <3>1
        <3> QED
            BY <1>1, <3>1, <3>2, <3>3 DEF NoCall
    <2>2. CASE ~(call.nnext < Len(array[call.from]) + Len(array[call.to]))
        <3>1. call' = [call EXCEPT !.is = "realloc"]
            BY <2>2 DEF Grow
        <3>2. call'.is = "realloc" /\ call'.nnext = call.nnext
            BY <1>1, <3>1
        <3> QED
            BY <1>1, <2>2, <3>1, <3>2 DEF NoCall
    <2> QED
        BY <2>1, <2>2
<1>3. TypeOK'
    BY <1>0, <1>2 DEF Parts, TypeOK, Exists
<1>4. RoomInChunk' /\ RoomUnseen' /\ VectorsHeld' /\ VectorsFit' /\ NoTemporary' /\ HeadHolds'
    BY <1>0 DEF Parts, RoomInChunk, RoomUnseen, VectorsHeld, VectorsFit, NoTemporary, HeadHolds, Exists
<1>5. Listed'
    <2>1. InHand' = InHand
        BY <1>1, <1>2 DEF InHand
    <2> QED
        BY <1>0, <2>1 DEF Parts, Listed
<1>6. CallInv'
    <2>1. Len(array[call.from]) \in Nat /\ Len(array[call.to]) \in Nat /\ call'.nnext \in Nat
        BY <1>1, <1>2, Types DEF Parts
    <2>2. call'.is = "realloc" => Len(array[call.from]) + Len(array[call.to]) <= call'.nnext
        <3> DEFINE m == Len(array[call.from])
                   n == Len(array[call.to])
                   k == call'.nnext
        <3>1. m \in Nat /\ n \in Nat /\ k \in Nat
            BY <2>1
        <3>2. call'.is = "realloc" => ~(k < m + n)
            BY <1>2
        <3> HIDE DEF m, n, k
        <3>3. call'.is = "realloc" => m + n <= k
            BY <3>1, <3>2
        <3> QED
            BY <3>3 DEF m, n, k
    <2> QED
        BY <1>0, <1>2, <2>2, CallInHand DEF CallInv, Exists
<1> QED
    BY <1>3, <1>4, <1>5, <1>6 DEF Parts

LEMMA ReallocInv == ASSUME Parts, Realloc PROVE Parts'
<1>0. /\ array' = array /\ chunks' = chunks /\ free' = free /\ ptr' = ptr
      /\ mem' = mem /\ call.is = "realloc" /\ end' = [end EXCEPT ![call.to] = call.nnext]
      /\ call' = [call EXCEPT !.is = "link"]
    BY DEF Realloc
<1>1. /\ call # NoCall /\ InHand = {call.empty}
      /\ call \in [is : {"grow", "realloc", "link"}, from : Buffer, to : Buffer,
                   empty : Chunk, nnext : Nat]
      /\ call.nnext \in Nat /\ call.nnext # 0 /\ call.to \in Buffer /\ call.from \in Buffer
      /\ Exists(call.to) /\ Exists(call.from) /\ call.from # call.to
      /\ Len(array[call.from]) + Len(array[call.to]) <= call.nnext
    BY <1>0, CallInHand
<1>2. /\ call' \in [is : {"grow", "realloc", "link"}, from : Buffer, to : Buffer,
                    empty : Chunk, nnext : Nat]
      /\ call'.from = call.from /\ call'.to = call.to /\ call'.empty = call.empty
      /\ call'.nnext = call.nnext /\ call'.is = "link"
    BY <1>0, <1>1
<1>3. call' # NoCall
    BY <1>2 DEF NoCall
<1>4. /\ end' \in [Buffer -> Nat] /\ end'[call.to] = call.nnext
      /\ \A w \in Buffer : w # call.to => end'[w] = end[w]
    BY <1>0, <1>1, Types DEF Parts
<1>5. \A w \in Buffer : Exists(w)' <=> Exists(w)
    BY <1>1, <1>4 DEF Exists
<1>6. TypeOK'
    <2>1. \A w \in Buffer : \/ ptr'[w] = NoPtr /\ ~Exists(w)'
                            \/ ptr'[w] \in [chunk : Chunk, at : Nat] /\ Exists(w)'
        BY <1>0, <1>5 DEF Parts, TypeOK
    <2> QED
        BY <1>0, <1>2, <1>4, <2>1 DEF Parts, TypeOK
<1>7. RoomInChunk' /\ RoomUnseen' /\ VectorsHeld' /\ NoTemporary' /\ HeadHolds'
    BY <1>0, <1>5 DEF Parts, RoomInChunk, RoomUnseen, VectorsHeld, NoTemporary, HeadHolds
<1>8. VectorsFit'
    <2>1. Len(array[call.to]) <= call.nnext
        BY <1>1, Types DEF Parts
    <2> QED
        BY <1>0, <1>4, <2>1 DEF Parts, VectorsFit
<1>9. Listed'
    <2>1. InHand' = InHand
        BY <1>1, <1>2, <1>3 DEF InHand
    <2> QED
        BY <1>0, <2>1 DEF Parts, Listed
<1>10. CallInv'
    BY <1>0, <1>1, <1>2, <1>4, <1>5, CallInHand DEF CallInv
<1> QED
    BY <1>6, <1>7, <1>8, <1>9, <1>10 DEF Parts

LEMMA ReallocFailsInv == ASSUME Parts, ReallocFails PROVE Parts'
<1>0. /\ array' = array /\ end' = end /\ chunks' = chunks /\ free' = free /\ ptr' = ptr
      /\ mem' = Without({call.empty}) /\ call.is = "realloc" /\ call' = NoCall
    BY DEF ReallocFails
<1>1. /\ InHand = {call.empty} /\ InHand' = {}
      /\ \A w \in Buffer : call.empty \notin Elements(chunks[w])
    BY <1>0, CallInHand DEF InHand
<1>2. /\ \A b : b \in DOMAIN mem' <=> b \in DOMAIN mem /\ b # call.empty
      /\ \A b \in DOMAIN mem' : mem'[b] = mem[b]
    BY <1>0 DEF Without
<1>3. \A w \in Buffer : \A b \in Elements(chunks[w]) : b \in DOMAIN mem /\ b \in DOMAIN mem'
    BY <1>1, <1>2 DEF Parts, Listed
<1>4. TypeOK'
    <2>1. /\ DOMAIN mem' \subseteq Chunk
          /\ \A b \in DOMAIN mem' : mem'[b] \in Seq(Char \cup {Garbage})
        BY <1>2 DEF Parts, TypeOK
    <2> QED
        BY <1>0, <2>1 DEF Parts, TypeOK, Exists
<1>5. RoomUnseen' /\ VectorsHeld' /\ VectorsFit' /\ NoTemporary' /\ CallInv'
    BY <1>0 DEF Parts, RoomUnseen, VectorsHeld, VectorsFit, NoTemporary, Exists, CallInv
<1>6. RoomInChunk'
    BY <1>0, <1>2, <1>3 DEF Parts, RoomInChunk, Exists
<1>7. HeadHolds'
    BY <1>0, <1>2, <1>3, ListedAllocated DEF Parts, HeadHolds, Exists
<1>8. Listed'
    BY <1>0, <1>1, <1>2 DEF Parts, Listed
<1> QED
    BY <1>4, <1>5, <1>6, <1>7, <1>8 DEF Parts

\* The chunks of the two buffers and the empty one change hands.
LEMMA LinkChunks ==
    ASSUME Parts, Link
    PROVE  LET v == call.from  to == call.to
           IN  /\ chunks' \in [Buffer -> Seq(Chunk)]
               /\ chunks'[v] = <<call.empty>> /\ chunks'[v] # << >>
               /\ chunks'[v][1] = call.empty /\ Elements(chunks'[v]) = {call.empty}
               /\ chunks'[to] = chunks[v] \o chunks[to] /\ chunks'[to] # << >>
               /\ chunks'[to][1] = chunks[v][1]
               /\ Elements(chunks'[to]) = Elements(chunks[v]) \cup Elements(chunks[to])
               /\ \A w \in Buffer \ {v, to} : chunks'[w] = chunks[w]
               /\ \A w \in Buffer : Once(chunks'[w])
<1> DEFINE v == call.from
           to == call.to
           c  == call.empty
<1> TypeOK /\ Listed /\ HeadHolds
    BY DEF Parts
<1>1. /\ v \in Buffer /\ to \in Buffer /\ v # to /\ c \in Chunk /\ Exists(v) /\ Exists(to)
      /\ \A w \in Buffer : c \notin Elements(chunks[w])
    BY CallInHand DEF Link
<1>2. chunks' = [chunks EXCEPT ![to] = chunks[v] \o chunks[to], ![v] = <<c>>]
    BY DEF Link
<1> HIDE DEF v, to, c
<1>3. /\ chunks[v] \in Seq(Chunk) /\ chunks[to] \in Seq(Chunk) /\ chunks[v] # << >>
      /\ Once(chunks[v]) /\ Once(chunks[to]) /\ Elements(chunks[v]) \cap Elements(chunks[to]) = {}
    BY <1>1, Types DEF HeadHolds, Listed
<1>4. /\ <<c>> \in Seq(Chunk) /\ Elements(<<c>>) = {c} /\ Once(<<c>>) /\ <<c>> # << >> /\ <<c>>[1] = c
    BY <1>1, ElementsSingle
<1> DEFINE l == chunks[v] \o chunks[to]
<1>5. /\ l \in Seq(Chunk) /\ l # << >> /\ l[1] = chunks[v][1] /\ Once(l)
      /\ Elements(l) = Elements(chunks[v]) \cup Elements(chunks[to])
    <2> DEFINE s == chunks[v]
               t == chunks[to]
    <2>1. /\ s \in Seq(Chunk) /\ t \in Seq(Chunk) /\ s # << >> /\ Once(s) /\ Once(t)
          /\ Elements(s) \cap Elements(t) = {} /\ l = s \o t
        BY <1>3
    <2> HIDE DEF s, t, l
    <2>2. /\ Elements(s \o t) = Elements(s) \cup Elements(t) /\ Once(s \o t)
          /\ (s \o t)[1] = s[1] /\ s \o t # << >>
        BY <2>1, ElementsConcat
    <2>3. s \o t \in Seq(Chunk)
        BY <2>1
    <2> QED
        BY <2>1, <2>2, <2>3 DEF s, t
<1> HIDE DEF l
<1>6. /\ chunks' \in [Buffer -> Seq(Chunk)] /\ chunks'[v] = <<c>> /\ chunks'[to] = l
      /\ \A w \in Buffer \ {v, to} : chunks'[w] = chunks[w]
    <2>1. chunks' = [chunks EXCEPT ![to] = l, ![v] = <<c>>]
        BY <1>2 DEF l
    <2> QED
        BY <1>1, <1>4, <1>5, <2>1, Types
<1>7. \A w \in Buffer : Once(chunks'[w])
    <2> SUFFICES ASSUME NEW w \in Buffer PROVE Once(chunks'[w])
        OBVIOUS
    <2>1. CASE w = v
        BY <1>4, <1>6, <2>1
    <2>2. CASE w = to
        BY <1>5, <1>6, <2>2
    <2>3. CASE w \notin {v, to}
        BY <1>6, <2>3 DEF Listed
    <2> QED
        BY <2>1, <2>2, <2>3
<1>8. /\ chunks'[v] # << >> /\ chunks'[v][1] = c /\ Elements(chunks'[v]) = {c}
      /\ chunks'[to] = chunks[v] \o chunks[to] /\ chunks'[to] # << >>
      /\ chunks'[to][1] = chunks[v][1]
      /\ Elements(chunks'[to]) = Elements(chunks[v]) \cup Elements(chunks[to])
    BY <1>4, <1>5, <1>6 DEF l
<1> QED
    BY <1>6, <1>7, <1>8 DEF v, to, c

\* The vectors of the target are its own and those that come, and the buffer they come from
\* has none.
LEMMA LinkVectors ==
    ASSUME Parts, Link
    PROVE  LET v == call.from  to == call.to
           IN  /\ array' \in [Buffer -> Seq(Vector)] /\ array'[v] = << >>
               /\ array'[to] = array[to] \o array[v]
               /\ Len(array'[to]) = Len(array[to]) + Len(array[v])
               /\ \A w \in Buffer \ {v, to} : array'[w] = array[w]
               /\ \A w \in Buffer : \A i \in DOMAIN array'[w] :
                     \/ w # v /\ \E j \in DOMAIN array[w] : array'[w][i] = array[w][j]
                     \/ w = to /\ \E j \in DOMAIN array[v] : array'[w][i] = array[v][j]
<1> DEFINE v == call.from
           to == call.to
<1> TypeOK
    BY DEF Parts
<1>1. v \in Buffer /\ to \in Buffer /\ v # to
    BY CallInHand DEF Link
<1>2. array' = [array EXCEPT ![to] = array[to] \o array[v], ![v] = << >>]
    BY <1>1, Types DEF Link
<1> HIDE DEF v, to
<1> DEFINE l == array[to] \o array[v]
           m == Len(array[to])
           n == Len(array[v])
<1>3. /\ array[v] \in Seq(Vector) /\ array[to] \in Seq(Vector) /\ m \in Nat /\ n \in Nat
      /\ DOMAIN array[v] = 1 .. n /\ DOMAIN array[to] = 1 .. m
    BY <1>1, Types
<1>4. /\ l \in Seq(Vector) /\ Len(l) = m + n /\ DOMAIN l = 1 .. m + n
      /\ \A i \in 1 .. m : l[i] = array[to][i]
      /\ \A i \in m + 1 .. m + n : l[i] = array[v][i - m] /\ i - m \in 1 .. n
    <2> DEFINE s == array[to]
               t == array[v]
    <2>1. s \in Seq(Vector) /\ t \in Seq(Vector) /\ l = s \o t /\ m = Len(s) /\ n = Len(t)
        BY <1>3
    <2> HIDE DEF s, t, l, m, n
    <2>2. /\ l \in Seq(Vector) /\ Len(l) = m + n /\ DOMAIN l = 1 .. m + n
          /\ \A i \in 1 .. m : l[i] = s[i]
          /\ \A i \in m + 1 .. m + n : l[i] = t[i - m] /\ i - m \in 1 .. n
        BY <2>1, ConcatIs
    <2> QED
        BY <2>2 DEF s, t
<1> HIDE DEF l, m, n
<1>5. /\ array' \in [Buffer -> Seq(Vector)] /\ array'[v] = << >> /\ array'[to] = l
      /\ \A w \in Buffer \ {v, to} : array'[w] = array[w]
    <2>1. array' = [array EXCEPT ![to] = l, ![v] = << >>] /\ array \in [Buffer -> Seq(Vector)]
        BY <1>2, Types DEF l
    <2>2. << >> \in Seq(Vector)
        OBVIOUS
    <2> QED
        BY <1>1, <1>4, <2>1, <2>2
<1>6. ASSUME NEW w \in Buffer, NEW i \in DOMAIN array'[w]
      PROVE  \/ w # v /\ \E j \in DOMAIN array[w] : array'[w][i] = array[w][j]
             \/ w = to /\ \E j \in DOMAIN array[v] : array'[w][i] = array[v][j]
    <2>1. CASE w = v
        BY <1>5, <2>1
    <2>2. CASE w \notin {v, to}
        BY <1>5, <2>2
    <2>3. CASE w = to
        <3>1. i \in 1 .. m \/ i \in m + 1 .. m + n
            BY <1>3, <1>4, <1>5, <2>3
        <3>2. CASE i \in 1 .. m
            BY <1>1, <1>3, <1>4, <1>5, <2>3, <3>2
        <3>3. CASE i \in m + 1 .. m + n
            BY <1>3, <1>4, <1>5, <2>3, <3>3
        <3> QED
            BY <3>1, <3>2, <3>3
    <2> QED
        BY <2>1, <2>2, <2>3
<1> QED
    BY <1>4, <1>5, <1>6 DEF v, to, l, m, n

LEMMA LinkInv ==
    ASSUME VrefbufferConstants, Parts, Link
    PROVE  Parts'
<1> DEFINE v == call.from
           to == call.to
           c  == call.empty
           larger == free[to] < free[v]
<1> TypeOK /\ RoomInChunk /\ RoomUnseen /\ VectorsHeld /\ Listed /\ VectorsFit /\ NoTemporary /\ HeadHolds
    BY DEF Parts
<1>1. /\ v \in Buffer /\ to \in Buffer /\ v # to /\ c \in Chunk /\ Exists(v) /\ Exists(to)
      /\ c \in DOMAIN mem /\ Len(mem[c]) = ChunkSize[v] /\ ChunkSize[to] <= ChunkSize[v]
      /\ InHand = {c} /\ Len(array[v]) + Len(array[to]) <= end[to]
      /\ \A w \in Buffer : c \notin Elements(chunks[w])
    BY CallInHand DEF Link
<1>2. end' = end /\ mem' = mem /\ call' = NoCall
    BY DEF Link
<1>3. /\ free' = [free EXCEPT ![to] = IF larger THEN free[v] ELSE free[to], ![v] = ChunkSize[v]]
      /\ ptr' = [ptr EXCEPT ![to] = IF larger THEN ptr[v] ELSE ptr[to], ![v] = AtStart(c)]
    BY <1>1, Types DEF Link
<1>4. /\ chunks' \in [Buffer -> Seq(Chunk)] /\ Elements(chunks'[v]) = {c}
      /\ chunks'[v] # << >> /\ chunks'[v][1] = c
      /\ chunks'[to] # << >> /\ chunks'[to][1] = chunks[v][1]
      /\ Elements(chunks'[to]) = Elements(chunks[v]) \cup Elements(chunks[to])
      /\ \A w \in Buffer \ {v, to} : chunks'[w] = chunks[w]
      /\ \A w \in Buffer : Once(chunks'[w])
    BY LinkChunks
<1>5. /\ array' \in [Buffer -> Seq(Vector)] /\ array'[v] = << >>
      /\ Len(array'[to]) = Len(array[to]) + Len(array[v])
      /\ \A w \in Buffer \ {v, to} : array'[w] = array[w]
      /\ \A w \in Buffer : \A i \in DOMAIN array'[w] :
            \/ w # v /\ \E j \in DOMAIN array[w] : array'[w][i] = array[w][j]
            \/ w = to /\ \E j \in DOMAIN array[v] : array'[w][i] = array[v][j]
    BY LinkVectors
<1> HIDE DEF v, to, c
<1>6. /\ DOMAIN ptr' = Buffer /\ ptr'[v] = [chunk |-> c, at |-> 0]
      /\ free' \in [Buffer -> Nat] /\ free'[v] = ChunkSize[v]
      /\ \A w \in Buffer \ {v, to} : ptr'[w] = ptr[w] /\ free'[w] = free[w]
      /\ \/ ptr'[to] = ptr[v] /\ free'[to] = free[v]
         \/ ptr'[to] = ptr[to] /\ free'[to] = free[to]
    <2>1. ptr'[v] = [chunk |-> c, at |-> 0]
        BY <1>1, <1>3, Types DEF AtStart
    <2> QED
        BY <1>1, <1>3, <2>1, Types, Constants
<1>7. \A w \in Buffer : Exists(w)' <=> Exists(w)
    BY <1>2 DEF Exists
<1>8. TypeOK'
    <2>1. ASSUME NEW w \in Buffer
          PROVE  \/ ptr'[w] = NoPtr /\ ~Exists(w)'
                 \/ ptr'[w] \in [chunk : Chunk, at : Nat] /\ Exists(w)'
        <3>1. ptr[v] \in [chunk : Chunk, at : Nat] /\ ptr[to] \in [chunk : Chunk, at : Nat]
            BY <1>1 DEF TypeOK
        <3>2. CASE w = v
            BY <1>1, <1>6, <1>7, <3>2
        <3>3. CASE w = to
            BY <1>1, <1>6, <1>7, <3>1, <3>3
        <3>4. CASE w \notin {v, to}
            BY <1>6, <1>7, <3>4 DEF TypeOK
        <3> QED
            BY <3>2, <3>3, <3>4
    <2> QED
        BY <1>2, <1>4, <1>5, <1>6, <2>1 DEF TypeOK
<1>9. RoomInChunk'
    <2> SUFFICES ASSUME NEW w \in Buffer, Exists(w)
                 PROVE  /\ ptr'[w].chunk \in Elements(chunks'[w])
                        /\ ptr'[w].at + free'[w] <= Len(mem[ptr'[w].chunk])
        BY <1>2, <1>7 DEF RoomInChunk
    <2>1. CASE w = v
        BY <1>1, <1>4, <1>6, <2>1, Constants
    <2>2. CASE w = to
        BY <1>1, <1>4, <1>6, <2>2 DEF RoomInChunk
    <2>3. CASE w \notin {v, to}
        BY <1>4, <1>6, <2>3 DEF RoomInChunk
    <2> QED
        BY <2>1, <2>2, <2>3
<1>10. ASSUME NEW w \in Buffer, NEW i \in DOMAIN array'[w]
       PROVE  /\ w # v
              /\ \E o \in Buffer : /\ o = w \/ (o = v /\ w = to)
                                   /\ \E j \in DOMAIN array[o] : array'[w][i] = array[o][j]
    BY <1>1, <1>5
<1>11. RoomUnseen'
    <2> SUFFICES ASSUME NEW u \in Buffer, NEW w \in Buffer, Exists(u), NEW i \in DOMAIN array'[w],
                        array'[w][i].block = ptr'[u].chunk
                 PROVE  \/ array'[w][i].at + array'[w][i].len <= ptr'[u].at
                        \/ ptr'[u].at + free'[u] <= array'[w][i].at
        BY <1>7 DEF RoomUnseen
    <2>o. PICK o \in Buffer : \E j \in DOMAIN array[o] : array'[w][i] = array[o][j]
        BY <1>10
    <2>1. PICK j \in DOMAIN array[o] : array'[w][i] = array[o][j]
        BY <2>o
    <2>2. array[o][j].block \in Elements(chunks[o]) \cup Data
        BY DEF VectorsHeld
    <2>3. u # v
        BY <1>1, <1>6, <2>1, <2>2, Constants
    <2>4. \E x \in Buffer : Exists(x) /\ ptr'[u] = ptr[x] /\ free'[u] = free[x]
        BY <1>1, <1>6, <2>3
    <2> QED
        BY <2>1, <2>4 DEF RoomUnseen
<1>12. VectorsHeld'
    <2> SUFFICES ASSUME NEW w \in Buffer, NEW i \in DOMAIN array'[w]
                 PROVE  array'[w][i].block \in Elements(chunks'[w]) \cup Data
        BY DEF VectorsHeld
    <2>1. PICK o \in Buffer : /\ o = w \/ (o = v /\ w = to)
                              /\ \E j \in DOMAIN array[o] : array'[w][i] = array[o][j]
        BY <1>10
    <2>2. array'[w][i].block \in Elements(chunks[o]) \cup Data
        BY <2>1 DEF VectorsHeld
    <2>3. Elements(chunks[o]) \subseteq Elements(chunks'[w])
        <3>1. w # v
            BY <1>10
        <3> QED
            BY <1>4, <2>1, <3>1
    <2> QED
        BY <2>2, <2>3
<1>13. Listed'
    <2>1. InHand' = {}
        BY <1>2 DEF InHand
    <2>2. \A b : (\E w \in Buffer : b \in Elements(chunks'[w]))
                 <=> (\E w \in Buffer : b \in Elements(chunks[w])) \/ b = c
        <3>1. ASSUME NEW w \in Buffer, NEW b \in Elements(chunks'[w])
              PROVE  (\E x \in Buffer : b \in Elements(chunks[x])) \/ b = c
            BY <1>1, <1>4, <3>1
        <3>2. ASSUME NEW w \in Buffer, NEW b \in Elements(chunks[w])
              PROVE  \E x \in Buffer : b \in Elements(chunks'[x])
            BY <1>1, <1>4, <3>2
        <3>3. \E x \in Buffer : c \in Elements(chunks'[x])
            BY <1>1, <1>4
        <3> QED
            BY <3>1, <3>2, <3>3
    <2>3. \A b : b \in DOMAIN mem' <=> (\E w \in Buffer : b \in Elements(chunks'[w]))
        BY <1>1, <1>2, <2>2 DEF Listed
    <2>4. \A w, u \in Buffer : \A b \in Elements(chunks'[w]) : b \in Elements(chunks'[u]) => w = u
        <3> SUFFICES ASSUME NEW w \in Buffer, NEW u \in Buffer, NEW b \in Elements(chunks'[w]),
                            b \in Elements(chunks'[u])
                     PROVE  w = u
            OBVIOUS
        <3>1. CASE b = c
            <4>1. \A x \in Buffer : c \in Elements(chunks'[x]) => x = v
                BY <1>1, <1>4
            <4> QED
                BY <3>1, <4>1
        <3>2. CASE b # c
            <4>1. PICK x \in Buffer : b \in Elements(chunks[x]) /\ (x = w \/ (x = v /\ w = to))
                BY <1>1, <1>4, <3>2
            <4>2. PICK y \in Buffer : b \in Elements(chunks[y]) /\ (y = u \/ (y = v /\ u = to))
                BY <1>1, <1>4, <3>2
            <4>3. x = y
                BY <4>1, <4>2 DEF Listed
            <4>4. w # v /\ u # v
                BY <1>4, <3>2
            <4> QED
                BY <4>1, <4>2, <4>3, <4>4
        <3> QED
            BY <3>1, <3>2
    <2> QED
        BY <1>4, <2>1, <2>3, <2>4 DEF Listed
<1>14. VectorsFit'
    <2> SUFFICES ASSUME NEW w \in Buffer PROVE Len(array'[w]) <= end[w]
        BY <1>2 DEF VectorsFit
    <2>1. CASE w = v
        <3>1. Len(array'[v]) = 0 /\ end[v] \in Nat
            BY <1>1, <1>5, Types
        <3> QED
            BY <2>1, <3>1
    <2>2. CASE w = to
        <3> DEFINE x == Len(array[to])
                   y == Len(array[v])
        <3>1. x \in Nat /\ y \in Nat /\ y + x <= end[to] /\ Len(array'[to]) = x + y /\ end[to] \in Nat
            BY <1>1, <1>5, Types
        <3> HIDE DEF x, y
        <3>2. x + y = y + x
            BY <3>1
        <3> QED
            BY <2>2, <3>1, <3>2
    <2>3. CASE w \notin {v, to}
        BY <1>5, <2>3 DEF VectorsFit
    <2> QED
        BY <2>1, <2>2, <2>3
<1>15. NoTemporary' /\ CallInv'
    <2>1. NoTemporary'
        BY <1>10 DEF NoTemporary
    <2> QED
        BY <1>2, <2>1 DEF CallInv
<1>16. HeadHolds'
    <2> SUFFICES ASSUME NEW w \in Buffer
                 PROVE  IF Exists(w) THEN chunks'[w] # << >> /\ ChunkSize[w] <= Len(mem[chunks'[w][1]])
                                     ELSE chunks'[w] = << >>
        BY <1>2, <1>7 DEF HeadHolds
    <2>1. CASE w = v
        BY <1>1, <1>4, <2>1, Constants
    <2>2. CASE w = to
        <3>1. /\ chunks[v] # << >> /\ ChunkSize[v] <= Len(mem[chunks[v][1]])
              /\ chunks[v][1] \in DOMAIN mem
            BY <1>1, ListedAllocated DEF HeadHolds
        <3>2. Len(mem[chunks[v][1]]) \in Nat /\ ChunkSize[v] \in Nat /\ ChunkSize[to] \in Nat
            BY <1>1, <3>1, Types, Constants
        <3>3. ChunkSize[to] <= Len(mem[chunks[v][1]])
            BY <1>1, <3>1, <3>2
        <3> QED
            BY <1>1, <1>4, <2>2, <3>3
    <2>3. CASE w \notin {v, to}
        BY <1>4, <2>3 DEF HeadHolds
    <2> QED
        BY <2>1, <2>2, <2>3
<1> QED
    BY <1>8, <1>9, <1>11, <1>12, <1>13, <1>14, <1>15, <1>16 DEF Parts
-----------------------------------------------------------------------------
(* The invariant *)

LEMMA InitParts == ASSUME VrefbufferConstants, Init PROVE Parts
<1>1. /\ array = [v \in Buffer |-> << >>] /\ end = [v \in Buffer |-> 0]
      /\ chunks = [v \in Buffer |-> << >>] /\ free = [v \in Buffer |-> 0]
      /\ ptr = [v \in Buffer |-> NoPtr] /\ mem = << >> /\ call = NoCall
    BY DEF Init
<1>2. \A v \in Buffer : /\ array[v] = << >> /\ end[v] = 0 /\ chunks[v] = << >>
                        /\ ptr[v] = NoPtr /\ ~Exists(v)
    BY <1>1 DEF Exists
<1>3. << >> \in Seq(Vector) /\ << >> \in Seq(Chunk) /\ DOMAIN << >> = {} /\ Len(<< >>) = 0
    OBVIOUS
<1>4. DOMAIN mem = {}
    BY <1>1, <1>3
<1>5. TypeOK
    BY <1>1, <1>2, <1>3, <1>4 DEF TypeOK
<1>6. RoomInChunk /\ RoomUnseen /\ HeadHolds
    BY <1>2 DEF RoomInChunk, RoomUnseen, HeadHolds
<1>7. VectorsHeld /\ NoTemporary /\ VectorsFit
    BY <1>2, <1>3 DEF VectorsHeld, NoTemporary, VectorsFit
<1>8. Listed
    <2>1. InHand = {}
        BY <1>1 DEF InHand
    <2>2. \A v \in Buffer : Elements(chunks[v]) = {} /\ Once(chunks[v])
        BY <1>2, ElementsEmpty
    <2> QED
        BY <1>4, <2>1, <2>2 DEF Listed
<1> QED
    BY <1>1, <1>5, <1>6, <1>7, <1>8 DEF Parts, CallInv

\* What a packer writes from its stack is shorter than ref_size, so write copies it.
LEMMA WriteInv ==
    ASSUME VrefbufferConstants, Parts, NEW v \in Buffer, NEW d \in Data, Write(v, d)
    PROVE  Parts'
<1>1. CASE Len(d.bytes) < ref_size(v)
    <2>1. Append_Copy(v, d)
        BY <1>1 DEF Write
    <2> QED
        BY <2>1, CopyInv
<1>2. CASE ~(Len(d.bytes) < ref_size(v))
    <2>1. Append_Ref(v, d)
        BY <1>2 DEF Write
    <2>2. Len(d.bytes) > PACKER_MAX
        BY <1>2, Constants DEF ref_size
    <2>3. d \in String
        BY <2>2, Constants DEF Data
    <2> QED
        BY <2>1, <2>3, RefInv
<1> QED
    BY <1>1, <1>2

LEMMA SameInv ==
    ASSUME Parts, UNCHANGED vars
    PROVE  Parts'
<1>1. /\ array' = array /\ end' = end /\ chunks' = chunks /\ free' = free /\ ptr' = ptr
      /\ mem' = mem /\ call' = call
    BY DEF vars
<1>2. TypeOK' /\ RoomInChunk' /\ RoomUnseen' /\ VectorsHeld' /\ VectorsFit' /\ NoTemporary'
    BY <1>1 DEF Parts, TypeOK, RoomInChunk, RoomUnseen, VectorsHeld, VectorsFit, NoTemporary,
                Exists
<1>3. Listed'
    BY <1>1 DEF Parts, Listed, InHand
<1>4. HeadHolds' /\ CallInv'
    BY <1>1 DEF Parts, HeadHolds, CallInv, Exists
<1> QED
    BY <1>2, <1>3, <1>4 DEF Parts

LEMMA NextInv == ASSUME VrefbufferConstants, Parts, [Next]_vars PROVE Parts'
<1>1. ASSUME NEW v \in Buffer, New(v) \/ Destroy(v) \/ Clear(v) PROVE Parts'
    BY <1>1, NewInv, DestroyInv, ClearInv
<1>2. ASSUME NEW v \in Buffer, NEW d \in Data, Write(v, d) \/ Append_Copy(v, d) \/ Append_CopyFails(v, d)
      PROVE  Parts'
    BY <1>2, WriteInv, CopyInv, CopyFailsInv
<1>3. ASSUME NEW v \in Buffer, NEW d \in String, Append_Ref(v, d) PROVE Parts'
    BY <1>3, RefInv
<1>4. ASSUME NEW v \in Buffer, NEW to \in Buffer, Migrate(v, to) PROVE Parts'
    BY <1>4, MigrateInv
<1>5. CASE Grow \/ Realloc \/ ReallocFails \/ Link
    BY <1>5, GrowInv, ReallocInv, ReallocFailsInv, LinkInv
<1>6. CASE UNCHANGED vars
    BY <1>6, SameInv, SMTT(30)
<1> QED
    BY <1>1, <1>2, <1>3, <1>4, <1>5, <1>6 DEF Next
-----------------------------------------------------------------------------
(* What lists of vectors spell *)

\* The pieces that a list of vectors shows.
Shown(m, s) == [i \in 1 .. Len(s) |-> Bytes(m, s[i])]
Readable(m, s) == \A i \in 1 .. Len(s) : Bytes(m, s[i]) \in Seq(Cell)

\* The first l vectors of t show in n what those of s show in m.
SameUpTo(m, s, n, t, l) == \A i \in 1 .. l : Bytes(n, t[i]) = Bytes(m, s[i])

LEMMA SpellIs ==
    ASSUME NEW m, NEW s \in Seq(Vector)
    PROVE  /\ Len(s) \in Nat
           /\ \E f : Joined(f, Shown(m, s), Len(s)) /\ Spell(m, s) = f[Len(s)]
<1> DEFINE n == Len(s)
           g == Shown(m, s)
           IsUp(f) == f = [i \in 0 .. n |-> IF i = 0 THEN << >> ELSE f[i - 1] \o Bytes(m, s[i])]
           up == CHOOSE f : IsUp(f)
<1>1. n \in Nat
    OBVIOUS
<1>2. \A f : Joined(f, g, n) <=> IsUp(f)
    <2> SUFFICES ASSUME NEW f PROVE Joined(f, g, n) <=> IsUp(f)
        OBVIOUS
    <2>1. \A i \in 0 .. n : i # 0 => g[i] = Bytes(m, s[i])
        BY <1>1 DEF Shown
    <2>2. [i \in 0 .. n |-> IF i = 0 THEN << >> ELSE f[i - 1] \o g[i]]
          = [i \in 0 .. n |-> IF i = 0 THEN << >> ELSE f[i - 1] \o Bytes(m, s[i])]
        <3> HIDE DEF g, n
        <3> QED
            BY <2>1
    <2> QED
        BY <2>2 DEF Joined
<1>3. \E f : Joined(f, g, n)
    BY <1>1, JoinedExists
<1>4. IsUp(up)
    <2> HIDE DEF IsUp
    <2> QED
        BY <1>2, <1>3
<1>5. Spell(m, s) = up[n]
    BY Zenon DEF Spell
<1> QED
    BY <1>1, <1>2, <1>4, <1>5

LEMMA SpellEmpty == \A m : Spell(m, << >>) = << >>
<1> SUFFICES ASSUME NEW m PROVE Spell(m, << >>) = << >>
    OBVIOUS
<1>1. << >> \in Seq(Vector) /\ Len(<< >>) = 0
    OBVIOUS
<1>2. PICK f : Joined(f, Shown(m, << >>), 0) /\ Spell(m, << >>) = f[0]
    BY <1>1, SpellIs
<1> QED
    BY <1>2, JoinedIs

\* Vectors that show the same spell the same.
LEMMA SpellSame ==
    ASSUME NEW m, NEW n, NEW s \in Seq(Vector), NEW t \in Seq(Vector), Len(t) = Len(s),
           SameUpTo(m, s, n, t, Len(s))
    PROVE  Spell(n, t) = Spell(m, s)
<1>1. PICK f : Joined(f, Shown(m, s), Len(s)) /\ Spell(m, s) = f[Len(s)]
    BY SpellIs
<1>2. PICK h : Joined(h, Shown(n, t), Len(t)) /\ Spell(n, t) = h[Len(t)]
    BY SpellIs
<1>3. \A i \in 1 .. Len(s) : Shown(m, s)[i] = Shown(n, t)[i]
    BY DEF Shown, SameUpTo
<1>4. f[Len(s)] = h[Len(s)]
    BY <1>1, <1>2, <1>3, JoinedSame
<1> QED
    BY <1>1, <1>2, <1>4

LEMMA SpellSeq ==
    ASSUME NEW m, NEW s \in Seq(Vector), Readable(m, s)
    PROVE  Spell(m, s) \in Seq(Cell)
<1>1. PICK f : Joined(f, Shown(m, s), Len(s)) /\ Spell(m, s) = f[Len(s)]
    BY SpellIs
<1>2. AreSeqs(Shown(m, s), Len(s), Cell)
    BY DEF AreSeqs, Shown, Readable
<1>3. f[Len(s)] \in Seq(Cell)
    BY <1>1, <1>2, JoinedSeq
<1> QED
    BY <1>1, <1>3

\* One more vector that shows bytes.
LEMMA SpellMore ==
    ASSUME NEW m, NEW n, NEW s \in Seq(Vector), NEW t \in Seq(Vector), Len(t) = Len(s) + 1,
           SameUpTo(m, s, n, t, Len(s))
    PROVE  Spell(n, t) = Spell(m, s) \o Bytes(n, t[Len(t)])
<1>1. PICK f : Joined(f, Shown(m, s), Len(s)) /\ Spell(m, s) = f[Len(s)]
    BY SpellIs
<1>2. PICK h : Joined(h, Shown(n, t), Len(t)) /\ Spell(n, t) = h[Len(t)]
    BY SpellIs
<1>3. \A i \in 1 .. Len(s) : Shown(m, s)[i] = Shown(n, t)[i]
    BY DEF Shown, SameUpTo
<1>4. f[Len(s)] = h[Len(s)]
    BY <1>1, <1>2, <1>3, JoinedSame
<1>5. Len(t) \in Nat /\ Len(t) \in 1 .. Len(t) /\ Len(t) - 1 = Len(s)
    OBVIOUS
<1>6. h[Len(t)] = h[Len(s)] \o Shown(n, t)[Len(t)]
    <2>1. \A i \in 1 .. Len(t) : h[i] = h[i - 1] \o Shown(n, t)[i]
        BY <1>2, <1>5, JoinedIs
    <2>2. h[Len(t)] = h[Len(t) - 1] \o Shown(n, t)[Len(t)]
        BY <1>5, <2>1
    <2> QED
        BY <1>5, <2>2
<1>7. Shown(n, t)[Len(t)] = Bytes(n, t[Len(t)])
    BY <1>5 DEF Shown
<1> QED
    BY <1>1, <1>2, <1>4, <1>6, <1>7

Longer(m, s, n, t, bytes) ==
    /\ s \in Seq(Vector) /\ t \in Seq(Vector) /\ Len(t) = Len(s) /\ Len(s) # 0
    /\ Readable(m, s) /\ SameUpTo(m, s, n, t, Len(s) - 1)
    /\ bytes \in Seq(Cell) /\ Bytes(n, t[Len(s)]) = Bytes(m, s[Len(s)]) \o bytes

\* The last vector shows bytes behind those it has shown.
LEMMA SpellLonger ==
    ASSUME NEW m, NEW n, NEW s, NEW t, NEW bytes, Longer(m, s, n, t, bytes)
    PROVE  Spell(n, t) = Spell(m, s) \o bytes
<1> USE DEF Longer
<1> DEFINE l == Len(s)
<1>1. PICK f : Joined(f, Shown(m, s), l) /\ Spell(m, s) = f[l]
    BY SpellIs
<1>2. PICK h : Joined(h, Shown(n, t), l) /\ Spell(n, t) = h[l]
    BY SpellIs
<1>3. l \in Nat /\ l \in 1 .. l /\ l - 1 \in Nat /\ l - 1 \in 0 .. l
    OBVIOUS
<1>4. \A i \in 1 .. l - 1 : Shown(m, s)[i] = Shown(n, t)[i]
    BY DEF Shown, SameUpTo
<1>5. f[l - 1] = h[l - 1]
    BY <1>1, <1>2, <1>3, <1>4, JoinedSame
<1>6. /\ f[l] = f[l - 1] \o Bytes(m, s[l])
      /\ h[l] = h[l - 1] \o Bytes(n, t[l])
    <2>1. Shown(m, s)[l] = Bytes(m, s[l]) /\ Shown(n, t)[l] = Bytes(n, t[l])
        BY <1>3 DEF Shown
    <2>2. f[l] = f[l - 1] \o Shown(m, s)[l]
        BY <1>1, <1>3, JoinedIs
    <2>3. h[l] = h[l - 1] \o Shown(n, t)[l]
        BY <1>2, <1>3, JoinedIs, ZenonT(60)
    <2> QED
        BY <2>1, <2>2, <2>3
<1>7. f[l - 1] \in Seq(Cell)
    <2>1. AreSeqs(Shown(m, s), l, Cell)
        BY DEF AreSeqs, Shown, Readable
    <2> QED
        BY <1>1, <1>3, <2>1, JoinedSeq
<1>8. Bytes(m, s[l]) \in Seq(Cell)
    BY <1>3 DEF Readable
<1>9. (f[l - 1] \o Bytes(m, s[l])) \o bytes = f[l - 1] \o (Bytes(m, s[l]) \o bytes)
    <2>1. Associative(Cell)
        BY ConcatIsAssociative
    <2> HIDE DEF l
    <2> QED
        BY <1>7, <1>8, <2>1, Zenon DEF Associative
<1> QED
    BY <1>1, <1>2, <1>5, <1>6, <1>9

\* One list of vectors behind another.
LEMMA SpellConcat ==
    ASSUME NEW m, NEW s \in Seq(Vector), NEW t \in Seq(Vector),
           Readable(m, s), Readable(m, t)
    PROVE  Spell(m, s \o t) = Spell(m, s) \o Spell(m, t)
<1> DEFINE a == Len(s)
           b == Len(t)
           u == s \o t
<1>1. PICK f : Joined(f, Shown(m, s), a) /\ Spell(m, s) = f[a]
    BY SpellIs
<1>2. PICK h : Joined(h, Shown(m, t), b) /\ Spell(m, t) = h[b]
    BY SpellIs
<1>3. /\ u \in Seq(Vector) /\ a \in Nat /\ b \in Nat /\ Len(u) = a + b
      /\ \A i \in 1 .. a : u[i] = s[i]
      /\ \A i \in a + 1 .. a + b : u[i] = t[i - a] /\ i - a \in 1 .. b
    BY ConcatIs
<1> HIDE DEF u
<1>4. PICK e : Joined(e, Shown(m, u), a + b) /\ Spell(m, u) = e[a + b]
    BY <1>3, SpellIs
<1> HIDE DEF a, b
<1>5. AreSeqs(Shown(m, t), b, Cell) /\ AreSeqs(Shown(m, s), a, Cell)
    BY DEF AreSeqs, Shown, Readable, a, b
<1>6. f[a] \in Seq(Cell)
    BY <1>1, <1>3, <1>5, JoinedSeq
<1>7. \A i \in 1 .. a : Shown(m, u)[i] = Shown(m, s)[i]
    <2> SUFFICES ASSUME NEW i \in 1 .. a PROVE Shown(m, u)[i] = Shown(m, s)[i]
        OBVIOUS
    <2>1. i \in 1 .. a + b
        BY <1>3
    <2>2. Shown(m, u)[i] = Bytes(m, u[i]) /\ Shown(m, s)[i] = Bytes(m, s[i])
        BY <1>3, <2>1 DEF Shown, a
    <2> QED
        BY <1>3, <2>2
<1>8. e[a] = f[a]
    <2>1. a + b \in Nat /\ a <= a + b
        BY <1>3
    <2> QED
        BY <1>1, <1>3, <1>4, <1>7, <2>1, JoinedSame
<1>9. Behind(Shown(m, u), a, Shown(m, t), b)
    <2> SUFFICES ASSUME NEW i \in 1 .. b PROVE Shown(m, u)[a + i] = Shown(m, t)[i]
        BY DEF Behind
    <2>1. a + i \in a + 1 .. a + b /\ (a + i) - a = i /\ a + i \in 1 .. a + b
        BY <1>3
    <2>2. Shown(m, u)[a + i] = Bytes(m, u[a + i]) /\ Shown(m, t)[i] = Bytes(m, t[i])
        BY <1>3, <2>1 DEF Shown, b
    <2>3. u[a + i] = t[i]
        BY <1>3, <2>1
    <2> QED
        BY <2>2, <2>3
<1>10. e[a + b] = Spell(m, s) \o h[b]
    <2> DEFINE x == Shown(m, t)
               y == Shown(m, u)
               p == Spell(m, s)
    <2>1. /\ Joined(h, x, b) /\ Joined(e, y, a + b) /\ AreSeqs(x, b, Cell) /\ Behind(y, a, x, b)
          /\ a \in Nat /\ b \in Nat /\ e[a] = p /\ p \in Seq(Cell)
        BY <1>1, <1>2, <1>3, <1>4, <1>5, <1>6, <1>8, <1>9
    <2> HIDE DEF x, y, p
    <2>2. e[a + b] = p \o h[b]
        BY <2>1, JoinedConcat
    <2> QED
        BY <2>2 DEF p
<1> QED
    BY <1>2, <1>4, <1>10 DEF u
-----------------------------------------------------------------------------
(* What a vector shows while memory changes *)

\* A vector into a block that is there and that does not end before it.
Good(m, x) == /\ x \in Vector /\ x.block \in Data \cup DOMAIN m
              /\ x.at + x.len <= Len(Block(m, x))

LEMMA SubSeqIs ==
    ASSUME NEW S, NEW s \in Seq(S), NEW a \in Nat, NEW l \in Nat, a + l <= Len(s)
    PROVE  /\ SubSeq(s, a + 1, a + l) \in Seq(S) /\ Len(SubSeq(s, a + 1, a + l)) = l
           /\ \A i \in 1 .. l : SubSeq(s, a + 1, a + l)[i] = s[a + i]
OBVIOUS

LEMMA SameSeq ==
    ASSUME NEW S, NEW s \in Seq(S), NEW t \in Seq(S), Len(s) = Len(t),
           \A i \in 1 .. Len(s) : s[i] = t[i]
    PROVE  s = t
BY SeqEqual

LEMMA BytesIs ==
    ASSUME VrefbufferConstants, NEW m, MemoryOK(m), NEW x, Good(m, x)
    PROVE  /\ Block(m, x) \in Seq(Cell) /\ Len(Block(m, x)) \in Nat
           /\ x.at \in Nat /\ x.len \in Nat
           /\ Bytes(m, x) \in Seq(Cell) /\ Len(Bytes(m, x)) = x.len
           /\ \A i \in 1 .. x.len : Bytes(m, x)[i] = Block(m, x)[x.at + i]
<1> DEFINE s == Block(m, x)
           a == x.at
           l == x.len
<1>1. s \in Seq(Cell)
    <2>1. CASE x.block \in Data
        <3>1. x.block.bytes \in Seq(Char)
            BY <2>1, Constants
        <3> QED
            BY <2>1, <3>1 DEF Block, Cell
    <2>2. CASE x.block \notin Data
        BY <2>2 DEF Good, MemoryOK, Block
    <2> QED
        BY <2>1, <2>2
<1>2. a \in Nat /\ l \in Nat /\ a + l <= Len(s)
    BY DEF Good, Vector
<1>3. Bytes(m, x) = SubSeq(s, a + 1, a + l)
    BY DEF Bytes
<1> HIDE DEF s, a, l
<1>4. /\ Bytes(m, x) \in Seq(Cell) /\ Len(Bytes(m, x)) = l
      /\ \A i \in 1 .. l : Bytes(m, x)[i] = s[a + i]
    <2>1. /\ SubSeq(s, a + 1, a + l) \in Seq(Cell) /\ Len(SubSeq(s, a + 1, a + l)) = l
          /\ \A i \in 1 .. l : SubSeq(s, a + 1, a + l)[i] = s[a + i]
        BY <1>1, <1>2, SubSeqIs
    <2> QED
        BY <1>3, <2>1
<1>5. Len(s) \in Nat
    BY <1>1
<1> QED
    BY <1>1, <1>2, <1>4, <1>5 DEF s, a, l

\* Where a block shows the same bytes, so does a vector into it.
LEMMA BytesSame ==
    ASSUME VrefbufferConstants, NEW m, MemoryOK(m), NEW n, MemoryOK(n), NEW x, Good(m, x), Good(n, x),
           \A i \in 1 .. x.len : Block(n, x)[x.at + i] = Block(m, x)[x.at + i]
    PROVE  Bytes(n, x) = Bytes(m, x)
<1>1. /\ Bytes(m, x) \in Seq(Cell) /\ Len(Bytes(m, x)) = x.len
      /\ \A i \in 1 .. x.len : Bytes(m, x)[i] = Block(m, x)[x.at + i]
    BY BytesIs
<1>2. /\ Bytes(n, x) \in Seq(Cell) /\ Len(Bytes(n, x)) = x.len
      /\ \A i \in 1 .. x.len : Bytes(n, x)[i] = Block(n, x)[x.at + i]
    BY BytesIs
<1> DEFINE s == Bytes(m, x)
           t == Bytes(n, x)
<1>3. s \in Seq(Cell) /\ t \in Seq(Cell) /\ Len(t) = Len(s) /\ \A i \in 1 .. Len(t) : t[i] = s[i]
    BY <1>1, <1>2
<1> HIDE DEF s, t
<1>4. t = s
    BY <1>3, SameSeq
<1> QED
    BY <1>4 DEF s, t

\* A block that is left alone shows what it has shown.
LEMMA BlockSame ==
    ASSUME NEW m, NEW n, NEW x, Good(m, x),
           x.block \notin Data => x.block \in DOMAIN n /\ n[x.block] = m[x.block]
    PROVE  Good(n, x) /\ Bytes(n, x) = Bytes(m, x)
<1>1. Block(n, x) = Block(m, x)
    BY DEF Block, Good
<1> QED
    BY <1>1 DEF Good, Bytes

\* The memcpy of append_copy: what is written, and what it is written next to.
LEMMA MemcpyBytes ==
    ASSUME VrefbufferConstants, NEW m, MemoryOK(m), NEW p, p.chunk \in DOMAIN m, p.at \in Nat,
           p.chunk \notin Data, NEW bytes \in Seq(Char), p.at + Len(bytes) <= Len(m[p.chunk])
    PROVE  LET n == Memcpy(m, p, bytes)
               l == Len(bytes)
           IN  /\ MemoryOK(n)
               /\ \A x : Good(m, x) /\ (x.block = p.chunk => x.at + x.len <= p.at
                                                              \/ p.at + l <= x.at)
                         => Good(n, x) /\ Bytes(n, x) = Bytes(m, x)
               /\ \A x \in Vector : x.block = p.chunk /\ x.at = p.at /\ x.len = l
                                    => Good(n, x) /\ Bytes(n, x) = bytes
               /\ \A y : \A x \in Vector :
                     /\ Good(m, y) /\ y.block = p.chunk /\ y.at + y.len = p.at
                     /\ x.block = p.chunk /\ x.at = y.at /\ x.len = y.len + l
                     => Good(n, x) /\ Bytes(n, x) = Bytes(m, y) \o bytes
<1> DEFINE n == Memcpy(m, p, bytes)
           l == Len(bytes)
           c == p.chunk
           at == p.at
<1>1. l \in Nat /\ at \in Nat /\ c \in DOMAIN m /\ c \notin Data /\ at + l <= Len(m[c])
      /\ m[c] \in Seq(Cell) /\ Len(m[c]) \in Nat
    BY DEF MemoryOK
<1>2. /\ DOMAIN n = DOMAIN m
      /\ \A b \in DOMAIN m : /\ n[b] \in Seq(Cell)
                             /\ Len(n[b]) = Len(m[b])
                             /\ b # c => n[b] = m[b]
      /\ \A i \in 1 .. Len(m[c]) :
            n[c][i] = IF i \in at + 1 .. at + l THEN bytes[i - at] ELSE m[c][i]
    <2>1. Overwritten(m, p, bytes, Memcpy(m, p, bytes))
        BY MemcpyIs
    <2>2. Overwritten(m, p, bytes, n)
        BY <2>1
    <2> HIDE DEF n
    <2> QED
        BY <2>2 DEF Overwritten
<1> HIDE DEF n, l, c, at
<1>3. MemoryOK(n)
    BY <1>2 DEF MemoryOK
<1>4. ASSUME NEW x, Good(m, x), x.block = c => x.at + x.len <= at \/ at + l <= x.at
      PROVE  Good(n, x) /\ Bytes(n, x) = Bytes(m, x)
    <2>1. CASE x.block # c
        <3>1. x.block \notin Data => x.block \in DOMAIN n /\ n[x.block] = m[x.block]
            BY <1>2, <1>4, <2>1 DEF Good
        <3> QED
            BY <1>4, <3>1, BlockSame
    <2>2. CASE x.block = c
        <3>1. Block(m, x) = m[c] /\ Block(n, x) = n[c]
            BY <1>1, <2>2 DEF Block
        <3>2. x.at \in Nat /\ x.len \in Nat /\ x.at + x.len <= Len(m[c])
            BY <1>4, <3>1 DEF Good, Vector
        <3>3. Good(n, x)
            BY <1>1, <1>2, <1>4, <2>2, <3>1, <3>2 DEF Good
        <3>4. \A i \in 1 .. x.len : n[c][x.at + i] = m[c][x.at + i]
            <4> SUFFICES ASSUME NEW i \in 1 .. x.len PROVE n[c][x.at + i] = m[c][x.at + i]
                OBVIOUS
            <4>1. x.at + i \in 1 .. Len(m[c]) /\ x.at + i \notin at + 1 .. at + l
                BY <1>1, <1>4, <2>2, <3>2, SMTT(30)
            <4> QED
                BY <1>2, <4>1
        <3> QED
            BY <1>3, <1>4, <3>1, <3>3, <3>4, BytesSame
    <2> QED
        BY <2>1, <2>2
<1>5. ASSUME NEW x \in Vector, x.block = c, x.at = at, x.len = l
      PROVE  Good(n, x) /\ Bytes(n, x) = bytes
    <2>1. Block(n, x) = n[c] /\ Len(n[c]) = Len(m[c])
        BY <1>1, <1>2, <1>5 DEF Block
    <2>2. Good(n, x)
        BY <1>1, <1>2, <1>5, <2>1 DEF Good
    <2>3. /\ Bytes(n, x) \in Seq(Cell) /\ Len(Bytes(n, x)) = l
          /\ \A i \in 1 .. l : Bytes(n, x)[i] = n[c][at + i]
        BY <1>3, <1>5, <2>1, <2>2, BytesIs
    <2>4. \A i \in 1 .. l : n[c][at + i] = bytes[i]
        <3> SUFFICES ASSUME NEW i \in 1 .. l PROVE n[c][at + i] = bytes[i]
            OBVIOUS
        <3>1. at + i \in 1 .. Len(m[c]) /\ at + i \in at + 1 .. at + l /\ (at + i) - at = i
            BY <1>1
        <3> QED
            BY <1>2, <3>1
    <2>5. bytes \in Seq(Cell) /\ Len(bytes) = l
        BY DEF Cell, l
    <2> DEFINE t == Bytes(n, x)
    <2>6. t \in Seq(Cell) /\ Len(t) = l /\ \A i \in 1 .. l : t[i] = bytes[i]
        BY <2>3, <2>4
    <2> HIDE DEF t
    <2>7. t = bytes
        BY <2>5, <2>6, SameSeq
    <2> QED
        BY <2>2, <2>7 DEF t
<1>6. ASSUME NEW y, NEW x \in Vector, Good(m, y), y.block = c, y.at + y.len = at,
             x.block = c, x.at = y.at, x.len = y.len + l
      PROVE  Good(n, x) /\ Bytes(n, x) = Bytes(m, y) \o bytes
    <2> DEFINE a == y.at
               k == y.len
    <2>1. a \in Nat /\ k \in Nat /\ a + k = at
        BY <1>6 DEF Good, Vector
    <2>2. Block(n, x) = n[c] /\ Len(n[c]) = Len(m[c])
        BY <1>1, <1>2, <1>6 DEF Block
    <2>3. Good(n, x)
        BY <1>1, <1>2, <1>6, <2>1, <2>2 DEF Good
    <2>4. /\ Bytes(n, x) \in Seq(Cell) /\ Len(Bytes(n, x)) = k + l
          /\ \A i \in 1 .. k + l : Bytes(n, x)[i] = n[c][a + i]
        BY <1>3, <1>6, <2>2, <2>3, BytesIs, SMTT(30)
    <2>5. /\ Bytes(m, y) \in Seq(Cell) /\ Len(Bytes(m, y)) = k
          /\ \A i \in 1 .. k : Bytes(m, y)[i] = m[c][a + i]
        <3>1. Block(m, y) = m[c]
            BY <1>1, <1>6 DEF Block
        <3> QED
            BY <1>6, <3>1, BytesIs
    <2>6. bytes \in Seq(Cell) /\ Len(bytes) = l
        BY DEF Cell, l
    <2> DEFINE s == Bytes(m, y)
               t == Bytes(n, x)
               u == s \o bytes
    <2>7. /\ u \in Seq(Cell) /\ Len(u) = k + l
          /\ \A i \in 1 .. k : u[i] = s[i]
          /\ \A i \in k + 1 .. k + l : u[i] = bytes[i - k]
        <3>1. s \in Seq(Cell) /\ Len(s) = k
            BY <2>5
        <3> HIDE DEF s, k
        <3>2. /\ s \o bytes \in Seq(Cell) /\ Len(s \o bytes) = Len(s) + Len(bytes)
              /\ \A i \in 1 .. Len(s) : (s \o bytes)[i] = s[i]
              /\ \A i \in Len(s) + 1 .. Len(s) + Len(bytes) : (s \o bytes)[i] = bytes[i - Len(s)]
            <4>1. s \in Seq(Cell) /\ bytes \in Seq(Cell)
                BY <2>6, <3>1
            <4> QED
                BY <4>1, ConcatIs
        <3> QED
            BY <2>6, <3>1, <3>2
    <2> HIDE DEF a, k, s, t, u
    <2>8. \A i \in 1 .. k + l : t[i] = u[i]
        <3> SUFFICES ASSUME NEW i \in 1 .. k + l PROVE t[i] = u[i]
            OBVIOUS
        <3>1. a + i \in 1 .. Len(m[c])
            BY <1>1, <2>1
        <3>2. CASE i \in 1 .. k
            <4>1. a + i \notin at + 1 .. at + l
                BY <1>1, <2>1, <3>2
            <4>2. t[i] = m[c][a + i]
                BY <1>2, <2>4, <3>1, <4>1 DEF t
            <4> QED
                BY <2>5, <2>7, <3>2, <4>2 DEF s
        <3>3. CASE i \in k + 1 .. k + l
            <4>1. a + i \in at + 1 .. at + l /\ (a + i) - at = i - k
                BY <1>1, <2>1, <3>3
            <4>2. t[i] = bytes[i - k]
                BY <1>2, <2>4, <3>1, <4>1 DEF t
            <4> QED
                BY <2>7, <3>3, <4>2
        <3> QED
            BY <1>1, <2>1, <3>2, <3>3
    <2>9. t = u
        <3>1. t \in Seq(Cell) /\ Len(t) = k + l /\ Len(u) = k + l /\ u \in Seq(Cell)
            BY <2>4, <2>7 DEF t
        <3> QED
            BY <2>8, <3>1, SameSeq
    <2> QED
        BY <2>3, <2>9 DEF s, t, u
<1> QED
    BY <1>3, <1>4, <1>5, <1>6 DEF n, l, c, at
-----------------------------------------------------------------------------
(* What each action makes the buffers show *)

\* The vectors that w has after a step, and what w shows thereby.
GoodAfter(w) == \A i \in 1 .. Len(array'[w]) : Good(mem', array'[w][i])
Kept(w) == GoodAfter(w) /\ Spell(mem', array'[w]) = Spell(mem, array[w])

\* A step of the buffers is one of ByteVectors, or nothing is to be seen.
Shows == (\A w \in Buffer : GoodAfter(w)) /\ (Vectors!Next \/ Content' = Content)

LEMMA ContentIs ==
    /\ Content = [w \in Buffer |-> Spell(mem, array[w])]
    /\ Content' = [w \in Buffer |-> Spell(mem', array'[w])]
BY DEF Content

LEMMA KeptShows == ASSUME \A w \in Buffer : Kept(w) PROVE Shows
BY ContentIs DEF Kept, Shows

LEMMA EmptiedShows ==
    ASSUME NEW v \in Buffer, array'[v] = << >>, \A w \in Buffer \ {v} : Kept(w)
    PROVE  Shows
<1>1. Spell(mem', array'[v]) = << >> /\ GoodAfter(v)
    <2>1. Len(<< >>) = 0
        OBVIOUS
    <2> QED
        BY <2>1, SpellEmpty DEF GoodAfter
<1>2. Content' = [Content EXCEPT ![v] = << >>]
    BY <1>1, ContentIs DEF Kept
<1>3. Vectors!Next
    BY <1>2 DEF Vectors!Next, Vectors!Empty
<1> QED
    BY <1>1, <1>3 DEF Shows, Kept

LEMMA WrittenShows ==
    ASSUME NEW v \in Buffer, NEW d \in Data, GoodAfter(v),
           Spell(mem', array'[v]) = Spell(mem, array[v]) \o d.bytes,
           \A w \in Buffer \ {v} : Kept(w)
    PROVE  Shows
<1>1. Content' = [Content EXCEPT ![v] = Content[v] \o d.bytes]
    BY ContentIs DEF Kept
<1>2. Vectors!Next
    BY <1>1 DEF Vectors!Next, Vectors!Write
<1> QED
    BY <1>2 DEF Shows, Kept

LEMMA VectorsGood ==
    ASSUME VrefbufferConstants, Parts, VectorsInside
    PROVE  /\ MemoryOK(mem)
           /\ \A w \in Buffer : array[w] \in Seq(Vector) /\ Len(array[w]) \in Nat
           /\ \A w \in Buffer : \A i \in 1 .. Len(array[w]) :
                 /\ array[w][i] \in Vector /\ Good(mem, array[w][i])
                 /\ array[w][i].block \in Elements(chunks[w]) \cup Data
           /\ \A w \in Buffer : Readable(mem, array[w])
<1> TypeOK /\ VectorsHeld /\ Listed
    BY DEF Parts
<1>1. MemoryOK(mem)
    BY Types DEF MemoryOK, Cell
<1>2. \A w \in Buffer : /\ array[w] \in Seq(Vector) /\ Len(array[w]) \in Nat
                        /\ DOMAIN array[w] = 1 .. Len(array[w])
    BY Types
<1>3. ASSUME NEW w \in Buffer, NEW i \in 1 .. Len(array[w])
      PROVE  /\ array[w][i] \in Vector /\ Good(mem, array[w][i])
             /\ array[w][i].block \in Elements(chunks[w]) \cup Data
    <2>1. array[w][i].block \in Elements(chunks[w]) \cup Data
        BY <1>2 DEF VectorsHeld
    <2>2. array[w][i].block \in Data \cup DOMAIN mem
        BY <2>1, ListedAllocated
    <2>3. array[w][i].at + array[w][i].len <= Len(Block(mem, array[w][i]))
        BY <1>2 DEF VectorsInside
    <2> QED
        BY <2>1, <2>2, <2>3, Types DEF Good
<1>4. \A w \in Buffer : Readable(mem, array[w])
    BY <1>1, <1>3, BytesIs DEF Readable
<1> QED
    BY <1>1, <1>2, <1>3, <1>4

\* A buffer whose vectors and whose chunks are left alone shows what it has shown.
LEMMA BufferKept ==
    ASSUME VrefbufferConstants, Parts, VectorsInside, NEW w \in Buffer, array'[w] = array[w],
           \A c \in Elements(chunks[w]) : c \in DOMAIN mem' /\ mem'[c] = mem[c]
    PROVE  Kept(w)
<1> DEFINE s == array[w]
<1>1. /\ s \in Seq(Vector) /\ \A i \in 1 .. Len(s) :
            Good(mem, s[i]) /\ s[i].block \in Elements(chunks[w]) \cup Data
    BY VectorsGood
<1> HIDE DEF s
<1>2. ASSUME NEW i \in 1 .. Len(s) PROVE Good(mem', s[i]) /\ Bytes(mem', s[i]) = Bytes(mem, s[i])
    <2>1. s[i].block \notin Data => s[i].block \in DOMAIN mem' /\ mem'[s[i].block] = mem[s[i].block]
        BY <1>1
    <2> QED
        BY <1>1, <2>1, BlockSame
<1>3. Spell(mem', s) = Spell(mem, s)
    BY <1>1, <1>2, SpellSame DEF SameUpTo
<1> QED
    BY <1>2, <1>3 DEF s, Kept, GoodAfter

\* The vectors that there are show what they have shown, and one that begins where append_copy
\* writes, or ends there and is made longer, shows the bytes written as well.
Appended(p, bytes) ==
    /\ \A w \in Buffer : \A i \in 1 .. Len(array[w]) :
          Good(mem', array[w][i]) /\ Bytes(mem', array[w][i]) = Bytes(mem, array[w][i])
    /\ \A x \in Vector : x.block = p.chunk /\ x.at = p.at /\ x.len = Len(bytes)
                         => Good(mem', x) /\ Bytes(mem', x) = bytes
    /\ \A w \in Buffer : \A i \in 1 .. Len(array[w]) : \A x \in Vector :
          /\ array[w][i].block = p.chunk /\ array[w][i].at + array[w][i].len = p.at
          /\ x.block = p.chunk /\ x.at = array[w][i].at
          /\ x.len = array[w][i].len + Len(bytes)
          => Good(mem', x) /\ Bytes(mem', x) = Bytes(mem, array[w][i]) \o bytes

LEMMA TakeRoomBytes ==
    ASSUME VrefbufferConstants, Parts, VectorsInside, NEW v \in Buffer, Exists(v),
           NEW bytes \in Seq(Char), NEW place, PlaceOK(v, Len(bytes), place),
           mem' = Memcpy(place.m, place.p, bytes)
    PROVE  Appended(place.p, bytes)
<1> DEFINE m == place.m
           p == place.p
           l == Len(bytes)
<1> TypeOK /\ RoomUnseen
    BY DEF Parts
<1>1. /\ MemoryOK(m) /\ p.chunk \in DOMAIN m /\ p.at \in Nat /\ place.room \in Nat /\ l \in Nat
      /\ p.chunk \in Chunk /\ l <= place.room /\ p.at + place.room <= Len(m[p.chunk])
      /\ \A b \in DOMAIN mem : b \in DOMAIN m /\ m[b] = mem[b]
      /\ p.chunk \in DOMAIN mem => p = ptr[v] /\ place.room = free[v]
    BY DEF PlaceOK, MemoryOK, Cell
<1>2. p.chunk \notin Data /\ p.at + l <= Len(m[p.chunk])
    <2>1. p.chunk \notin Data
        BY <1>1, Constants
    <2>2. Len(m[p.chunk]) \in Nat
        BY <1>1 DEF MemoryOK
    <2> DEFINE a == p.at
               r == place.room
               k == Len(m[p.chunk])
    <2>3. a \in Nat /\ r \in Nat /\ k \in Nat /\ l \in Nat /\ l <= r /\ a + r <= k
        BY <1>1, <2>2
    <2> HIDE DEF a, r, k, l
    <2>4. a + l <= k
        BY <2>3
    <2> QED
        BY <2>1, <2>4 DEF a, k
<1>3. /\ \A x : Good(m, x) /\ (x.block = p.chunk => x.at + x.len <= p.at \/ p.at + l <= x.at)
                => Good(mem', x) /\ Bytes(mem', x) = Bytes(m, x)
      /\ \A x \in Vector : x.block = p.chunk /\ x.at = p.at /\ x.len = l
                           => Good(mem', x) /\ Bytes(mem', x) = bytes
      /\ \A y : \A x \in Vector :
            /\ Good(m, y) /\ y.block = p.chunk /\ y.at + y.len = p.at
            /\ x.block = p.chunk /\ x.at = y.at /\ x.len = y.len + l
            => Good(mem', x) /\ Bytes(mem', x) = Bytes(m, y) \o bytes
    <2>1. mem' = Memcpy(m, p, bytes)
        OBVIOUS
    <2> HIDE DEF m, p
    <2> QED
        BY <1>1, <1>2, <2>1, MemcpyBytes
<1> HIDE DEF m, p, l
<1>4. ASSUME NEW w \in Buffer, NEW i \in 1 .. Len(array[w])
      PROVE  /\ Good(m, array[w][i]) /\ Bytes(m, array[w][i]) = Bytes(mem, array[w][i])
             /\ array[w][i].block = p.chunk =>
                   array[w][i].at + array[w][i].len <= p.at \/ p.at + l <= array[w][i].at
    <2> DEFINE x == array[w][i]
    <2>1. Good(mem, x)
        BY VectorsGood
    <2>2. x.block \notin Data => x.block \in DOMAIN m /\ m[x.block] = mem[x.block]
        BY <1>1, <2>1 DEF Good
    <2>3. Good(m, x) /\ Bytes(m, x) = Bytes(mem, x)
        <3> HIDE DEF x
        <3> QED
            BY <2>1, <2>2, BlockSame
    <2>4. ASSUME x.block = p.chunk PROVE x.at + x.len <= p.at \/ p.at + l <= x.at
        <3>1. p = ptr[v] /\ place.room = free[v]
            BY <1>1, <1>2, <2>1, <2>4 DEF Good
        <3>2. x.at + x.len <= p.at \/ p.at + place.room <= x.at
            <4>1. i \in DOMAIN array[w]
                BY Types
            <4> QED
                BY <2>4, <3>1, <4>1 DEF RoomUnseen
        <3>3. x.at \in Nat
            BY <2>1 DEF Good, Vector
        <3> QED
            BY <1>1, <3>2, <3>3
    <2> QED
        BY <2>3, <2>4
<1>5. \A w \in Buffer : \A i \in 1 .. Len(array[w]) :
          Good(mem', array[w][i]) /\ Bytes(mem', array[w][i]) = Bytes(mem, array[w][i])
    BY <1>3, <1>4
<1>6. ASSUME NEW w \in Buffer, NEW i \in 1 .. Len(array[w]), NEW x \in Vector,
             array[w][i].block = p.chunk, array[w][i].at + array[w][i].len = p.at,
             x.block = p.chunk, x.at = array[w][i].at, x.len = array[w][i].len + l
      PROVE  Good(mem', x) /\ Bytes(mem', x) = Bytes(mem, array[w][i]) \o bytes
    <2>1. Good(m, array[w][i]) /\ Bytes(m, array[w][i]) = Bytes(mem, array[w][i])
        BY <1>4
    <2>2. Good(mem', x) /\ Bytes(mem', x) = Bytes(m, array[w][i]) \o bytes
        BY <1>3, <1>6, <2>1
    <2> QED
        BY <2>1, <2>2
<1> QED
    BY <1>3, <1>5, <1>6 DEF p, l, Appended

\* The vectors of a buffer that are as they were, in memory that shows them the same.
LEMMA SameKept ==
    ASSUME VrefbufferConstants, Parts, VectorsInside, NEW w \in Buffer, array'[w] = array[w],
           \A i \in 1 .. Len(array[w]) :
              Good(mem', array[w][i]) /\ Bytes(mem', array[w][i]) = Bytes(mem, array[w][i])
    PROVE  Kept(w)
<1>1. array[w] \in Seq(Vector)
    BY VectorsGood
<1>2. Spell(mem', array[w]) = Spell(mem, array[w])
    BY <1>1, SpellSame DEF SameUpTo
<1> QED
    BY <1>2 DEF Kept, GoodAfter

\* One more vector, which shows bytes.
LEMMA OneMore ==
    ASSUME NEW v \in Buffer, array[v] \in Seq(Vector), NEW x \in Vector, Good(mem', x),
           array'[v] = Append(array[v], x),
           \A i \in 1 .. Len(array[v]) :
              Good(mem', array[v][i]) /\ Bytes(mem', array[v][i]) = Bytes(mem, array[v][i])
    PROVE  GoodAfter(v) /\ Spell(mem', array'[v]) = Spell(mem, array[v]) \o Bytes(mem', x)
<1> DEFINE s == array[v]
           t == array'[v]
<1>1. /\ s \in Seq(Vector) /\ t = Append(s, x)
      /\ \A i \in 1 .. Len(s) : Good(mem', s[i]) /\ Bytes(mem', s[i]) = Bytes(mem, s[i])
    OBVIOUS
<1> HIDE DEF s, t
<1>2. /\ t \in Seq(Vector) /\ Len(s) \in Nat /\ Len(t) = Len(s) + 1 /\ t[Len(t)] = x
      /\ \A i \in 1 .. Len(s) : t[i] = s[i]
    BY <1>1
<1>3. \A i \in 1 .. Len(t) : Good(mem', t[i])
    BY <1>1, <1>2
<1>4. Spell(mem', t) = Spell(mem, s) \o Bytes(mem', t[Len(t)])
    <2>1. SameUpTo(mem, s, mem', t, Len(s))
        BY <1>1, <1>2 DEF SameUpTo
    <2>2. s \in Seq(Vector) /\ t \in Seq(Vector) /\ Len(t) = Len(s) + 1
        BY <1>1, <1>2
    <2> QED
        BY <2>1, <2>2, SpellMore, ZenonT(60)
<1> QED
    BY <1>2, <1>3, <1>4 DEF GoodAfter, s, t

LEMMA CopyShows ==
    ASSUME VrefbufferConstants, Parts, VectorsInside, NEW v \in Buffer, NEW d \in Data,
           Append_Copy(v, d)
    PROVE  Shows
<1> TypeOK /\ VectorsFit
    BY DEF Parts
<1> DEFINE n == Len(d.bytes)
           k == Len(array[v])
           last == array[v][k]
<1>0. call = NoCall /\ Exists(v) /\ d.bytes \in Seq(Char) /\ n \in Nat
    BY Constants DEF Append_Copy
<1>1. PICK place \in Place(v, n) :
          /\ TakeRoom(v, place, d.bytes)
          /\ \/ Adjoins(v, place.p) /\ Lengthened(v, n)
             \/ PutVector(v, [block |-> place.p.chunk, at |-> place.p.at, len |-> n])
    BY DEF Append_Copy, Lengthened
<1>2. PlaceOK(v, n, place) /\ mem' = Memcpy(place.m, place.p, d.bytes)
    BY <1>0, <1>1, PlaceIs DEF TakeRoom
<1>3. place.p.chunk \in Chunk /\ place.p.at \in Nat
    BY <1>2 DEF PlaceOK
<1>4. /\ \A w \in Buffer : \A i \in 1 .. Len(array[w]) :
            Good(mem', array[w][i]) /\ Bytes(mem', array[w][i]) = Bytes(mem, array[w][i])
      /\ \A x \in Vector : x.block = place.p.chunk /\ x.at = place.p.at /\ x.len = n
                           => Good(mem', x) /\ Bytes(mem', x) = d.bytes
      /\ \A w \in Buffer : \A i \in 1 .. Len(array[w]) : \A x \in Vector :
            /\ array[w][i].block = place.p.chunk
            /\ array[w][i].at + array[w][i].len = place.p.at
            /\ x.block = place.p.chunk /\ x.at = array[w][i].at
            /\ x.len = array[w][i].len + n
            => Good(mem', x) /\ Bytes(mem', x) = Bytes(mem, array[w][i]) \o d.bytes
    <2> DEFINE bytes == d.bytes
    <2>1. bytes \in Seq(Char) /\ PlaceOK(v, Len(bytes), place) /\ mem' = Memcpy(place.m, place.p, bytes)
        BY <1>0, <1>2
    <2> HIDE DEF bytes
    <2>2. Appended(place.p, bytes)
        BY <1>0, <2>1, TakeRoomBytes
    <2> QED
        BY <2>2 DEF Appended, bytes
<1>5. ASSUME NEW w \in Buffer, array'[w] = array[w] PROVE Kept(w)
    BY <1>4, <1>5, SameKept
<1>6. array[v] \in Seq(Vector) /\ k \in Nat /\ Readable(mem, array[v]) /\ d.bytes \in Seq(Cell)
    BY <1>0, VectorsGood DEF Cell
<1>7. /\ array' \in [Buffer -> Seq(Vector)] /\ \A w \in Buffer \ {v} : array'[w] = array[w]
      /\ GoodAfter(v) /\ Spell(mem', array'[v]) = Spell(mem, array[v]) \o d.bytes
    <2>1. CASE Adjoins(v, place.p) /\ Lengthened(v, n)
        <3>1. /\ k \in Nat /\ k \in 1 .. k /\ last.block = place.p.chunk /\ last.at + last.len = place.p.at
              /\ array' \in [Buffer -> Seq(Vector)]
              /\ \A w \in Buffer \ {v} : array'[w] = array[w]
              /\ Len(array'[v]) = k /\ \A i \in 1 .. k : i # k => array'[v][i] = array[v][i]
              /\ array'[v][k] \in Vector /\ array'[v][k].block = place.p.chunk
              /\ array'[v][k].at = last.at /\ array'[v][k].len = last.len + n
            <4> HIDE DEF n
            <4>1. LengthenedFrom(v, n, place.p)
                BY <1>0, <2>1, LongerIs
            <4> QED
                BY <4>1 DEF LengthenedFrom
        <3>2. Good(mem', array'[v][k]) /\ Bytes(mem', array'[v][k]) = Bytes(mem, last) \o d.bytes
            BY <1>4, <3>1
        <3>3. GoodAfter(v)
            BY <1>4, <3>1, <3>2 DEF GoodAfter
        <3>4. Spell(mem', array'[v]) = Spell(mem, array[v]) \o d.bytes
            <4> DEFINE s == array[v]
                       t == array'[v]
            <4>1. /\ s \in Seq(Vector) /\ t \in Seq(Vector) /\ Len(t) = Len(s) /\ Len(s) # 0
                  /\ Readable(mem, s)
                  /\ SameUpTo(mem, s, mem', t, Len(s) - 1)
                  /\ d.bytes \in Seq(Cell)
                  /\ Bytes(mem', t[Len(s)]) = Bytes(mem, s[Len(s)]) \o d.bytes
                BY <1>4, <1>6, <3>1, <3>2, SMTT(30) DEF SameUpTo
            <4>2. Longer(mem, s, mem', t, d.bytes)
                BY <4>1 DEF Longer
            <4> HIDE DEF s, t
            <4>3. Spell(mem', t) = Spell(mem, s) \o d.bytes
                BY <4>2, SpellLonger, SMTT(30)
            <4> QED
                BY <4>3 DEF s, t
        <3> QED
            BY <3>1, <3>3, <3>4
    <2>2. CASE PutVector(v, [block |-> place.p.chunk, at |-> place.p.at, len |-> n])
        <3> DEFINE iov == [block |-> place.p.chunk, at |-> place.p.at, len |-> n]
        <3>1. /\ iov \in Vector /\ iov.block = place.p.chunk /\ iov.at = place.p.at /\ iov.len = n
            BY <1>0, <1>3 DEF Vector
        <3>2. PutVector(v, iov)
            BY <2>2
        <3> HIDE DEF iov
        <3>3. /\ array' \in [Buffer -> Seq(Vector)]
              /\ \A w \in Buffer \ {v} : array'[w] = array[w]
              /\ array'[v] = Append(array[v], iov)
            BY <1>0, <3>1, <3>2, PutVectorIs
        <3>4. Good(mem', iov) /\ Bytes(mem', iov) = d.bytes
            BY <1>4, <3>1
        <3>5. GoodAfter(v) /\ Spell(mem', array'[v]) = Spell(mem, array[v]) \o d.bytes
            BY <1>4, <1>6, <3>1, <3>3, <3>4, OneMore, ZenonT(60)
        <3> QED
            BY <3>3, <3>5
    <2> QED
        BY <1>1, <2>1, <2>2
<1> QED
    BY <1>5, <1>7, WrittenShows

LEMMA CopyFailsShows ==
    ASSUME VrefbufferConstants, Parts, VectorsInside, NEW v \in Buffer, NEW d \in Data,
           Append_CopyFails(v, d)
    PROVE  Shows
<1> DEFINE n == Len(d.bytes)
<1>0. call = NoCall /\ Exists(v) /\ d.bytes \in Seq(Char) /\ n \in Nat /\ array' = array
    BY Constants DEF Append_CopyFails
<1>1. PICK place \in Place(v, n) : TakeRoom(v, place, d.bytes)
    BY DEF Append_CopyFails
<1>2. PlaceOK(v, n, place) /\ mem' = Memcpy(place.m, place.p, d.bytes)
    BY <1>0, <1>1, PlaceIs DEF TakeRoom
<1>3. \A w \in Buffer : \A i \in 1 .. Len(array[w]) :
          Good(mem', array[w][i]) /\ Bytes(mem', array[w][i]) = Bytes(mem, array[w][i])
    <2> DEFINE bytes == d.bytes
    <2>1. bytes \in Seq(Char) /\ PlaceOK(v, Len(bytes), place) /\ mem' = Memcpy(place.m, place.p, bytes)
        BY <1>0, <1>2
    <2> HIDE DEF bytes
    <2>2. Appended(place.p, bytes)
        BY <1>0, <2>1, TakeRoomBytes
    <2> QED
        BY <2>2 DEF Appended
<1>4. \A w \in Buffer : Kept(w)
    BY <1>0, <1>3, SameKept
<1> QED
    BY <1>4, KeptShows

LEMMA RefShows ==
    ASSUME VrefbufferConstants, Parts, VectorsInside, NEW v \in Buffer, NEW d \in String,
           Append_Ref(v, d)
    PROVE  Shows
<1> TypeOK /\ VectorsFit
    BY DEF Parts
<1> DEFINE iov == [block |-> d, at |-> 0, len |-> Len(d.bytes)]
<1>1. d \in Data /\ d.bytes \in Seq(Char) /\ Len(d.bytes) \in Nat /\ d.bytes \in Seq(Cell)
    BY Constants DEF Cell
<1>2. Exists(v) /\ PutVector(v, iov) /\ mem' = mem
    BY DEF Append_Ref
<1>3. iov \in Vector /\ iov.block = d /\ iov.at = 0 /\ iov.len = Len(d.bytes)
    BY <1>1 DEF Vector
<1> HIDE DEF iov
<1>4. Block(mem, iov) = d.bytes
    BY <1>1, <1>3 DEF Block
<1>5. Good(mem, iov) /\ Bytes(mem, iov) = d.bytes
    <2>1. Good(mem, iov)
        BY <1>1, <1>3, <1>4 DEF Good
    <2>2. SubSeq(d.bytes, 1, Len(d.bytes)) = d.bytes
        BY <1>1
    <2>3. 0 + 1 = 1 /\ 0 + Len(d.bytes) = Len(d.bytes)
        BY <1>1
    <2> QED
        BY <1>3, <1>4, <2>1, <2>2, <2>3 DEF Bytes
<1>6. /\ array' \in [Buffer -> Seq(Vector)]
      /\ \A w \in Buffer \ {v} : array'[w] = array[w]
      /\ array'[v] = Append(array[v], iov)
    BY <1>2, <1>3, PutVectorIs
<1>7. \A w \in Buffer : \A i \in 1 .. Len(array[w]) :
          Good(mem', array[w][i]) /\ Bytes(mem', array[w][i]) = Bytes(mem, array[w][i])
    BY <1>2, VectorsGood
<1>8. GoodAfter(v) /\ Spell(mem', array'[v]) = Spell(mem, array[v]) \o d.bytes
    <2>1. array[v] \in Seq(Vector)
        BY VectorsGood
    <2> QED
        BY <1>2, <1>3, <1>5, <1>6, <1>7, <2>1, OneMore
<1>9. \A w \in Buffer \ {v} : Kept(w)
    BY <1>6, <1>7, SameKept
<1> QED
    BY <1>1, <1>8, <1>9, WrittenShows

\* init, and the places of a migrate before its last.
LEMMA QuietShows ==
    ASSUME VrefbufferConstants, Parts, VectorsInside,
           \/ \E v \in Buffer : New(v) \/ \E to \in Buffer : Migrate(v, to)
           \/ Grow \/ Realloc \/ ReallocFails \/ UNCHANGED vars
    PROVE  Shows
<1> TypeOK /\ Listed
    BY DEF Parts
<1>1. \A w \in Buffer : \A c \in Elements(chunks[w]) : c \in DOMAIN mem
    BY DEF Listed
<1>2. array' = array /\ \A w \in Buffer : \A c \in Elements(chunks[w]) : c \in DOMAIN mem' /\ mem'[c] = mem[c]
    <2>1. ASSUME NEW v \in Buffer, New(v) \/ \E to \in Buffer : Migrate(v, to) PROVE <1>2!2 /\ array' = array
        <3>1. array' = array /\ \E c \in Unallocated : mem' = Malloc(c, ChunkSize[v])
            BY <2>1 DEF New, Migrate
        <3>2. PICK c \in Unallocated : mem' = Malloc(c, ChunkSize[v])
            BY <3>1
        <3>3. \A b \in DOMAIN mem : b \in DOMAIN mem' /\ mem'[b] = mem[b]
            <4> DEFINE n == ChunkSize[v]
            <4>1. n \in Nat /\ mem' = Malloc(c, n)
                BY <3>2, Constants
            <4> HIDE DEF n
            <4>2. /\ DOMAIN Malloc(c, n) = DOMAIN mem \cup {c}
                  /\ \A b \in DOMAIN mem : Malloc(c, n)[b] = mem[b]
                BY <4>1, MallocIs
            <4> QED
                BY <4>1, <4>2
        <3> QED
            BY <1>1, <3>1, <3>3
    <2>2. CASE Grow \/ Realloc \/ UNCHANGED vars
        BY <1>1, <2>2 DEF Grow, Realloc, vars
    <2>3. CASE ReallocFails
        <3>1. array' = array /\ mem' = Without({call.empty})
            BY <2>3 DEF ReallocFails
        <3>2. \A w \in Buffer : call.empty \notin Elements(chunks[w])
            BY <2>3, CallInHand DEF ReallocFails
        <3> QED
            BY <1>1, <3>1, <3>2 DEF Without
    <2> QED
        BY <2>1, <2>2, <2>3
<1>3. \A w \in Buffer : Kept(w)
    BY <1>2, BufferKept
<1> QED
    BY <1>3, KeptShows

\* A buffer that gives up chunks gives up only its own.
LEMMA LeavesShows ==
    ASSUME VrefbufferConstants, Parts, VectorsInside, NEW v \in Buffer, Destroy(v) \/ Clear(v)
    PROVE  Shows
<1> TypeOK /\ Listed
    BY DEF Parts
<1>1. /\ array' = [array EXCEPT ![v] = << >>]
      /\ \E cs : cs \subseteq Elements(chunks[v]) /\ mem' = Without(cs)
    BY DEF Destroy, Clear
<1>2. array'[v] = << >> /\ \A w \in Buffer \ {v} : array'[w] = array[w]
    BY <1>1, Types
<1>3. \A w \in Buffer \ {v} : \A c \in Elements(chunks[w]) : c \in DOMAIN mem' /\ mem'[c] = mem[c]
    <2>1. \A w \in Buffer \ {v} : \A c \in Elements(chunks[w]) :
              c \in DOMAIN mem /\ c \notin Elements(chunks[v])
        BY DEF Listed
    <2> QED
        BY <1>1, <2>1 DEF Without
<1>4. \A w \in Buffer \ {v} : Kept(w)
    BY <1>2, <1>3, BufferKept
<1> QED
    BY <1>2, <1>4, EmptiedShows

LEMMA LinkShows ==
    ASSUME VrefbufferConstants, Parts, VectorsInside, Link
    PROVE  Shows
<1> DEFINE v == call.from
           to == call.to
<1> TypeOK /\ Listed
    BY DEF Parts
<1>1. v \in Buffer /\ to \in Buffer /\ v # to /\ mem' = mem
    BY CallInHand DEF Link
<1>2. /\ array'[v] = << >> /\ array'[to] = array[to] \o array[v]
      /\ \A w \in Buffer \ {v, to} : array'[w] = array[w]
      /\ \A w \in Buffer : \A i \in DOMAIN array'[w] :
            \/ w # v /\ \E j \in DOMAIN array[w] : array'[w][i] = array[w][j]
            \/ w = to /\ \E j \in DOMAIN array[v] : array'[w][i] = array[v][j]
      /\ array' \in [Buffer -> Seq(Vector)]
    BY LinkVectors
<1> HIDE DEF v, to
<1>3. \A w \in Buffer : DOMAIN array[w] = 1 .. Len(array[w]) /\ DOMAIN array'[w] = 1 .. Len(array'[w])
    BY <1>2, Types
<1>4. \A w \in Buffer : GoodAfter(w)
    <2>1. ASSUME NEW w \in Buffer, NEW i \in 1 .. Len(array'[w]) PROVE Good(mem, array'[w][i])
        <3>1. PICK o \in Buffer : \E j \in 1 .. Len(array[o]) : array'[w][i] = array[o][j]
            <4>1. i \in DOMAIN array'[w]
                BY <1>3
            <4>2. \/ w # v /\ \E j \in DOMAIN array[w] : array'[w][i] = array[w][j]
                  \/ w = to /\ \E j \in DOMAIN array[v] : array'[w][i] = array[v][j]
                BY <1>2, <4>1
            <4> QED
                BY <1>1, <1>3, <4>2
        <3>2. PICK j \in 1 .. Len(array[o]) : array'[w][i] = array[o][j]
            BY <3>1
        <3> QED
            BY <3>2, VectorsGood
    <2> QED
        BY <1>1, <2>1 DEF GoodAfter
<1>5. Spell(mem', array'[v]) = << >>
    BY <1>2, SpellEmpty
<1>6. Spell(mem', array'[to]) = Spell(mem, array[to]) \o Spell(mem, array[v])
    <2> DEFINE s == array[to]
               t == array[v]
    <2>1. s \in Seq(Vector) /\ t \in Seq(Vector) /\ Readable(mem, s) /\ Readable(mem, t)
        BY <1>1, VectorsGood
    <2> HIDE DEF s, t
    <2>2. Spell(mem, s \o t) = Spell(mem, s) \o Spell(mem, t)
        BY <2>1, SpellConcat
    <2> QED
        BY <1>1, <1>2, <2>2 DEF s, t
<1>7. \A w \in Buffer \ {v, to} : Spell(mem', array'[w]) = Spell(mem, array[w])
    BY <1>1, <1>2
<1>8. Content' = [Content EXCEPT ![to] = Content[to] \o Content[v], ![v] = << >>]
    BY <1>1, <1>5, <1>6, <1>7, ContentIs
<1>9. Vectors!Next
    BY <1>1, <1>8 DEF Vectors!Next, Vectors!Migrate
<1> QED
    BY <1>4, <1>9 DEF Shows

LEMMA NextShows ==
    ASSUME VrefbufferConstants, Parts, VectorsInside, [Next]_vars
    PROVE  Shows
<1>1. ASSUME NEW v \in Buffer, NEW d \in Data, Append_Copy(v, d) \/ Append_CopyFails(v, d)
      PROVE  Shows
    BY <1>1, CopyShows, CopyFailsShows
<1>2. ASSUME NEW v \in Buffer, NEW d \in String, Append_Ref(v, d) PROVE Shows
    BY <1>2, RefShows
<1>3. ASSUME NEW v \in Buffer, NEW d \in Data, Write(v, d) PROVE Shows
    <2>1. CASE Len(d.bytes) < ref_size(v)
        BY <1>1, <1>3, <2>1 DEF Write
    <2>2. CASE ~(Len(d.bytes) < ref_size(v))
        <3>1. Append_Ref(v, d)
            BY <1>3, <2>2 DEF Write
        <3>2. Len(d.bytes) > PACKER_MAX
            BY <2>2, Constants DEF ref_size
        <3>3. d \in String
            BY <3>2, Constants DEF Data
        <3> QED
            BY <1>2, <3>1, <3>3
    <2> QED
        BY <2>1, <2>2
<1>4. ASSUME NEW v \in Buffer, Destroy(v) \/ Clear(v) PROVE Shows
    BY <1>4, LeavesShows
<1>5. CASE \/ \E v \in Buffer : New(v) \/ \E to \in Buffer : Migrate(v, to)
           \/ Grow \/ Realloc \/ ReallocFails \/ UNCHANGED vars
    BY <1>5, QuietShows
<1>6. CASE Link
    BY <1>6, LinkShows
<1> QED
    BY <1>1, <1>2, <1>3, <1>4, <1>5, <1>6 DEF Next

\* After a step, too, every vector ends inside its block.
LEMMA InsideAfter ==
    ASSUME Parts', \A w \in Buffer : GoodAfter(w)
    PROVE  VectorsInside'
<1>1. \A w \in Buffer : DOMAIN array'[w] = 1 .. Len(array'[w])
    <2>1. array' \in [Buffer -> Seq(Vector)]
        BY DEF Parts, TypeOK
    <2> QED
        BY <2>1
<1>2. \A w \in Buffer : \A i \in DOMAIN array'[w] : Good(mem', array'[w][i])
    BY <1>1 DEF GoodAfter
<1> QED
    BY <1>2 DEF Good, VectorsInside

LEMMA InitInside == Init => VectorsInside
<1> SUFFICES ASSUME Init PROVE VectorsInside
    OBVIOUS
<1>1. \A v \in Buffer : array[v] = << >>
    BY DEF Init
<1>2. DOMAIN << >> = {}
    OBVIOUS
<1> QED
    BY <1>1, <1>2 DEF VectorsInside

LEMMA VrefbufferInvariance == ASSUME VrefbufferConstants PROVE Spec => [](Parts /\ VectorsInside)
<1>1. Init => Parts /\ VectorsInside
    BY InitParts, InitInside
<1>2. Parts /\ VectorsInside /\ [Next]_vars => Parts' /\ VectorsInside'
    BY NextInv, NextShows, InsideAfter DEF Shows
<1> QED
    BY <1>1, <1>2, PTL DEF Spec

\* vrefbuffer, for any number of buffers, chunk sizes and reference sizes: append_copy
\* writes inside allocated memory that no vector sees, every vector points into a chunk its
\* own buffer has and ends inside it, and no chunk is leaked, freed twice or listed twice,
\* whichever call fails where and wherever migrate has moved the chunks.
THEOREM VrefbufferMemoryOwned == ASSUME VrefbufferConstants PROVE Spec => []MemoryOwned
<1>1. Parts /\ VectorsInside => MemoryOwned
    BY PartsInv DEF IInv
<1> QED
    BY <1>1, VrefbufferInvariance, PTL

\* vrefbuffer, for any contents of any length: what the vectors of a buffer spell is what was
\* written to it, in order and whole, whether it was copied in pieces, merged into the last
\* vector or referred to, and a migrate puts one buffer's bytes behind another's.
THEOREM VrefbufferRefinesByteVectors ==
    ASSUME VrefbufferConstants PROVE Spec => RefinesByteVectors
<1>1. Init => Vectors!Init
    <2> SUFFICES ASSUME Init PROVE Vectors!Init
        OBVIOUS
    <2>1. \A v \in Buffer : array[v] = << >>
        BY DEF Init
    <2> QED
        BY <2>1, SpellEmpty, ContentIs DEF Vectors!Init
<1>2. Parts /\ VectorsInside /\ [Next]_vars => [Vectors!Next]_Content
    BY NextShows DEF Shows
<1> QED
    BY <1>1, <1>2, VrefbufferInvariance, PTL DEF Spec, RefinesByteVectors, Vectors!Spec
=============================================================================
