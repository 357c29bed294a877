------------------------ MODULE VisitorProtocol_proofs ------------------------
(***************************************************************************)
(* What the two parsers of the C++ library keep to.                          *)
(*                                                                           *)
(* The parser of bytes reads only bytes that have arrived and calls its visitor *)
(* in the order of VisitorProtocol: for every stream, every way to cut it into  *)
(* chunks, and every call that the visitor refuses or throws from.  With        *)
(* create_object_visitor, the place it writes next is then the item that the    *)
(* parser counts, and is inside an allocation: for all limits, and whether or   *)
(* not an unpacker is moved within a message.                                *)
(*                                                                           *)
(* The parser of objects calls its visitor in that order, too, for all objects. *)
(***************************************************************************)
EXTENDS CreateObject, SequenceTheorems, TLAPS

Result == {"success", "continue", "parse_error", "stop_visitor", "thrown"}
Going == {"success", "continue"}
Label == {"idle", "header", "trail", "consume", "done"} \cup Telling

\* Where a call stands.
Position ==
    /\ stream \in Streams /\ arrived \in 0 .. Len(stream)
    /\ off \in Nat /\ p \in Nat /\ start \in Nat
    /\ start <= off /\ off <= arrived
    /\ pc \in Label /\ ret \in Result
    /\ pc # "idle" => off <= p /\ p <= arrived
    /\ pc = "header" => p < arrived

\* The parser waits, or a later call will, for what trails a header.
Waits ==
    \/ pc = "trail"
    \/ pc = "idle" /\ ret \in Going /\ cs # CS_HEADER

State ==
    /\ cs \in 0 .. ACS_EXT_VALUE
    /\ trail \in Nat
    /\ Waits /\ cs \in CS_SIZE \cup CS_CONTAINER => trail \in {1, 2, 4}

\* What the next call of the visitor is about: an item of the kind it is told of, or
\* nothing that is open.
Shape ==
    /\ stack \in Seq(Elem)
    /\ pc = "start_array_item" => top > 0 /\ stack[top].type = "ARRAY_ITEM"
    /\ pc \in {"start_map_key", "start_map_value"} => top > 0 /\ stack[top].type = "MAP_KEY"
    /\ pc = "done" => stack = << >> /\ ret = "success"
    /\ pc # "idle" => ret \in Going

Recorded == \E S : calls \in Seq(S)

Inv == Position /\ State /\ Shape /\ Recorded

Open == IF Turn = "stopped" THEN << >> ELSE Frames \o Ending
Moves == [Protocol!Next]_(Protocol!vars)
-----------------------------------------------------------------------------
(* How many bytes trail a header, and what is loaded from them *)

LEMMA BitBound == \A k \in 0 .. 3 : Bit(k) \in {1, 2, 4, 8}
  BY SMT DEF Bit

LEMMA FixedTrailBound == \A b \in Variable : FixedTrail(b) \in 1 .. 8
  <1> SUFFICES ASSUME NEW b \in Variable PROVE FixedTrail(b) \in 1 .. 8
    OBVIOUS
  <1>1. CASE b \in (196 .. 198) \cup (202 .. 211)
    BY <1>1, BitBound, b % 4 \in 0 .. 3, SMT DEF FixedTrail
  <1>2. CASE b \in 199 .. 201
    BY <1>2, BitBound, (b + 1) % 4 \in 0 .. 3, SMT DEF FixedTrail
  <1>3. CASE b \in 217 .. 219
    BY <1>3, BitBound, (b % 4) - 1 \in 0 .. 3, SMT DEF FixedTrail
  <1>4. CASE b \in 220 .. 223
    <2>1. b % 2 \in 0 .. 1
      BY <1>4
    <2>2. Bit(b % 2) \in {1, 2}
      BY <2>1, SMT DEF Bit
    <2> QED  BY <1>4, <2>2, SMT DEF FixedTrail
  <1> QED  BY <1>1, <1>2, <1>3, <1>4 DEF Variable

LEMMA ValueIsNoSize ==
    /\ {ACS_STR_VALUE, ACS_BIN_VALUE, ACS_EXT_VALUE} = ACS_VALUE
    /\ \A c \in ACS_VALUE : c \notin CS_SIZE \cup CS_CONTAINER
  BY SMT DEF ACS_VALUE, ACS_STR_VALUE, ACS_BIN_VALUE, ACS_EXT_VALUE, CS_SIZE,
             CS_CONTAINER, CS_BIN, CS_EXT, CS_STR, CS_ARRAY, CS_MAP

\* Sizes, and the counts of containers, have one, two or four bytes.
LEMMA SizeTrail ==
    ASSUME NEW b \in Variable, NEXT_CS(b) \in CS_SIZE \cup CS_CONTAINER
    PROVE  FixedTrail(b) \in {1, 2, 4}
  <1>1. b \in (196 .. 201) \cup (217 .. 223)
    BY SMT DEF Variable, NEXT_CS, CS_SIZE, CS_CONTAINER, CS_BIN, CS_EXT, CS_STR,
               CS_ARRAY, CS_MAP
  <1>2. CASE b \in 196 .. 198
    <2>1. b % 4 \in 0 .. 2
      BY <1>2
    <2>2. Bit(b % 4) \in {1, 2, 4}
      BY <2>1, SMT DEF Bit
    <2> QED  BY <1>2, <2>2, SMT DEF FixedTrail
  <1>3. CASE b \in 199 .. 201
    <2>1. (b + 1) % 4 \in 0 .. 2
      BY <1>3
    <2>2. Bit((b + 1) % 4) \in {1, 2, 4}
      BY <2>1, SMT DEF Bit
    <2> QED  BY <1>3, <2>2, SMT DEF FixedTrail
  <1>4. CASE b \in 217 .. 219
    <2>1. (b % 4) - 1 \in 0 .. 2
      BY <1>4
    <2>2. Bit((b % 4) - 1) \in {1, 2, 4}
      BY <2>1, SMT DEF Bit
    <2> QED  BY <1>4, <2>2, SMT DEF FixedTrail
  <1>5. CASE b \in 220 .. 223
    <2>1. b % 2 \in 0 .. 1
      BY <1>5
    <2>2. Bit(b % 2) \in {1, 2}
      BY <2>1, SMT DEF Bit
    <2> QED  BY <1>5, <2>2, SMT DEF FixedTrail
  <1> QED  BY <1>1, <1>2, <1>3, <1>4, <1>5

LEMMA FixExtTrailBound == \A b \in FixExt : FixExtTrail(b) \in 2 .. 17
  <1> SUFFICES ASSUME NEW b \in FixExt PROVE FixExtTrail(b) \in 2 .. 17
    OBVIOUS
  <1>1. b \in Int /\ b % 4 \in 0 .. 3
    BY DEF FixExt
  <1> QED  BY <1>1, BitBound, SMT DEF FixExtTrail

\* The state of a header that has one.
LEMMA NextState == \A b \in Variable \cup FixExt : NEXT_CS(b) \in 0 .. ACS_EXT_VALUE
  BY SMT DEF NEXT_CS, ACS_EXT_VALUE, Variable, FixExt

\* Sizes and counts are natural numbers.
LEMMA LoadedSize ==
    ASSUME NEW bs \in Seq(Byte), Len(bs) \in {1, 2, 4}
    PROVE  LoadUnsigned(bs) \in Nat
  <1>1. \A i \in 1 .. Len(bs) : bs[i] \in Nat
    <2>1. \A i \in 1 .. Len(bs) : bs[i] \in Byte
      OBVIOUS
    <2>2. Byte \subseteq Nat
      BY DEF Byte
    <2> QED  BY <2>1, <2>2
  <1>2. CASE Len(bs) = 1
    <2>1. bs[1] \in Nat
      BY <1>1, <1>2
    <2> QED  BY <1>2, <2>1, SMT DEF LoadUnsigned, Load
  <1>3. CASE Len(bs) = 2
    <2>1. bs[1] \in Nat /\ bs[2] \in Nat
      BY <1>1, <1>3
    <2>2. bs[1] * 256 + bs[2] \in Nat
      BY <2>1
    <2> QED  BY <1>3, <2>2, SMT DEF LoadUnsigned, Load
  <1>4. CASE Len(bs) = 4
    <2>1. bs[1] \in Nat /\ bs[2] \in Nat /\ bs[3] \in Nat /\ bs[4] \in Nat
      BY <1>1, <1>4
    <2>2. Load32(bs[1], bs) \in Nat
      <3>1. bs[1] * 256 + bs[2] \in Nat
        BY <2>1
      <3>2. (bs[1] * 256 + bs[2]) * 256 + bs[3] \in Nat
        BY <2>1, <3>1, SMTT(30)
      <3>3. ((bs[1] * 256 + bs[2]) * 256 + bs[3]) * 256 + bs[4] \in Nat
        BY <2>1, <3>2, SMTT(30)
      <3> QED  BY <3>3 DEF Load32
    <2> QED  BY <1>4, <2>2, SMT DEF LoadUnsigned, Load
  <1> QED  BY <1>2, <1>3, <1>4
-----------------------------------------------------------------------------
(* Sequences *)
LEMMA Pushed ==
    ASSUME NEW S, NEW s \in Seq(S), NEW e \in S
    PROVE  /\ Append(s, e) \in Seq(S) /\ Append(s, e) # << >>
           /\ Len(s) \in Nat /\ Len(Append(s, e)) = Len(s) + 1
           /\ Append(s, e)[Len(Append(s, e))] = e
           /\ SubSeq(Append(s, e), 1, Len(Append(s, e)) - 1) = s
<1>1. /\ Append(s, e) \in Seq(S) /\ Append(s, e) # << >>
      /\ Len(Append(s, e)) = Len(s) + 1 /\ Len(s) \in Nat
      /\ \A i \in 1 .. Len(s) : Append(s, e)[i] = s[i]
      /\ Append(s, e)[Len(s) + 1] = e
    BY AppendProperties, LenProperties
<1> DEFINE t == Append(s, e)
<1> HIDE DEF t
<1>2. t \in Seq(S) /\ Len(t) = Len(s) + 1 /\ \A i \in 1 .. Len(s) : t[i] = s[i]
    BY <1>1 DEF t
<1>3. \A i \in 1 .. Len(s) : t[i] \in S
    BY <1>1, <1>2
<1>4. /\ SubSeq(t, 1, Len(s)) \in Seq(S)
      /\ Len(SubSeq(t, 1, Len(s))) = IF 1 <= Len(s) THEN Len(s) - 1 + 1 ELSE 0
      /\ \A i \in 1 .. Len(s) - 1 + 1 : SubSeq(t, 1, Len(s))[i] = t[1 + i - 1]
    BY <1>1, <1>3, SubSeqProperties
<1>5. Len(SubSeq(t, 1, Len(s))) = Len(s) /\ \A i \in 1 .. Len(s) : SubSeq(t, 1, Len(s))[i] = s[i]
    BY <1>1, <1>2, <1>4
<1>6. SubSeq(t, 1, Len(s)) = s
    BY <1>4, <1>5, SeqEqual
<1> QED
    BY <1>1, <1>2, <1>6 DEF t

\* A sequence that is not empty is one with an element pushed.
LEMMA Popped ==
    ASSUME NEW S, NEW s \in Seq(S), Len(s) > 0
    PROVE  /\ s[Len(s)] \in S /\ SubSeq(s, 1, Len(s) - 1) \in Seq(S)
           /\ s = Append(SubSeq(s, 1, Len(s) - 1), s[Len(s)])
<1>1. s # << >>
    BY EmptySeq
<1>2. PICK t \in Seq(S), e \in S : s = Append(t, e)
    BY <1>1, SequenceEmptyOrAppend
<1>3. SubSeq(s, 1, Len(s) - 1) = t /\ s[Len(s)] = e
    BY <1>2, Pushed
<1> QED
    BY <1>2, <1>3

LEMMA Replaced ==
    ASSUME NEW S, NEW s \in Seq(S), NEW e \in S, NEW f \in S
    PROVE  [Append(s, e) EXCEPT ![Len(Append(s, e))] = f] = Append(s, f)
<1>1. /\ Append(s, e) \in Seq(S) /\ Append(s, f) \in Seq(S) /\ Len(s) \in Nat
      /\ Len(Append(s, e)) = Len(s) + 1 /\ Len(Append(s, f)) = Len(s) + 1
      /\ \A i \in 1 .. Len(s) : Append(s, e)[i] = s[i] /\ Append(s, f)[i] = s[i]
      /\ Append(s, f)[Len(s) + 1] = f
    BY AppendProperties, LenProperties
<1> DEFINE t == Append(s, e)
           n == Len(s) + 1
<1>2. n \in 1 .. Len(t) /\ t \in Seq(S)
    BY <1>1
<1>3. /\ [t EXCEPT ![n] = f] \in Seq(S) /\ Len([t EXCEPT ![n] = f]) = Len(t)
      /\ \A j \in 1 .. Len(t) : [t EXCEPT ![n] = f][j] = IF j = n THEN f ELSE t[j]
    <2> HIDE DEF t, n
    <2> QED
        BY <1>2, ExceptSeq
<1>4. \A j \in 1 .. n : [t EXCEPT ![n] = f][j] = Append(s, f)[j]
    BY <1>1, <1>3
<1>5. [t EXCEPT ![n] = f] = Append(s, f)
    <2> HIDE DEF t
    <2> QED
        BY <1>1, <1>3, <1>4, SeqEqual DEF t
<1> QED
    BY <1>1, <1>5
-----------------------------------------------------------------------------
(* What the protocol sees of the stack *)

\* A container between two calls that begin an item: one of its items is under way.
Settled(e) ==
    [kind |-> KindOf(e.type),
     left |-> CASE e.type = "ARRAY_ITEM" -> e.rest - 1
                [] e.type = "MAP_KEY"    -> 2 * e.rest - 1
                [] e.type = "MAP_VALUE"  -> 2 * e.rest - 2]
FramesOf(s) == [i \in 1 .. Len(s) |-> Settled(s[i])]

\* A container whose next item is about to begin.
Beginning(e) ==
    [kind |-> KindOf(e.type), left |-> IF e.type = "ARRAY_ITEM" THEN e.rest ELSE 2 * e.rest]

LEMMA SettledFrame ==
    ASSUME NEW e \in Elem
    PROVE  Settled(e) \in Protocol!Frame /\ Beginning(e) \in Protocol!Frame
<1>1. e.rest \in Nat /\ e.rest > 0 /\ e.type \in ContainerType
    BY DEF Elem
<1>2. KindOf(e.type) \in {"array", "map"}
    BY DEF KindOf
<1>3. Settled(e).left \in Nat /\ Beginning(e).left \in Nat
    BY <1>1 DEF Settled, Beginning, ContainerType
<1> QED
    BY <1>2, <1>3 DEF Settled, Beginning, Protocol!Frame, Protocol!Kind

LEMMA FramesOfSeq ==
    ASSUME NEW s \in Seq(Elem)
    PROVE  FramesOf(s) \in Seq(Protocol!Frame) /\ Len(FramesOf(s)) = Len(s)
<1>1. Len(s) \in Nat /\ \A i \in 1 .. Len(s) : s[i] \in Elem
    OBVIOUS
<1>2. \A i \in 1 .. Len(s) : Settled(s[i]) \in Protocol!Frame
    BY <1>1, SettledFrame
<1>3. FramesOf(s) \in [1 .. Len(s) -> Protocol!Frame]
    BY <1>2 DEF FramesOf
<1> QED
    BY <1>1, <1>3

LEMMA FramesOfAppend ==
    ASSUME NEW s \in Seq(Elem), NEW e \in Elem
    PROVE  FramesOf(Append(s, e)) = Append(FramesOf(s), Settled(e))
<1>1. /\ Append(s, e) \in Seq(Elem) /\ Len(Append(s, e)) = Len(s) + 1 /\ Len(s) \in Nat
      /\ \A i \in 1 .. Len(s) : Append(s, e)[i] = s[i]
      /\ Append(s, e)[Len(s) + 1] = e
    BY AppendProperties, LenProperties
<1>2. /\ FramesOf(s) \in Seq(Protocol!Frame) /\ Len(FramesOf(s)) = Len(s)
      /\ FramesOf(Append(s, e)) \in Seq(Protocol!Frame)
      /\ Len(FramesOf(Append(s, e))) = Len(s) + 1
      /\ Settled(e) \in Protocol!Frame
    BY <1>1, FramesOfSeq, SettledFrame
<1> DEFINE F == FramesOf(s)
           G == FramesOf(Append(s, e))
           A == Append(F, Settled(e))
<1>3. /\ A \in Seq(Protocol!Frame) /\ Len(A) = Len(s) + 1
      /\ \A i \in 1 .. Len(s) : A[i] = F[i]
      /\ A[Len(s) + 1] = Settled(e)
    <2> HIDE DEF F
    <2> QED
        BY <1>2, AppendProperties DEF F
<1>4. \A i \in 1 .. Len(s) + 1 : G[i] = Settled(Append(s, e)[i])
    BY <1>1 DEF FramesOf
<1>5. \A i \in 1 .. Len(s) : F[i] = Settled(s[i])
    BY DEF FramesOf
<1>6. \A i \in 1 .. Len(s) + 1 : G[i] = A[i]
    <2> TAKE i \in 1 .. Len(s) + 1
    <2>1. CASE i = Len(s) + 1
        BY <1>1, <1>3, <1>4, <2>1
    <2>2. CASE i # Len(s) + 1
        <3>1. i \in 1 .. Len(s)
            BY <1>1, <2>2
        <3> HIDE DEF A, G, F
        <3> QED
            BY <1>1, <1>3, <1>4, <1>5, <3>1
    <2> QED
        BY <2>1, <2>2
<1> HIDE DEF A, G
<1>7. G \in Seq(Protocol!Frame) /\ Len(G) = Len(A)
    BY <1>2, <1>3 DEF G
<1>8. G = A
    BY <1>1, <1>3, <1>6, <1>7, SeqEqual
<1> QED
    BY <1>8 DEF A, G

\* Turn, Frames and Open of a stack s, a place c and a result r.
TurnAt(c, r) == CASE c = "idle" -> IF r \in Going THEN "value" ELSE "stopped"
                  [] c \in {"header", "trail"} -> "value"
                  [] c \in {"consume", "done"} -> "ended"
                  [] c \in Telling -> "open"
LeftAt(s, c, i) ==
    LET begins == i = Len(s) /\ c \in {"start_array_item", "start_map_key"} IN
    CASE s[i].type = "ARRAY_ITEM" -> IF begins THEN s[i].rest ELSE s[i].rest - 1
      [] s[i].type = "MAP_KEY"    -> IF begins THEN 2 * s[i].rest ELSE 2 * s[i].rest - 1
      [] s[i].type = "MAP_VALUE"  -> 2 * s[i].rest - 2
FramesAt(s, c) == [i \in 1 .. Len(s) |-> [kind |-> KindOf(s[i].type), left |-> LeftAt(s, c, i)]]
Ended(c) == [kind |-> IF c = "end_map" THEN "map" ELSE "array", left |-> 0]
OpenAt(s, c, r) ==
    IF TurnAt(c, r) = "stopped" THEN << >>
    ELSE FramesAt(s, c) \o (IF c \in {"end_array", "end_map"} THEN <<Ended(c)>> ELSE << >>)

LEMMA View ==
    /\ Turn = TurnAt(pc, ret) /\ Turn' = TurnAt(pc', ret')
    /\ Open = OpenAt(stack, pc, ret) /\ Open' = OpenAt(stack', pc', ret')
<1>1. Turn = TurnAt(pc, ret) /\ Turn' = TurnAt(pc', ret')
    BY DEF Turn, TurnAt, Going
<1>2. Frames = FramesAt(stack, pc)
    BY DEF Frames, FramesAt, Left, LeftAt, Innermost, top
<1>3. Frames' = FramesAt(stack', pc')
    BY DEF Frames, FramesAt, Left, LeftAt, Innermost, top
<1>4. /\ Ending = IF pc \in {"end_array", "end_map"} THEN <<Ended(pc)>> ELSE << >>
      /\ Ending' = IF pc' \in {"end_array", "end_map"} THEN <<Ended(pc')>> ELSE << >>
    BY DEF Ending, Ended
<1>5. Open = OpenAt(stack, pc, ret)
    BY <1>1, <1>2, <1>4 DEF Open, OpenAt
<1>6. Open' = OpenAt(stack', pc', ret')
    BY <1>1, <1>3, <1>4 DEF Open, OpenAt
<1> QED
    BY <1>1, <1>5, <1>6

LEMMA Turns ==
    \A r : /\ TurnAt("header", r) = "value" /\ TurnAt("trail", r) = "value"
           /\ TurnAt("consume", r) = "ended" /\ TurnAt("done", r) = "ended"
           /\ \A c \in Telling : TurnAt(c, r) = "open"
           /\ r \in Going => TurnAt("idle", r) = "value"
BY DEF TurnAt, Telling

LEMMA FramesAtSettled ==
    ASSUME NEW s \in Seq(Elem), NEW c, c \notin {"start_array_item", "start_map_key"}
    PROVE  FramesAt(s, c) = FramesOf(s)
<1>1. \A i \in 1 .. Len(s) : FramesAt(s, c)[i] = FramesOf(s)[i]
    BY DEF FramesAt, LeftAt, FramesOf, Settled
<1> QED
    BY <1>1 DEF FramesAt, FramesOf

LEMMA OpenSettled ==
    ASSUME NEW s \in Seq(Elem), NEW c, NEW r,
           \/ c \in {"header", "trail", "consume", "done", "start_map_value"}
           \/ c = "idle" /\ r \in Going
    PROVE  OpenAt(s, c, r) = FramesOf(s)
<1>1. TurnAt(c, r) # "stopped" /\ c \notin {"end_array", "end_map"}
    BY DEF TurnAt, Telling
<1>2. FramesAt(s, c) = FramesOf(s)
    BY FramesAtSettled
<1>3. FramesOf(s) \o << >> = FramesOf(s)
    BY FramesOfSeq, ConcatEmptySeq
<1> QED
    BY <1>1, <1>2, <1>3 DEF OpenAt

LEMMA OpenEnding ==
    ASSUME NEW s \in Seq(Elem), NEW c \in {"end_array", "end_map"}, NEW r
    PROVE  OpenAt(s, c, r) = Append(FramesOf(s), Ended(c))
<1>1. TurnAt(c, r) # "stopped"
    BY DEF TurnAt, Telling
<1>2. FramesAt(s, c) = FramesOf(s)
    BY FramesAtSettled
<1>3. Ended(c) \in Protocol!Frame
    BY DEF Ended, Protocol!Frame, Protocol!Kind
<1>4. Append(FramesOf(s), Ended(c)) = FramesOf(s) \o <<Ended(c)>>
    BY <1>3, FramesOfSeq, AppendIsConcat
<1> QED
    BY <1>1, <1>2, <1>4 DEF OpenAt

LEMMA OpenBeginning ==
    ASSUME NEW s \in Seq(Elem), NEW e \in Elem, NEW c, NEW r,
           \/ c = "start_array_item" /\ e.type = "ARRAY_ITEM"
           \/ c = "start_map_key" /\ e.type = "MAP_KEY"
    PROVE  OpenAt(Append(s, e), c, r) = Append(FramesOf(s), Beginning(e))
<1>1. TurnAt(c, r) # "stopped" /\ c \notin {"end_array", "end_map"}
    BY DEF TurnAt, Telling
<1> DEFINE t == Append(s, e)
           F == FramesAt(t, c)
           A == Append(FramesOf(s), Beginning(e))
<1>2. /\ t \in Seq(Elem) /\ Len(t) = Len(s) + 1 /\ Len(s) \in Nat
      /\ \A i \in 1 .. Len(s) : t[i] = s[i]
      /\ t[Len(s) + 1] = e
    BY AppendProperties, LenProperties
<1>3. FramesOf(s) \in Seq(Protocol!Frame) /\ Len(FramesOf(s)) = Len(s)
      /\ Beginning(e) \in Protocol!Frame
    BY FramesOfSeq, SettledFrame
<1>4. /\ A \in Seq(Protocol!Frame) /\ Len(A) = Len(s) + 1
      /\ \A i \in 1 .. Len(s) : A[i] = FramesOf(s)[i]
      /\ A[Len(s) + 1] = Beginning(e)
    BY <1>3, AppendProperties
<1>5. \A i \in 1 .. Len(s) : FramesOf(s)[i] = Settled(s[i]) /\ Settled(s[i]) \in Protocol!Frame
    BY SettledFrame DEF FramesOf
<1> HIDE DEF t, A
<1>6. \A i \in 1 .. Len(s) : F[i] = Settled(s[i])
    <2> TAKE i \in 1 .. Len(s)
    <2>1. /\ i \in 1 .. Len(t) /\ i # Len(t) /\ t[i] = s[i]
          /\ F[i] = [kind |-> KindOf(t[i].type), left |-> LeftAt(t, c, i)]
        BY <1>2 DEF FramesAt
    <2> HIDE DEF F
    <2>2. LeftAt(t, c, i) = Settled(s[i]).left
        <3>1. s[i].type \in ContainerType
            <4>1. s[i] \in Elem
                BY ElementOfSeq
            <4> QED
                BY <4>1 DEF Elem
        <3>2. CASE s[i].type = "ARRAY_ITEM"
            BY <2>1, <3>2 DEF LeftAt, Settled
        <3>3. CASE s[i].type = "MAP_KEY"
            BY <2>1, <3>3 DEF LeftAt, Settled
        <3>4. CASE s[i].type = "MAP_VALUE"
            BY <2>1, <3>4 DEF LeftAt, Settled
        <3> QED
            BY <3>1, <3>2, <3>3, <3>4 DEF ContainerType
    <2> QED
        BY <2>1, <2>2 DEF Settled
<1>7. F[Len(s) + 1] = Beginning(e)
    <2>1. F[Len(s) + 1] = [kind |-> KindOf(e.type), left |-> LeftAt(t, c, Len(s) + 1)]
        BY <1>2 DEF FramesAt
    <2>2. LeftAt(t, c, Len(s) + 1) = IF e.type = "ARRAY_ITEM" THEN e.rest ELSE 2 * e.rest
        BY <1>2 DEF LeftAt
    <2> QED
        BY <2>1, <2>2 DEF Beginning
<1>8. F \in Seq(Protocol!Frame) /\ Len(F) = Len(s) + 1
    <2>1. \A i \in 1 .. Len(s) + 1 : F[i] \in Protocol!Frame
        BY <1>2, <1>3, <1>5, <1>6, <1>7
    <2>2. F = [i \in 1 .. Len(s) + 1 |-> F[i]]
        BY <1>2 DEF FramesAt
    <2> HIDE DEF F
    <2>3. F \in [1 .. Len(s) + 1 -> Protocol!Frame] /\ Len(s) + 1 \in Nat
        BY <1>2, <2>1, <2>2
    <2> QED
        BY <2>3
<1> HIDE DEF F
<1>9. \A i \in 1 .. Len(s) + 1 : F[i] = A[i]
    BY <1>2, <1>4, <1>5, <1>6, <1>7
<1>10. F = A
    BY <1>4, <1>8, <1>9, SeqEqual
<1>11. A \o << >> = A
    BY <1>4, ConcatEmptySeq
<1> QED
    BY <1>1, <1>10, <1>11 DEF OpenAt, F, A, t
-----------------------------------------------------------------------------
(* The calls of the visitor *)

NameOf(name) ==
    IF name \in Telling \cup Starting \cup
                {"end_array_item", "end_map_key", "end_map_value", "parse_error"}
    THEN name ELSE "visit"

LEMMA Calling ==
    ASSUME Recorded, NEW name, NEW arg, Call(name, arg)
    PROVE  Recorded' /\ LastCall' = NameOf(name)
<1>1. PICK S : calls \in Seq(S)
    BY DEF Recorded
<1> DEFINE e == [name |-> name, arg |-> arg]
           T == S \cup {e}
<1>2. calls' = Append(calls, e)
    BY DEF Call
<1>3. calls \in Seq(T) /\ e \in T
    <2>1. S \subseteq T
        OBVIOUS
    <2> HIDE DEF T
    <2>2. calls \in Seq(T)
        BY <1>1, <2>1, SeqMonotonic
    <2> QED
        BY <2>2 DEF T
<1> HIDE DEF T
<1>4. calls' \in Seq(T) /\ calls' # << >> /\ calls'[Len(calls')] = e
    BY <1>2, <1>3, Pushed
<1>5. Recorded'
    BY <1>4 DEF Recorded
<1>6. LastCall' = NameOf(name)
    BY <1>4 DEF LastCall, NameOf
<1> QED
    BY <1>5, <1>6

LEMMA NotCalling == ASSUME Recorded, UNCHANGED calls PROVE Recorded' /\ LastCall' = LastCall
BY DEF Recorded, LastCall
-----------------------------------------------------------------------------
(* The steps of the protocol, on Open, Turn and LastCall *)

LEMMA Stutters == Open' = Open /\ Turn' = Turn /\ LastCall' = LastCall => Moves
BY DEF Moves, Protocol!vars, Open

LEMMA Visits ==
    ASSUME Turn = "value", LastCall' = "visit",
           \/ Turn' = "ended" /\ Open' = Open
           \/ Turn' = "stopped" /\ Open' = << >>
    PROVE  Moves
BY DEF Moves, Protocol!Next, Protocol!Visit, Protocol!Refused, Open

LEMMA Starts ==
    ASSUME Turn = "value", NEW kind \in {"array", "map"},
           LastCall' = IF kind = "map" THEN "start_map" ELSE "start_array",
           \/ Turn' = "open" /\ \E S, F, n : /\ F \in Seq(S) /\ Open = F
                                             /\ [kind |-> kind, left |-> n] \in S
                                             /\ Open' = Append(F, [kind |-> kind, left |-> n])
                                             /\ n \in Nat /\ (kind = "map" => n % 2 = 0)
           \/ Turn' = "stopped" /\ Open' = << >>
    PROVE  Moves
<1>1. CASE Turn' = "stopped" /\ Open' = << >>
    <2>1. Protocol!Start(kind)
        BY <1>1 DEF Protocol!Start, Protocol!Refused, Open
    <2> QED
        BY <2>1 DEF Moves, Protocol!Next, Protocol!Kind
<1>2. CASE Turn' = "open" /\ ~(Turn' = "stopped" /\ Open' = << >>)
    <2>1. PICK S, F, n : /\ F \in Seq(S) /\ Open = F
                         /\ [kind |-> kind, left |-> n] \in S
                         /\ Open' = Append(F, [kind |-> kind, left |-> n])
                         /\ n \in Nat /\ (kind = "map" => n % 2 = 0)
        BY <1>2
    <2> DEFINE f == [kind |-> kind, left |-> n]
    <2>2. Open'[Len(Open')] = f
        BY <2>1, Pushed
    <2>3. f \in Protocol!Frame /\ f.kind = kind /\ (kind = "map" => f.left % 2 = 0)
        BY <2>1 DEF Protocol!Frame, Protocol!Kind
    <2>4. Open' = Append(Open, f)
        BY <2>1
    <2> HIDE DEF f
    <2>5. Protocol!Start(kind)
        BY <1>2, <2>2, <2>3, <2>4 DEF Protocol!Start, Protocol!Last, Open
    <2> QED
        BY <2>5 DEF Moves, Protocol!Next, Protocol!Kind
<1> QED
    BY <1>1, <1>2

LEMMA ItemStarts ==
    ASSUME Turn = "open", NEW F \in Seq(Protocol!Frame), NEW f \in Protocol!Frame,
           Open = Append(F, f), f.left > 0,
           LastCall' = IF f.kind = "array" THEN "start_array_item"
                       ELSE IF f.left % 2 = 0 THEN "start_map_key" ELSE "start_map_value",
           \/ Turn' = "value" /\ Open' = Append(F, [f EXCEPT !.left = @ - 1])
           \/ Turn' = "stopped" /\ Open' = << >>
    PROVE  Moves
<1>1. Open[Len(Open)] = f /\ SubSeq(Open, 1, Len(Open) - 1) = F
    BY Pushed
<1>2. Protocol!StartItem
    BY <1>1 DEF Protocol!StartItem, Protocol!Last, Protocol!Outer, Protocol!Refused, Open
<1> QED
    BY <1>2 DEF Moves, Protocol!Next

LEMMA ItemsEnd ==
    ASSUME Turn = "ended", NEW F \in Seq(Protocol!Frame), NEW f \in Protocol!Frame,
           Open = Append(F, f),
           LastCall' = IF f.kind = "array" THEN "end_array_item"
                       ELSE IF f.left % 2 = 1 THEN "end_map_key" ELSE "end_map_value",
           \/ Turn' = "open" /\ Open' = Open
           \/ Turn' = "stopped" /\ Open' = << >>
    PROVE  Moves
<1>1. Open[Len(Open)] = f /\ Open # << >>
    BY Pushed
<1>2. Protocol!EndItem
    BY <1>1 DEF Protocol!EndItem, Protocol!Last, Protocol!Refused, Open
<1> QED
    BY <1>2 DEF Moves, Protocol!Next

LEMMA ContainerEnds ==
    ASSUME Turn = "open", NEW F \in Seq(Protocol!Frame), NEW f \in Protocol!Frame,
           Open = Append(F, f), f.left = 0,
           LastCall' = IF f.kind = "array" THEN "end_array" ELSE "end_map",
           \/ Turn' = "ended" /\ Open' = F
           \/ Turn' = "stopped" /\ Open' = << >>
    PROVE  Moves
<1>1. Open[Len(Open)] = f /\ SubSeq(Open, 1, Len(Open) - 1) = F
    BY Pushed
<1>2. Protocol!End
    BY <1>1 DEF Protocol!End, Protocol!Last, Protocol!Outer, Protocol!Refused, Open
<1> QED
    BY <1>2 DEF Moves, Protocol!Next

LEMMA Errs ==
    ASSUME Turn = "value", LastCall' \in {"parse_error", LastCall},
           Turn' = "stopped", Open' = << >>
    PROVE  Moves
BY DEF Moves, Protocol!Next, Protocol!ParseError, Protocol!Refused, Open

LEMMA Renews ==
    ASSUME Turn = "ended", Open = << >>, LastCall' = "init", Turn' = "value", Open' = Open
    PROVE  Moves
BY DEF Moves, Protocol!Next, Protocol!NextMessage, Open
-----------------------------------------------------------------------------
(* Leaving a step.  At(q) collects what the steps of a call share, the bytes up to q
   being read. *)

Reading(q) ==
    /\ Position /\ State /\ Shape /\ Recorded
    /\ pc # "idle"
    /\ UNCHANGED <<stream, arrived, start>>
    /\ q \in Nat /\ off <= q /\ q <= arrived

Stops == Turn' = "stopped" /\ Open' = << >>

LEMMA Numbers == Position => arrived \in Nat /\ stream \in Seq(Byte) /\ Len(stream) \in Nat
BY ParseConstants DEF Position

LEMMA StopsWhen == pc' = "idle" /\ ret' \notin Going => Stops
<1> SUFFICES ASSUME pc' = "idle", ret' \notin Going PROVE Stops
    OBVIOUS
<1>1. TurnAt(pc', ret') = "stopped"
    BY DEF TurnAt, Telling
<1> QED
    BY <1>1, View DEF Stops, OpenAt

\* The visitor refuses a call, by false or by an exception.
LEMMA Refuses ==
    ASSUME NEW q, Reading(q), NEW s \in 0 .. ACS_EXT_VALUE, Refuse(q, s),
           trail' \in Nat, stack' \in Seq(Elem)
    PROVE  Position' /\ State' /\ Shape' /\ Stops
<1>1. CASE Return("stop_visitor", q) /\ cs' = s
    <2>1. off' = q /\ p' = q /\ ret' = "stop_visitor" /\ pc' = "idle"
        BY <1>1 DEF Return
    <2>2. Position'
        BY <2>1, Numbers DEF Reading, Position, Label, Result
    <2>3. State'
        BY <1>1, <2>1 DEF State, Waits, Going
    <2>4. Shape' /\ Stops
        BY <2>1, StopsWhen DEF Shape, Going
    <2> QED
        BY <2>2, <2>3, <2>4
<1>2. CASE Throw
    <2>1. pc' = "idle" /\ ret' = "thrown" /\ UNCHANGED <<off, cs, p>>
        BY <1>2 DEF Throw
    <2>2. Position'
        BY <2>1, Numbers DEF Reading, Position, Label, Result
    <2>3. State'
        BY <2>1 DEF Reading, State, Waits, Going
    <2>4. Shape' /\ Stops
        BY <2>1, StopsWhen DEF Shape, Going
    <2> QED
        BY <2>2, <2>3, <2>4
<1> QED
    BY <1>1, <1>2 DEF Refuse

\* The call goes on at another place.
LEMMA Goes ==
    ASSUME NEW q, Reading(q), NEW label \in Label \ {"idle", "header"}, Goto(label, q),
           UNCHANGED <<cs, trail>>, label # "trail"
    PROVE  Position' /\ State' /\ ret' = ret /\ pc' = label /\ ret' \in Going
<1>1. pc' = label /\ p' = q /\ off' = off /\ ret' = ret
    BY DEF Goto
<1>2. Position'
    BY <1>1, Numbers DEF Reading, Position, Label
<1>3. State'
    BY <1>1 DEF Reading, State, Waits
<1> QED
    BY <1>1, <1>2, <1>3 DEF Reading, Shape

\* The next header, or the end of the bytes.
LEMMA ReadsOn ==
    ASSUME NEW q, Reading(q), HeaderAgain(q), UNCHANGED trail
    PROVE  /\ Position' /\ State'
           /\ pc' \in {"header", "idle"}
           /\ ret' \in Going
<1>1. CASE q = arrived
    <2>1. off' = q /\ p' = q /\ ret' = "continue" /\ pc' = "idle" /\ cs' = CS_HEADER
        BY <1>1 DEF HeaderAgain, Return
    <2>2. Position'
        BY <2>1, Numbers DEF Reading, Position, Label, Result
    <2>3. State'
        BY <2>1 DEF Reading, State, Waits, CS_HEADER, ACS_EXT_VALUE
    <2> QED
        BY <2>1, <2>2, <2>3 DEF Going
<1>2. CASE q # arrived
    <2>1. off' = off /\ p' = q /\ ret' = ret /\ pc' = "header" /\ cs' = CS_HEADER
        BY <1>2 DEF HeaderAgain, Goto
    <2>2. Position'
        BY <1>2, <2>1, Numbers DEF Reading, Position, Label
    <2>3. State'
        BY <2>1 DEF Reading, State, Waits, CS_HEADER, ACS_EXT_VALUE
    <2> QED
        BY <2>1, <2>2, <2>3 DEF Reading, Shape
<1> QED
    BY <1>1, <1>2

\* What a step of a call comes to.
Kept == Inv' /\ Moves

\* In front of a header the visitor expects a value.
ValueNext == pc \in {"header", "trail"}

LEMMA BeforeValue ==
    ASSUME ValueNext, stack \in Seq(Elem)
    PROVE  Turn = "value" /\ Open = FramesOf(stack)
<1>1. Turn = "value"
    BY View, Turns DEF ValueNext
<1>2. Open = FramesOf(stack)
    BY View, OpenSettled DEF ValueNext
<1> QED
    BY <1>1, <1>2

Visited == {"visit_positive_integer", "visit_negative_integer", "visit_nil", "visit_boolean",
            "visit_float32", "visit_float64", "visit_str", "visit_bin", "visit_ext"}

LEMMA VisitKeeps ==
    ASSUME NEW q, Reading(q), ValueNext, NEW name \in Visited, NEW v, Visit(name, v, q),
           trail' \in Nat
    PROVE  Kept
<1>0. stack' = stack /\ stack \in Seq(Elem) /\ cs \in 0 .. ACS_EXT_VALUE
    BY DEF Visit, Reading, Shape, State
<1>1. Recorded' /\ LastCall' = "visit"
    <2>1. NameOf(name) = "visit"
        BY DEF Visited, NameOf, Telling, Starting
    <2> QED
        BY <2>1, Calling DEF Visit, Reading
<1>2. CASE Goto("consume", q) /\ UNCHANGED cs
    <2>1. pc' = "consume" /\ p' = q /\ off' = off /\ ret' = ret
        BY <1>2 DEF Goto
    <2>2. Position'
        BY <2>1, Numbers DEF Reading, Position, Label
    <2>3. State'
        BY <1>2, <2>1 DEF Reading, State, Waits
    <2>4. Shape'
        BY <1>0, <2>1 DEF Reading, Shape, Going
    <2>5. Turn' = "ended" /\ Open' = FramesOf(stack)
        <3>1. TurnAt("consume", ret') = "ended"
            BY Turns
        <3> QED
            BY <1>0, <2>1, <3>1, View, OpenSettled
    <2>6. Moves
        <3>1. Turn = "value" /\ Open' = Open
            BY <1>0, <2>5, BeforeValue
        <3> QED
            BY <1>1, <2>5, <3>1, Visits
    <2> QED
        BY <1>1, <2>2, <2>3, <2>4, <2>6 DEF Kept, Inv
<1>3. CASE Refuse(q, cs)
    <2>1. Position' /\ State' /\ Shape' /\ Stops
        BY <1>0, <1>3, Refuses
    <2>2. Moves
        BY <1>0, <1>1, <2>1, BeforeValue, Visits DEF Stops
    <2> QED
        BY <1>1, <2>1, <2>2 DEF Kept, Inv
<1> QED
    BY <1>2, <1>3 DEF Visit

LEMMA StartKeeps ==
    ASSUME NEW q, Reading(q), ValueNext, NEW type \in {"ARRAY_ITEM", "MAP_KEY"}, NEW n \in Nat,
           Start(type, n, q), trail' = trail
    PROVE  Kept
<1> DEFINE kind == IF type = "ARRAY_ITEM" THEN "array" ELSE "map"
           name == IF type = "ARRAY_ITEM" THEN "start_array" ELSE "start_map"
<1>0. stack \in Seq(Elem) /\ cs \in 0 .. ACS_EXT_VALUE /\ trail \in Nat /\ ret \in Going
    BY DEF Reading, Shape, State
<1>1. Recorded' /\ LastCall' = IF kind = "map" THEN "start_map" ELSE "start_array"
    <2>1. NameOf(name) = name
        BY DEF NameOf, Starting
    <2>2. Recorded' /\ LastCall' = NameOf(name)
        BY Calling DEF Start, Reading
    <2> QED
        BY <2>1, <2>2
<1>2. CASE n = 0 /\ Goto(End(type), q) /\ UNCHANGED <<cs, stack>>
    <2>1. End(type) \in {"end_array", "end_map"} /\ End(type) \in Label
          /\ End(type) \notin {"idle", "header", "trail"}
        BY DEF End, Label, Telling
    <2>2. Position' /\ State' /\ ret' = ret /\ pc' = End(type)
        BY <1>2, <2>1, Goes
    <2>3. Shape'
        BY <1>0, <1>2, <2>1, <2>2 DEF Reading, Shape
    <2>4. Ended(End(type)) = [kind |-> kind, left |-> 0]
        BY DEF Ended, End
    <2>5. Turn' = "open" /\ Open' = Append(FramesOf(stack), [kind |-> kind, left |-> 0])
        <3>1. TurnAt(End(type), ret') = "open"
            BY <2>1 DEF TurnAt, Telling
        <3> QED
            BY <1>0, <1>2, <2>1, <2>2, <2>4, <3>1, View, OpenEnding
    <2>6. [kind |-> kind, left |-> 0] \in Protocol!Frame /\ kind \in {"array", "map"}
        BY DEF Protocol!Frame, Protocol!Kind
    <2>7. Moves
        <3>1. FramesOf(stack) \in Seq(Protocol!Frame) /\ 0 \in Nat /\ 0 % 2 = 0
            BY <1>0, FramesOfSeq
        <3> HIDE DEF kind
        <3> QED
            BY <1>0, <1>1, <2>5, <2>6, <3>1, BeforeValue, Starts
    <2> QED
        BY <1>1, <2>2, <2>3, <2>7 DEF Kept, Inv
<1>3. CASE /\ n > 0
           /\ stack' = Append(stack, [type |-> type, rest |-> n])
           /\ Goto(First(type), q)
           /\ UNCHANGED cs
    <2> DEFINE e == [type |-> type, rest |-> n]
    <2>1. First(type) \in {"start_array_item", "start_map_key"} /\ First(type) \in Label
          /\ First(type) \notin {"idle", "header", "trail"}
        BY DEF First, Label, Telling
    <2>2. Position' /\ State' /\ ret' = ret /\ pc' = First(type)
        BY <1>3, <2>1, Goes
    <2>3. e \in Elem
        BY <1>3 DEF Elem, ContainerType
    <2>4. stack' \in Seq(Elem) /\ Len(stack') > 0 /\ stack'[Len(stack')] = e
        BY <1>0, <1>3, <2>3, Pushed
    <2>5. Shape'
        BY <1>0, <2>1, <2>2, <2>4 DEF Shape, First, top
    <2>6. Turn' = "open" /\ Open' = Append(FramesOf(stack), Beginning(e))
        <3>1. TurnAt(First(type), ret') = "open"
            BY <2>1 DEF TurnAt, Telling
        <3>2. OpenAt(Append(stack, e), First(type), ret') = Append(FramesOf(stack), Beginning(e))
            BY <1>0, <2>3, OpenBeginning DEF First
        <3> QED
            BY <1>3, <2>2, <3>1, <3>2, View
    <2>7. Moves
        <3> DEFINE m == IF type = "ARRAY_ITEM" THEN n ELSE 2 * n
        <3>1. Beginning(e) = [kind |-> kind, left |-> m]
            BY DEF Beginning, KindOf
        <3>2. m \in Nat /\ (kind = "map" => m % 2 = 0)
            OBVIOUS
        <3>3. FramesOf(stack) \in Seq(Protocol!Frame) /\ Beginning(e) \in Protocol!Frame
            BY <1>0, <2>3, FramesOfSeq, SettledFrame
        <3>4. kind \in {"array", "map"}
            OBVIOUS
        <3> HIDE DEF m, kind, e
        <3> QED
            BY <1>0, <1>1, <2>6, <3>1, <3>2, <3>3, <3>4, BeforeValue, Starts
    <2> QED
        BY <1>1, <2>2, <2>4, <2>5, <2>7 DEF Kept, Inv
<1>4. CASE Refuse(q, cs) /\ UNCHANGED stack
    <2>1. Position' /\ State' /\ Shape' /\ Stops
        BY <1>0, <1>4, Refuses
    <2>2. kind \in {"array", "map"}
        OBVIOUS
    <2>3. Moves
        <3> HIDE DEF kind
        <3> QED
            BY <1>0, <1>1, <2>1, <2>2, BeforeValue, Starts DEF Stops
    <2> QED
        BY <1>1, <2>1, <2>3 DEF Kept, Inv
<1> QED
    BY <1>2, <1>3, <1>4 DEF Start

LEMMA AwaitKeeps ==
    ASSUME NEW q, Reading(q), ValueNext, NEW c \in 0 .. ACS_EXT_VALUE, NEW n \in Nat,
           c \in CS_SIZE \cup CS_CONTAINER => n \in {1, 2, 4},
           Await(c, n, q)
    PROVE  Kept
<1>1. /\ cs' = c /\ trail' = n /\ stack' = stack /\ calls' = calls
      /\ pc' = "trail" /\ p' = q /\ off' = off /\ ret' = ret
    BY DEF Await, Goto
<1>2. Position'
    BY <1>1, Numbers DEF Reading, Position, Label
<1>3. State'
    BY <1>1 DEF State, Waits
<1>4. Shape'
    BY <1>1 DEF Reading, Shape, Going
<1>5. Recorded' /\ LastCall' = LastCall
    BY <1>1, NotCalling DEF Reading
<1>6. Open' = FramesOf(stack) /\ Turn' = "value" /\ stack \in Seq(Elem)
    <2>1. stack \in Seq(Elem)
        BY DEF Reading, Shape
    <2>2. TurnAt("trail", ret') = "value"
        BY Turns
    <2> QED
        BY <1>1, <2>1, <2>2, View, OpenSettled
<1>7. Moves
    BY <1>5, <1>6, BeforeValue, Stutters
<1> QED
    BY <1>2, <1>3, <1>4, <1>5, <1>7 DEF Kept, Inv
-----------------------------------------------------------------------------
(* The actions *)

LEMMA ParseErrorKeeps ==
    ASSUME NEW q, Reading(q), pc = "header", q = p, ParseError, trail' = trail
    PROVE  Kept
<1>0. stack' = stack /\ stack \in Seq(Elem) /\ trail \in Nat /\ cs' = cs
    BY DEF Reading, Shape, State, ParseError, Return
<1>1. Recorded' /\ LastCall' = "parse_error"
    <2>1. NameOf("parse_error") = "parse_error"
        BY DEF NameOf
    <2> QED
        BY <2>1, Calling DEF ParseError, Reading
<1>2. off' = p /\ p' = p /\ pc' = "idle" /\ ret' \in {"parse_error", "thrown"}
    BY DEF ParseError, Return
<1>3. Position'
    BY <1>2, Numbers DEF Reading, Position, Label, Result
<1>4. State'
    BY <1>0, <1>2 DEF Reading, State, Waits, Going
<1>5. Shape' /\ Stops
    BY <1>0, <1>2, StopsWhen DEF Shape, Going
<1>6. Moves
    BY <1>0, <1>1, <1>5, BeforeValue, Errs DEF Stops, ValueNext
<1> QED
    BY <1>1, <1>3, <1>4, <1>5, <1>6 DEF Kept, Inv

LEMMA HeaderKeeps == ASSUME Inv, Header PROVE Kept
<1> DEFINE b == At(p)
<1>1. pc = "header" /\ UNCHANGED <<stream, arrived, start>>
    BY DEF Header, data
<1>2. Reading(p + 1) /\ Reading(p) /\ ValueNext
    BY <1>1, Numbers DEF Inv, Reading, Position, ValueNext
<1>3. b \in Byte
    <2>1. p + 1 \in 1 .. Len(stream) /\ stream \in Seq(Byte)
        BY <1>1, Numbers DEF Inv, Position
    <2> QED
        BY <2>1, ElementOfSeq DEF At
<1>4. trail \in Nat
    BY DEF Inv, State
<1> DEFINE q == p + 1
<1> HIDE DEF b, q
<1>5. \/ /\ trail' = trail
         /\ \/ \E name \in Visited : \E v : Visit(name, v, q)
            \/ b \in FixArray /\ Start("ARRAY_ITEM", b - 144, q)
            \/ b \in FixMap /\ Start("MAP_KEY", b - 128, q)
            \/ ParseError
      \/ b \in Variable /\ Await(NEXT_CS(b), FixedTrail(b), q)
      \/ b \in FixExt /\ Await(NEXT_CS(b), FixExtTrail(b), q)
      \/ trail' = 0 /\ Visit("visit_str", << >>, q)
      \/ b \in FixStr \ {160} /\ Await(ACS_STR_VALUE, b - 160, q)
    BY DEF Header, b, q, Visited
<1>6. ASSUME NEW name \in Visited, NEW v, Visit(name, v, q), trail' \in {trail, 0}
      PROVE  Kept
    BY <1>2, <1>4, <1>6, VisitKeeps DEF q
<1>7. CASE b \in FixArray /\ Start("ARRAY_ITEM", b - 144, q) /\ trail' = trail
    <2>1. b - 144 \in Nat
        BY <1>7 DEF FixArray
    <2> QED
        BY <1>2, <1>7, <2>1, StartKeeps DEF q
<1>8. CASE b \in FixMap /\ Start("MAP_KEY", b - 128, q) /\ trail' = trail
    <2>1. b - 128 \in Nat
        BY <1>8 DEF FixMap
    <2> QED
        BY <1>2, <1>8, <2>1, StartKeeps DEF q
<1>9. CASE ParseError /\ trail' = trail
    BY <1>1, <1>2, <1>9, ParseErrorKeeps
<1>10. CASE b \in Variable /\ Await(NEXT_CS(b), FixedTrail(b), q)
    <2>1. NEXT_CS(b) \in 0 .. ACS_EXT_VALUE /\ FixedTrail(b) \in Nat
        BY <1>10, NextState, FixedTrailBound
    <2> QED
        BY <1>2, <1>10, <2>1, SizeTrail, AwaitKeeps DEF q
<1>11. CASE b \in FixExt /\ Await(NEXT_CS(b), FixExtTrail(b), q)
    <2>1. NEXT_CS(b) \in 0 .. ACS_EXT_VALUE /\ FixExtTrail(b) \in Nat
        BY <1>11, NextState, FixExtTrailBound
    <2>2. NEXT_CS(b) \notin CS_SIZE \cup CS_CONTAINER
        BY <1>11, SMT DEF FixExt, NEXT_CS, CS_SIZE, CS_CONTAINER, CS_BIN, CS_EXT, CS_STR,
                          CS_ARRAY, CS_MAP
    <2> QED
        BY <1>2, <1>11, <2>1, <2>2, AwaitKeeps DEF q
<1>12. CASE b \in FixStr \ {160} /\ Await(ACS_STR_VALUE, b - 160, q)
    <2>1. b - 160 \in Nat /\ ACS_STR_VALUE \in 0 .. ACS_EXT_VALUE
        BY <1>12 DEF FixStr, ACS_STR_VALUE, ACS_EXT_VALUE
    <2> QED
        BY <1>2, <1>12, <2>1, ValueIsNoSize, AwaitKeeps DEF q
<1>13. "visit_str" \in Visited
    BY DEF Visited
<1> QED
    BY <1>5, <1>6, <1>7, <1>8, <1>9, <1>10, <1>11, <1>12, <1>13

\* An ext whose size cannot be counted: the parser throws, the visitor is not told.
LEMMA ThrowKeeps ==
    ASSUME NEW q, Reading(q), ValueNext, Throw, UNCHANGED <<stack, calls, trail>>
    PROVE  Kept
<1>1. Position' /\ State' /\ Shape' /\ Stops
    BY Refuses, 0 \in 0 .. ACS_EXT_VALUE DEF Refuse, Reading, Shape, State, ACS_EXT_VALUE
<1>2. Recorded' /\ LastCall' = LastCall
    BY NotCalling DEF Reading
<1>3. Moves
    BY <1>1, <1>2, BeforeValue, Errs DEF Stops, Reading, Shape
<1> QED
    BY <1>1, <1>2, <1>3 DEF Kept, Inv

LEMMA ReadKeeps ==
    ASSUME NEW q, Reading(q), ValueNext, NEW c, NEW bs, Read(c, bs, q),
           c \in CS_SIZE \cup CS_CONTAINER => LoadUnsigned(bs) \in Nat
    PROVE  Kept
<1>1. trail \in Nat
    BY DEF Reading, State
<1>2. CASE /\ c \in CS_NUMBER \cup CS_FIXEXT \cup ACS_VALUE
           /\ \E v : Visit(Visiting(c), v, q)
           /\ trail' = trail
    <2>1. Visiting(c) \in Visited
        BY <1>2, SMT DEF Visiting, Visited, CS_NUMBER, CS_UINT, CS_INT, CS_FLOAT, CS_DOUBLE,
               CS_FIXEXT, CS_STR, CS_BIN, ACS_VALUE, ACS_STR_VALUE, ACS_BIN_VALUE, ACS_EXT_VALUE
    <2> QED
        BY <1>1, <1>2, <2>1, VisitKeeps
<1>3. CASE c \in CS_ARRAY /\ Start("ARRAY_ITEM", LoadUnsigned(bs), q) /\ trail' = trail
    BY <1>3, StartKeeps DEF CS_CONTAINER
<1>4. CASE c \in CS_MAP /\ Start("MAP_KEY", LoadUnsigned(bs), q) /\ trail' = trail
    BY <1>4, StartKeeps DEF CS_CONTAINER
<1>5. CASE Throw /\ UNCHANGED <<stack, calls>> /\ trail' = trail
    BY <1>5, ThrowKeeps
<1>6. CASE /\ c \in CS_STR \cup CS_BIN
           /\ trail' = 0
           /\ Visit(Visiting(c), << >>, q)
    <2>1. Visiting(c) \in Visited
        BY <1>6, SMT DEF Visiting, Visited, CS_UINT, CS_INT, CS_FLOAT, CS_DOUBLE,
               CS_FIXEXT, CS_STR, CS_BIN, ACS_STR_VALUE, ACS_BIN_VALUE, ACS_EXT_VALUE
    <2> QED
        BY <1>6, <2>1, VisitKeeps
<1>7. CASE /\ c \in CS_STR \cup CS_BIN
           /\ Await(ValueState(c), LoadUnsigned(bs), q)
    <2>1. ValueState(c) \in ACS_VALUE /\ ValueState(c) \in 0 .. ACS_EXT_VALUE
        BY DEF ValueState, ACS_VALUE, ACS_STR_VALUE, ACS_BIN_VALUE, ACS_EXT_VALUE
    <2>2. LoadUnsigned(bs) \in Nat
        BY <1>7 DEF CS_SIZE
    <2> QED
        BY <1>7, <2>1, <2>2, ValueIsNoSize, AwaitKeeps
<1>8. CASE /\ c \in CS_EXT
           /\ Await(ACS_EXT_VALUE, ExtTrail(LoadUnsigned(bs)), q)
    <2>1. ACS_EXT_VALUE \in ACS_VALUE /\ ACS_EXT_VALUE \in 0 .. ACS_EXT_VALUE
        BY DEF ACS_VALUE, ACS_EXT_VALUE
    <2>2. ExtTrail(LoadUnsigned(bs)) \in Nat
        <3>1. LoadUnsigned(bs) \in Nat
            BY <1>8 DEF CS_SIZE
        <3> QED
            BY <3>1 DEF ExtTrail
    <2> QED
        BY <1>8, <2>1, <2>2, ValueIsNoSize, AwaitKeeps
<1> QED
    BY <1>2, <1>3, <1>4, <1>5, <1>6, <1>7, <1>8 DEF Read

LEMMA TrailKeeps == ASSUME Inv, Trail PROVE Kept
<1>1. /\ pc = "trail" /\ arrived - p >= trail /\ UNCHANGED <<stream, arrived, start>>
      /\ Read(cs, Bytes(p, trail), p + trail)
    BY DEF Trail, data
<1>2. /\ p \in Nat /\ trail \in Nat /\ arrived \in Nat /\ arrived <= Len(stream)
      /\ stream \in Seq(Byte) /\ Len(stream) \in Nat /\ p + trail <= arrived /\ off <= p
      /\ off \in Nat
    BY <1>1, Numbers DEF Inv, Position, State
<1>3. Reading(p + trail) /\ ValueNext
    BY <1>1, <1>2 DEF Inv, Reading, ValueNext
<1>4. cs \in CS_SIZE \cup CS_CONTAINER => LoadUnsigned(Bytes(p, trail)) \in Nat
    <2> SUFFICES ASSUME cs \in CS_SIZE \cup CS_CONTAINER
                 PROVE  LoadUnsigned(Bytes(p, trail)) \in Nat
        OBVIOUS
    <2>1. trail \in {1, 2, 4}
        BY <1>1 DEF Inv, State, Waits
    <2> DEFINE m == p + 1  n == p + trail
    <2>2. m \in Int /\ n \in Int /\ \A i \in m .. n : stream[i] \in Byte
        BY <1>2
    <2>3. /\ SubSeq(stream, m, n) \in Seq(Byte)
          /\ Len(SubSeq(stream, m, n)) = IF m <= n THEN n - m + 1 ELSE 0
        <3> HIDE DEF m, n
        <3> QED
            BY <2>2, SubSeqProperties
    <2>4. Bytes(p, trail) \in Seq(Byte) /\ Len(Bytes(p, trail)) = trail
        BY <1>2, <2>3 DEF Bytes
    <2> QED
        BY <2>1, <2>4, LoadedSize
<1> QED
    BY <1>1, <1>3, <1>4, ReadKeeps

LEMMA OutKeeps == ASSUME Inv, Out PROVE Kept
<1>1. /\ pc = "trail" /\ off' = p /\ p' = p /\ ret' = "continue" /\ pc' = "idle"
      /\ UNCHANGED <<stream, arrived, start, cs, trail, stack, calls>>
    BY DEF Out, Return, data
<1>2. stack \in Seq(Elem)
    BY DEF Inv, Shape
<1>3. Position'
    BY <1>1, Numbers DEF Inv, Position, Label, Result
<1>4. State'
    BY <1>1 DEF Inv, State, Waits
<1>5. Shape'
    BY <1>1, <1>2 DEF Shape
<1>6. Recorded' /\ LastCall' = LastCall
    BY <1>1, NotCalling DEF Inv
<1>7. Open' = FramesOf(stack) /\ Turn' = "value"
    BY <1>1, <1>2, View, Turns, OpenSettled DEF Going
<1>8. Moves
    BY <1>1, <1>2, <1>6, <1>7, BeforeValue, Stutters DEF ValueNext
<1> QED
    BY <1>3, <1>4, <1>5, <1>6, <1>8 DEF Kept, Inv

\* The container that goes on, or ends, has as many items left as the protocol says.
LEMMA OneLessGoes ==
    ASSUME Reading(p), pc = "consume", NEW s \in Seq(Elem), NEW e \in Elem,
           stack = Append(s, e), NEW type, NEW next, OneLess(type, next),
           \/ type = "ARRAY_ITEM" /\ e.type = "ARRAY_ITEM" /\ next = "start_array_item"
           \/ type = "MAP_KEY" /\ e.type = "MAP_VALUE" /\ next = "start_map_key",
           UNCHANGED <<cs, trail>>
    PROVE  /\ Position' /\ State' /\ Shape'
           /\ Turn' = "open" /\ Open' = Append(FramesOf(s), Settled(e))
<1>1. top > 0 /\ stack[top] = e /\ SubSeq(stack, 1, top - 1) = s
    BY Pushed DEF top
<1>2. e.rest \in Nat /\ e.rest > 0
    BY DEF Elem
<1>3. CASE e.rest = 1
    <2>1. stack' = s /\ Goto(End(type), p)
        BY <1>1, <1>3 DEF OneLess
    <2>2. End(type) \in {"end_array", "end_map"} /\ End(type) \in Label
          /\ End(type) \notin {"idle", "header", "trail"} /\ End(type) \in Telling
        BY DEF End, Label, Telling
    <2>3. Position' /\ State' /\ ret' = ret /\ pc' = End(type) /\ ret' \in Going
        BY <2>1, <2>2, Goes
    <2>4. Shape'
        BY <2>1, <2>2, <2>3 DEF Shape
    <2>5. Turn' = "open" /\ Open' = Append(FramesOf(s), Ended(End(type)))
        BY <2>1, <2>2, <2>3, View, Turns, OpenEnding
    <2>6. Ended(End(type)) = Settled(e)
        BY <1>3 DEF Ended, End, Settled, KindOf
    <2> QED
        BY <2>3, <2>4, <2>5, <2>6
<1>4. CASE e.rest # 1
    <2> DEFINE f == [type |-> type, rest |-> e.rest - 1]
    <2>1. stack' = [stack EXCEPT ![top] = f] /\ Goto(next, p)
        BY <1>1, <1>4 DEF OneLess
    <2>2. f \in Elem
        BY <1>2, <1>4 DEF Elem, ContainerType
    <2>3. stack' = Append(s, f)
        <3> HIDE DEF f
        <3> QED
            BY <2>1, <2>2, Replaced DEF top
    <2>4. next \in {"start_array_item", "start_map_key"} /\ next \in Label
          /\ next \notin {"idle", "header", "trail"} /\ next \in Telling
        BY DEF Label, Telling
    <2>5. Position' /\ State' /\ ret' = ret /\ pc' = next /\ ret' \in Going
        BY <2>1, <2>4, Goes
    <2>6. stack' \in Seq(Elem) /\ Len(stack') > 0 /\ stack'[Len(stack')] = f
        <3> HIDE DEF f
        <3> QED
            BY <2>2, <2>3, Pushed
    <2>7. Shape'
        BY <2>4, <2>5, <2>6 DEF Shape, top
    <2>8. OpenAt(Append(s, f), next, ret') = Append(FramesOf(s), Beginning(f))
        BY <2>2, OpenBeginning
    <2>9. Turn' = "open" /\ Open' = Append(FramesOf(s), Beginning(f))
        BY <2>3, <2>4, <2>5, <2>8, View, Turns
    <2>10. Beginning(f) = Settled(e)
        BY <1>2 DEF Beginning, Settled, KindOf
    <2> QED
        BY <2>5, <2>7, <2>9, <2>10
<1> QED
    BY <1>3, <1>4

LEMMA StoppedState == State => Stopped \in 0 .. ACS_EXT_VALUE
BY DEF State, Stopped, CS_HEADER, ACS_EXT_VALUE

LEMMA ConsumeKeeps == ASSUME Inv, Consume PROVE Kept
<1>0. pc = "consume" /\ top > 0 /\ UNCHANGED <<stream, arrived, start, trail>>
    BY DEF Consume, data
<1>1. Reading(p) /\ trail \in Nat /\ stack \in Seq(Elem) /\ ret \in Going
    BY <1>0, Numbers DEF Inv, Reading, Position, State, Shape
<1> DEFINE s == SubSeq(stack, 1, top - 1)
           e == stack[top]
<1>2. e \in Elem /\ s \in Seq(Elem) /\ stack = Append(s, e)
    BY <1>0, <1>1, Popped DEF top
<1> HIDE DEF s, e
<1>3. e.rest \in Nat /\ e.rest > 0 /\ e.type \in ContainerType
    BY <1>2 DEF Elem
<1>4. Turn = "ended" /\ Open = Append(FramesOf(s), Settled(e))
    <2>1. Open = FramesOf(stack) /\ Turn = "ended"
        BY <1>0, <1>1, View, Turns, OpenSettled
    <2> QED
        BY <1>2, <2>1, FramesOfAppend
<1>5. FramesOf(s) \in Seq(Protocol!Frame) /\ Settled(e) \in Protocol!Frame
    BY <1>2, FramesOfSeq, SettledFrame
<1>6. ASSUME Refuse(p, Stopped), UNCHANGED stack
      PROVE  Position' /\ State' /\ Shape' /\ Stops
    BY <1>1, <1>0, <1>6, StoppedState, Refuses DEF Inv
<1>7. CASE e.type = "ARRAY_ITEM"
    <2>1. /\ Call("end_array_item", << >>)
          /\ \/ OneLess("ARRAY_ITEM", "start_array_item") /\ UNCHANGED cs
             \/ Refuse(p, Stopped) /\ UNCHANGED stack
        BY <1>7 DEF Consume, e
    <2>2. Recorded' /\ LastCall' = "end_array_item"
        BY <1>1, <2>1, Calling DEF Reading, NameOf
    <2>3. Settled(e).kind = "array"
        BY <1>7 DEF Settled, KindOf
    <2>4. /\ Position' /\ State' /\ Shape'
          /\ \/ Turn' = "open" /\ Open' = Open
             \/ Stops
        BY <1>0, <1>1, <1>2, <1>4, <1>6, <1>7, <2>1, OneLessGoes
    <2>5. Moves
        BY <1>4, <1>5, <2>2, <2>3, <2>4, ItemsEnd DEF Stops
    <2> QED
        BY <2>2, <2>4, <2>5 DEF Kept, Inv
<1>8. CASE e.type = "MAP_VALUE"
    <2>1. /\ Call("end_map_value", << >>)
          /\ \/ OneLess("MAP_KEY", "start_map_key") /\ UNCHANGED cs
             \/ Refuse(p, Stopped) /\ UNCHANGED stack
        BY <1>8 DEF Consume, e
    <2>2. Recorded' /\ LastCall' = "end_map_value"
        BY <1>1, <2>1, Calling DEF Reading, NameOf
    <2>3. Settled(e).kind = "map" /\ Settled(e).left = 2 * e.rest - 2
        BY <1>8 DEF Settled, KindOf
    <2>4. Settled(e).left % 2 # 1
        BY <1>3, <2>3
    <2>5. /\ Position' /\ State' /\ Shape'
          /\ \/ Turn' = "open" /\ Open' = Open
             \/ Stops
        BY <1>0, <1>1, <1>2, <1>4, <1>6, <1>8, <2>1, OneLessGoes
    <2>6. Moves
        BY <1>4, <1>5, <2>2, <2>3, <2>4, <2>5, ItemsEnd DEF Stops
    <2> QED
        BY <2>2, <2>5, <2>6 DEF Kept, Inv
<1>9. CASE e.type = "MAP_KEY"
    <2>1. /\ Call("end_map_key", << >>) /\ stack' = stack
          /\ \/ Goto("start_map_value", p) /\ UNCHANGED cs
             \/ Refuse(p, Stopped)
        BY <1>9 DEF Consume, e
    <2>2. Recorded' /\ LastCall' = "end_map_key"
        BY <1>1, <2>1, Calling DEF Reading, NameOf
    <2>3. Settled(e).kind = "map" /\ Settled(e).left = 2 * e.rest - 1
        BY <1>9 DEF Settled, KindOf
    <2>4. Settled(e).left % 2 = 1
        BY <1>3, <2>3
    <2>5. CASE Goto("start_map_value", p) /\ UNCHANGED cs
        <3>1. "start_map_value" \in Label \ {"idle", "header"} /\ "start_map_value" \in Telling
            BY DEF Label, Telling
        <3>2. Position' /\ State' /\ ret' = ret /\ pc' = "start_map_value" /\ ret' \in Going
            BY <1>0, <1>1, <2>5, <3>1, Goes
        <3>3. Shape'
            BY <1>0, <1>1, <1>9, <2>1, <3>2 DEF Shape, top, e
        <3>4. Turn' = "open" /\ Open' = FramesOf(stack)
            BY <1>1, <2>1, <3>1, <3>2, View, Turns, OpenSettled
        <3>5. Open' = Open
            BY <1>2, <1>4, <3>4, FramesOfAppend
        <3>6. Moves
            BY <1>4, <1>5, <2>2, <2>3, <2>4, <3>4, <3>5, ItemsEnd
        <3> QED
            BY <2>2, <3>2, <3>3, <3>6 DEF Kept, Inv
    <2>6. CASE Refuse(p, Stopped)
        <3>1. Position' /\ State' /\ Shape' /\ Stops
            BY <1>6, <2>1, <2>6
        <3>2. Moves
            BY <1>4, <1>5, <2>2, <2>3, <2>4, <3>1, ItemsEnd DEF Stops
        <3> QED
            BY <2>2, <3>1, <3>2 DEF Kept, Inv
    <2> QED
        BY <2>1, <2>5, <2>6
<1> QED
    BY <1>3, <1>7, <1>8, <1>9 DEF ContainerType

LEMMA FinishKeeps == ASSUME Inv, Finish PROVE Kept
<1>1. /\ pc = "consume" /\ top = 0 /\ cs' = Stopped
      /\ off' = p /\ p' = p /\ ret' = "success" /\ pc' = "done"
      /\ UNCHANGED <<stream, arrived, start, trail, stack, calls>>
    BY DEF Finish, Return, data
<1>2. stack \in Seq(Elem) /\ stack = << >>
    BY <1>1, EmptySeq DEF Inv, Shape, top
<1>3. Position'
    BY <1>1, Numbers DEF Inv, Position, Label, Result
<1>4. State'
    BY <1>1, StoppedState DEF Inv, State, Waits
<1>5. Shape'
    BY <1>1, <1>2 DEF Shape, Going
<1>6. Recorded' /\ LastCall' = LastCall
    BY <1>1, NotCalling DEF Inv
<1>7. Turn' = Turn /\ Open' = Open
    BY <1>1, <1>2, View, Turns, OpenSettled, ZenonT(60)
<1>8. Moves
    BY <1>6, <1>7, Stutters
<1> QED
    BY <1>3, <1>4, <1>5, <1>6, <1>8 DEF Kept, Inv

LEMMA StartItemKeeps ==
    ASSUME Inv, NEW call \in {"start_array_item", "start_map_key"}, StartItem(call)
    PROVE  Kept
<1>0. /\ pc = call /\ Call(call, << >>) /\ UNCHANGED <<stream, arrived, start, trail, stack>>
      /\ HeaderAgain(p) \/ Refuse(p, Stopped)
    BY DEF StartItem, data
<1>1. Reading(p) /\ trail \in Nat /\ stack \in Seq(Elem) /\ top > 0 /\ call \in Telling
    BY <1>0, Numbers DEF Inv, Reading, Position, State, Shape, Telling
<1> DEFINE s == SubSeq(stack, 1, top - 1)
           e == stack[top]
<1>2. e \in Elem /\ s \in Seq(Elem) /\ stack = Append(s, e)
    BY <1>1, Popped DEF top
<1>3. \/ call = "start_array_item" /\ e.type = "ARRAY_ITEM"
      \/ call = "start_map_key" /\ e.type = "MAP_KEY"
    BY <1>0 DEF Inv, Shape
<1> HIDE DEF s, e
<1>4. e.rest \in Nat /\ e.rest > 0
    BY <1>2 DEF Elem
<1>5. Turn = "open" /\ Open = Append(FramesOf(s), Beginning(e))
    <2>1. OpenAt(Append(s, e), call, ret) = Append(FramesOf(s), Beginning(e))
        BY <1>2, <1>3, OpenBeginning
    <2> QED
        BY <1>0, <1>1, <1>2, <2>1, View, Turns
<1>6. FramesOf(s) \in Seq(Protocol!Frame) /\ Beginning(e) \in Protocol!Frame
    BY <1>2, FramesOfSeq, SettledFrame
<1>7. Beginning(e).left > 0 /\ [Beginning(e) EXCEPT !.left = @ - 1] = Settled(e)
    BY <1>3, <1>4 DEF Beginning, Settled, KindOf
<1>8. Recorded' /\ LastCall' = call
    BY <1>0, <1>1, Calling DEF Reading, NameOf
<1>9. call = IF Beginning(e).kind = "array" THEN "start_array_item"
             ELSE IF Beginning(e).left % 2 = 0 THEN "start_map_key" ELSE "start_map_value"
    BY <1>3, <1>4 DEF Beginning, KindOf
<1>10. CASE HeaderAgain(p)
    <2>1. Position' /\ State' /\ pc' \in {"header", "idle"} /\ ret' \in Going
        BY <1>0, <1>1, <1>10, ReadsOn
    <2>2. Shape'
        BY <1>0, <1>1, <2>1 DEF Shape
    <2>3. Turn' = "value" /\ Open' = FramesOf(stack)
        BY <1>0, <1>1, <2>1, View, Turns, OpenSettled
    <2>4. Open' = Append(FramesOf(s), Settled(e))
        BY <1>2, <2>3, FramesOfAppend
    <2>5. Moves
        BY <1>5, <1>6, <1>7, <1>8, <1>9, <2>3, <2>4, ItemStarts
    <2> QED
        BY <1>8, <2>1, <2>2, <2>5 DEF Kept, Inv
<1>11. CASE Refuse(p, Stopped)
    <2>1. Position' /\ State' /\ Shape' /\ Stops
        BY <1>0, <1>1, <1>11, StoppedState, Refuses DEF Inv
    <2>2. Moves
        BY <1>5, <1>6, <1>7, <1>8, <1>9, <2>1, ItemStarts DEF Stops
    <2> QED
        BY <1>8, <2>1, <2>2 DEF Kept, Inv
<1> QED
    BY <1>0, <1>10, <1>11

LEMMA StartValueKeeps == ASSUME Inv, StartValue PROVE Kept
<1>0. /\ pc = "start_map_value" /\ Call("start_map_value", << >>)
      /\ UNCHANGED <<stream, arrived, start, trail>>
      /\ \/ stack' = [stack EXCEPT ![top].type = "MAP_VALUE"] /\ HeaderAgain(p)
         \/ Refuse(p, Stopped) /\ UNCHANGED stack
    BY DEF StartValue, data
<1>1. Reading(p) /\ trail \in Nat /\ stack \in Seq(Elem) /\ top > 0
    BY <1>0, Numbers DEF Inv, Reading, Position, State, Shape
<1> DEFINE s == SubSeq(stack, 1, top - 1)
           e == stack[top]
           f == [e EXCEPT !.type = "MAP_VALUE"]
<1>2. e \in Elem /\ s \in Seq(Elem) /\ stack = Append(s, e)
    BY <1>1, Popped DEF top
<1>3. e.type = "MAP_KEY" /\ e.rest \in Nat /\ e.rest > 0
    BY <1>0, <1>2 DEF Inv, Shape, Elem
<1>4. f \in Elem /\ f.type = "MAP_VALUE" /\ f.rest = e.rest
    BY <1>2, <1>3 DEF Elem, ContainerType
<1>5. Turn = "open" /\ Open = Append(FramesOf(s), Settled(e))
    <2> HIDE DEF s, e
    <2>1. "start_map_value" \in Telling
        BY DEF Telling
    <2>2. Open = FramesOf(stack) /\ Turn = "open"
        BY <1>0, <1>1, <2>1, View, Turns, OpenSettled
    <2> QED
        BY <1>2, <2>2, FramesOfAppend
<1>6. [stack EXCEPT ![top].type = "MAP_VALUE"] = [stack EXCEPT ![top] = f]
    OBVIOUS
<1> HIDE DEF s, e, f
<1>7. FramesOf(s) \in Seq(Protocol!Frame) /\ Settled(e) \in Protocol!Frame
    BY <1>2, FramesOfSeq, SettledFrame
<1>8. /\ Settled(e).left = 2 * e.rest - 1 /\ Settled(e).kind = "map"
      /\ [Settled(e) EXCEPT !.left = @ - 1] = Settled(f)
    BY <1>3, <1>4 DEF Settled, KindOf
<1>9. Settled(e).left > 0 /\ Settled(e).left % 2 # 0
    BY <1>3, <1>8
<1>10. Recorded' /\ LastCall' = "start_map_value"
    BY <1>0, <1>1, Calling DEF Reading, NameOf, Telling
<1>11. CASE stack' = [stack EXCEPT ![top].type = "MAP_VALUE"] /\ HeaderAgain(p)
    <2>1. stack' = Append(s, f)
        BY <1>2, <1>4, <1>6, <1>11, Replaced DEF top
    <2>2. stack' \in Seq(Elem)
        BY <1>2, <1>4, <2>1, Pushed
    <2>3. Position' /\ State' /\ pc' \in {"header", "idle"} /\ ret' \in Going
        BY <1>0, <1>1, <1>11, ReadsOn
    <2>4. Shape'
        BY <2>2, <2>3 DEF Shape
    <2>5. Turn' = "value" /\ Open' = FramesOf(stack')
        BY <2>2, <2>3, View, Turns, OpenSettled
    <2>6. Open' = Append(FramesOf(s), Settled(f))
        BY <1>2, <1>4, <2>1, <2>5, FramesOfAppend
    <2>7. Moves
        BY <1>5, <1>7, <1>8, <1>9, <1>10, <2>5, <2>6, ItemStarts
    <2> QED
        BY <1>10, <2>3, <2>4, <2>7 DEF Kept, Inv
<1>12. CASE Refuse(p, Stopped) /\ UNCHANGED stack
    <2>1. Position' /\ State' /\ Shape' /\ Stops
        BY <1>0, <1>1, <1>12, StoppedState, Refuses DEF Inv
    <2>2. Moves
        BY <1>5, <1>7, <1>8, <1>9, <1>10, <2>1, ItemStarts DEF Stops
    <2> QED
        BY <1>10, <2>1, <2>2 DEF Kept, Inv
<1> QED
    BY <1>0, <1>11, <1>12

LEMMA EndContainerKeeps ==
    ASSUME Inv, NEW call \in {"end_array", "end_map"}, EndContainer(call)
    PROVE  Kept
<1>0. /\ pc = call /\ Call(call, << >>) /\ UNCHANGED <<stream, arrived, start, trail, stack>>
      /\ (Goto("consume", p) /\ UNCHANGED cs) \/ Refuse(p, Stopped)
    BY DEF EndContainer, data
<1>1. Reading(p) /\ trail \in Nat /\ stack \in Seq(Elem) /\ call \in Telling
    BY <1>0, Numbers DEF Inv, Reading, Position, State, Shape, Telling
<1>2. Turn = "open" /\ Open = Append(FramesOf(stack), Ended(call))
    BY <1>0, <1>1, View, Turns, OpenEnding
<1>3. FramesOf(stack) \in Seq(Protocol!Frame) /\ Ended(call) \in Protocol!Frame
    BY <1>1, FramesOfSeq DEF Ended, Protocol!Frame, Protocol!Kind
<1>4. Recorded' /\ LastCall' = IF Ended(call).kind = "array" THEN "end_array" ELSE "end_map"
    BY <1>0, <1>1, Calling DEF Reading, NameOf, Ended
<1>5. Ended(call).left = 0
    BY DEF Ended
<1>6. CASE Goto("consume", p) /\ UNCHANGED cs
    <2>1. Position' /\ State' /\ ret' = ret /\ pc' = "consume" /\ ret' \in Going
        BY <1>0, <1>1, <1>6, Goes DEF Label
    <2>2. Shape'
        BY <1>0, <1>1, <2>1 DEF Shape
    <2>3. Turn' = "ended" /\ Open' = FramesOf(stack)
        BY <1>0, <1>1, <2>1, View, Turns, OpenSettled
    <2>4. Moves
        BY <1>2, <1>3, <1>4, <1>5, <2>3, ContainerEnds
    <2> QED
        BY <1>4, <2>1, <2>2, <2>4 DEF Kept, Inv
<1>7. CASE Refuse(p, Stopped)
    <2>1. Position' /\ State' /\ Shape' /\ Stops
        BY <1>0, <1>1, <1>7, StoppedState, Refuses DEF Inv
    <2>2. Moves
        BY <1>2, <1>3, <1>4, <1>5, <2>1, ContainerEnds DEF Stops
    <2> QED
        BY <1>4, <2>1, <2>2 DEF Kept, Inv
<1> QED
    BY <1>0, <1>6, <1>7

LEMMA Init_NextKeeps == ASSUME Inv, Init_Next PROVE Kept
<1>1. /\ pc = "done" /\ cs' = CS_HEADER /\ trail' = 0 /\ stack' = << >> /\ calls' = << >>
      /\ start' = off /\ pc' = "idle" /\ UNCHANGED <<stream, arrived, off, p, ret>>
    BY DEF Init_Next
<1>2. stack = << >> /\ ret = "success" /\ << >> \in Seq(Elem)
    BY <1>1, EmptySeq DEF Inv, Shape
<1>3. Position'
    BY <1>1, Numbers DEF Inv, Position, Label
<1>4. State'
    BY <1>1 DEF State, Waits, CS_HEADER, ACS_EXT_VALUE
<1>5. Shape' /\ Recorded'
    BY <1>1, <1>2, EmptySeq DEF Shape, Recorded
<1>6. LastCall' = "init"
    BY <1>1 DEF LastCall
<1>7. FramesOf(<< >>) = << >>
    BY <1>2, FramesOfSeq, EmptySeq
<1>8. Turn = "ended" /\ Open = << >> /\ Turn' = "value" /\ Open' = << >>
    BY <1>1, <1>2, <1>7, View, Turns, OpenSettled DEF Going
<1>9. Moves
    BY <1>6, <1>8, Renews
<1> QED
    BY <1>3, <1>4, <1>5, <1>9 DEF Kept, Inv

LEMMA ExecuteKeeps == ASSUME Inv, Execute PROVE Kept
<1>1. /\ pc = "idle" /\ ret \in Going /\ off # arrived /\ p' = off
      /\ pc' = IF cs = CS_HEADER THEN "header" ELSE "trail"
      /\ UNCHANGED <<stream, arrived, start, off, cs, trail, stack, ret, calls>>
    BY DEF Execute, data, Going
<1>2. stack \in Seq(Elem)
    BY DEF Inv, Shape
<1>3. Position'
    BY <1>1, Numbers DEF Inv, Position, Label
<1>4. State'
    BY <1>1 DEF Inv, State, Waits
<1>5. Shape'
    BY <1>1, <1>2 DEF Shape
<1>6. Recorded' /\ LastCall' = LastCall
    BY <1>1, NotCalling DEF Inv
<1>7. Turn' = Turn /\ Open' = Open
    BY <1>1, <1>2, View, Turns, OpenSettled
<1> QED
    BY <1>3, <1>4, <1>5, <1>6, <1>7, Stutters DEF Kept, Inv

\* Nothing but the bytes received, or nothing at all, has changed.
LEMMA StillKeeps ==
    ASSUME Inv, arrived' \in arrived .. Len(stream), pc = "idle" \/ arrived' = arrived,
           UNCHANGED <<stream, off, cs, trail, stack, p, pc, ret, calls, start>>
    PROVE  Kept
<1>1. Position'
    BY Numbers DEF Inv, Position
<1>2. State' /\ Shape'
    BY DEF Inv, State, Shape, Waits, top
<1>3. Recorded' /\ LastCall' = LastCall
    BY NotCalling DEF Inv
<1>4. Turn' = Turn /\ Open' = Open
    BY View
<1> QED
    BY <1>1, <1>2, <1>3, <1>4, Stutters DEF Kept, Inv

LEMMA ParseStep == Inv /\ [Next]_vars => Kept
<1> SUFFICES ASSUME Inv, [Next]_vars PROVE Kept
    OBVIOUS
<1>1. ASSUME NEW n \in 1 .. Len(stream), Arrive(n) PROVE Kept
    <2>1. arrived' \in arrived .. Len(stream)
        BY <1>1, Numbers DEF Arrive, Inv
    <2> QED
        BY <1>1, <2>1, StillKeeps DEF Arrive
<1>2. CASE UNCHANGED vars
    <2>1. arrived \in arrived .. Len(stream)
        BY Numbers DEF Inv, Position
    <2> QED
        BY <1>2, <2>1, StillKeeps DEF vars
<1>3. CASE Continue
    BY <1>3, HeaderKeeps, TrailKeeps, OutKeeps, ConsumeKeeps, FinishKeeps, StartItemKeeps,
       StartValueKeeps, EndContainerKeeps, Init_NextKeeps DEF Continue
<1> QED
    BY <1>1, <1>2, <1>3, ExecuteKeeps DEF Next

LEMMA ParseInit == Init => Inv
<1> SUFFICES ASSUME Init PROVE Inv
    OBVIOUS
<1>1. stream \in Seq(Byte)
    BY ParseConstants DEF Init
<1>2. Position
    BY <1>1, LenProperties DEF Init, Position, Label, Result
<1>3. State
    BY DEF Init, State, Waits, CS_HEADER, ACS_EXT_VALUE
<1>4. Shape /\ Recorded
    BY EmptySeq DEF Init, Shape, Recorded
<1> QED
    BY <1>2, <1>3, <1>4 DEF Inv

LEMMA Invariance == Spec => []Inv
<1>1. Inv /\ [Next]_vars => Inv'
    BY ParseStep DEF Kept
<1> QED
    BY <1>1, ParseInit, PTL DEF Spec
-----------------------------------------------------------------------------
(* The theorems *)

\* Types of the parser's fields; a size that is waited for is a natural number.
THEOREM ParseTypeOK == Spec => []TypeOK
<1>1. Inv => TypeOK
    BY DEF Inv, Position, State, Shape, TypeOK, Label, Result
<1> QED
    BY <1>1, Invariance, PTL

\* Only bytes that have arrived are read, and off never runs ahead of what was read.
THEOREM ParseReadsReceived == Spec => []ReadsReceived
<1>1. Inv => ReadsReceived
    BY DEF Inv, Position, ReadsReceived
<1> QED
    BY <1>1, Invariance, PTL

LEMMA InitRefines == Init => Protocol!Init
<1> SUFFICES ASSUME Init PROVE Protocol!Init
    OBVIOUS
<1>1. Turn = "value" /\ LastCall = "init"
    BY View, Turns DEF Init, LastCall, Going
<1>2. Open = FramesOf(<< >>)
    BY View, OpenSettled, EmptySeq DEF Init, Going
<1>3. FramesOf(<< >>) = << >>
    BY FramesOfSeq, EmptySeq
<1> QED
    BY <1>1, <1>2, <1>3 DEF Protocol!Init, Open

\* The visitor is called in the order of VisitorProtocol, whatever the chunks: each
\* container gets the items announced, and a call that is refused is the last one.
THEOREM ParseRefinesVisitorProtocol == Spec => RefinesVisitorProtocol
<1>1. Inv /\ [Next]_vars => [Protocol!Next]_(Protocol!vars)
    BY ParseStep DEF Kept, Moves
<1> QED
    BY <1>1, InitRefines, Invariance, PTL DEF RefinesVisitorProtocol, Protocol!Spec, Spec
-----------------------------------------------------------------------------
(* The places of create_object_visitor.  A place leads through the block of an open *)
(* container, the cells in front of it not written yet.                             *)

Spot == [block : Nat, index : Nat]

\* The items that a container has still to start, one being under way.
Remaining(e) ==
    CASE e.type = "ARRAY_ITEM" -> e.rest - 1
      [] e.type = "MAP_KEY"    -> 2 * e.rest - 1
      [] e.type = "MAP_VALUE"  -> 2 * e.rest - 2

\* Place at of a memory m has n cells in front of it, which nobody has written.
Ahead(m, at, n) ==
    /\ at.block \in 2 .. Len(m)
    /\ at.index \in 1 .. Len(m[at.block])
    /\ Len(m[at.block]) - at.index = n
    /\ \A j \in at.index + 1 .. Len(m[at.block]) : m[at.block][j] = Garbage

\* The places are the root's and one for each count, in blocks allocated one after another.
Nested(m, places, counts) ==
    /\ Len(places) = Len(counts) + 1
    /\ places[1] = Place(1, 1) /\ Len(m) > 0 /\ Len(m[1]) = 1
    /\ \A i \in 1 .. Len(counts) : Ahead(m, places[i + 1], Remaining(counts[i]))
    /\ \A i, j \in 1 .. Len(places) : i < j => places[i].block < places[j].block

\* Nobody has written the cell at a place.
Unwritten(m, at) == m[at.block][at.index] = Garbage

\* What is written to a place, and a block of k cells from the zone.
WrittenAt(m, at, o) == [m EXCEPT ![at.block][at.index] = o]
Allocated(m, k) == Append(m, [i \in 1 .. k |-> Garbage])

Topmost(s) == s[Len(s)]
Outer(s) == SubSeq(s, 1, Len(s) - 1)

\* A memory is a sequence of blocks, of whatever the cells are.
Memory(m) == \E S : m \in Seq(Seq(S))

LEMMA RemainingNat == ASSUME NEW e \in Elem PROVE Remaining(e) \in Nat
<1>1. e.rest \in Nat /\ e.rest > 0 /\ e.type \in ContainerType
    BY DEF Elem
<1> QED
    BY <1>1 DEF Remaining, ContainerType

LEMMA OuterSeq ==
    ASSUME NEW S, NEW s \in Seq(S), Len(s) > 0
    PROVE  /\ Outer(s) \in Seq(S) /\ Len(Outer(s)) = Len(s) - 1
           /\ \A i \in 1 .. Len(s) - 1 : Outer(s)[i] = s[i]
           /\ Topmost(s) \in S
<1>1. Len(s) \in Nat /\ \A i \in 1 .. Len(s) : s[i] \in S
    OBVIOUS
<1>2. \A i \in 1 .. Len(s) - 1 : s[i] \in S
    BY <1>1
<1>3. /\ Outer(s) \in Seq(S)
      /\ Len(Outer(s)) = IF 1 <= Len(s) - 1 THEN Len(s) - 1 - 1 + 1 ELSE 0
      /\ \A i \in 1 .. Len(s) - 1 - 1 + 1 : Outer(s)[i] = s[1 + i - 1]
    BY <1>1, <1>2, SubSeqProperties DEF Outer
<1>4. Len(Outer(s)) = Len(s) - 1
    <2>1. Len(Outer(s)) = IF 1 <= Len(s) - 1 THEN Len(s) - 1 - 1 + 1 ELSE 0
        BY <1>3
    <2>2. CASE Len(s) = 1
        BY <2>1, <2>2
    <2>3. CASE Len(s) > 1
        BY <1>1, <2>1, <2>3
    <2>4. Len(s) = 1 \/ Len(s) > 1
        <3> DEFINE n == Len(s)
        <3>1. n \in Nat /\ n > 0
            OBVIOUS
        <3> HIDE DEF n
        <3>2. n = 1 \/ n > 1
            BY <3>1
        <3> QED
            BY <3>2 DEF n
    <2> QED
        BY <2>2, <2>3, <2>4
<1>5. \A i \in 1 .. Len(s) - 1 : Outer(s)[i] = s[i]
    <2> HIDE DEF Outer
    <2> TAKE i \in 1 .. Len(s) - 1
    <2>1. i \in 1 .. Len(s) - 1 - 1 + 1 /\ 1 + i - 1 = i
        BY <1>1
    <2> QED
        BY <1>3, <2>1
<1>6. Topmost(s) \in S
    BY <1>1 DEF Topmost
<1> QED
    BY <1>3, <1>4, <1>5, <1>6

LEMMA IsSeq == ASSUME NEW S, NEW n \in Nat, NEW f \in [1 .. n -> S] PROVE f \in Seq(S)
OBVIOUS

LEMMA OuterAppend ==
    ASSUME NEW S, NEW s \in Seq(S), NEW e \in S
    PROVE  Outer(Append(s, e)) = s /\ Topmost(Append(s, e)) = e
BY Pushed DEF Outer, Topmost

\* Where the innermost place is, and that no other one is in its block.
LEMMA InnermostInside ==
    ASSUME NEW m, Memory(m), NEW places \in Seq(Spot), NEW counts \in Seq(Elem),
           Nested(m, places, counts)
    PROVE  /\ Topmost(places).block \in 1 .. Len(m)
           /\ Topmost(places).index \in 1 .. Len(m[Topmost(places).block])
           /\ \A i \in 1 .. Len(places) :
                 i < Len(places) => places[i].block < Topmost(places).block
           /\ Topmost(places) \in Spot
           /\ Len(m) \in Nat /\ \A b \in 1 .. Len(m) : Len(m[b]) \in Nat
<1>1. /\ Len(m) \in Nat /\ \A b \in 1 .. Len(m) : Len(m[b]) \in Nat
    <2>1. PICK S : m \in Seq(Seq(S))
        BY DEF Memory
    <2>2. \A b \in 1 .. Len(m) : m[b] \in Seq(S)
        BY <2>1
    <2> QED
        BY <2>1, <2>2
<1>2. Len(counts) \in Nat /\ Len(places) = Len(counts) + 1
    BY DEF Nested
<1>3. Topmost(places) \in Spot
    BY <1>2, OuterSeq
<1>4. \A i \in 1 .. Len(places) : i < Len(places) => places[i].block < Topmost(places).block
    BY <1>2 DEF Nested, Topmost
<1>5. /\ Topmost(places).block \in 1 .. Len(m)
      /\ Topmost(places).index \in 1 .. Len(m[Topmost(places).block])
    <2>1. CASE Len(counts) = 0
        <3>1. Topmost(places) = Place(1, 1) /\ Len(m) > 0 /\ Len(m[1]) = 1
            BY <1>2, <2>1 DEF Nested, Topmost
        <3> QED
            BY <1>1, <3>1, SMTT(30) DEF Place
    <2>2. CASE Len(counts) > 0
        <3>1. Ahead(m, places[Len(counts) + 1], Remaining(counts[Len(counts)]))
            BY <1>2, <2>2 DEF Nested
        <3> QED
            BY <1>1, <1>2, <3>1 DEF Ahead, Topmost
    <2> QED
        BY <1>2, <2>1, <2>2
<1> QED
    BY <1>1, <1>3, <1>4, <1>5

\* What is written to the innermost place.
LEMMA WriteKeeps ==
    ASSUME NEW m, Memory(m), NEW places \in Seq(Spot), NEW counts \in Seq(Elem),
           Nested(m, places, counts), NEW o
    PROVE  LET w == WrittenAt(m, Topmost(places), o)
           IN  Memory(w) /\ Len(w) = Len(m) /\ Nested(w, places, counts)
<1> DEFINE at == Topmost(places)
           w == WrittenAt(m, at, o)
<1>1. PICK S : m \in Seq(Seq(S))
    BY DEF Memory
<1> DEFINE T == S \cup {o}
           b == at.block
           blk == [m[b] EXCEPT ![at.index] = o]
<1>2. /\ b \in 1 .. Len(m) /\ at.index \in 1 .. Len(m[b]) /\ Len(m) \in Nat
      /\ \A c \in 1 .. Len(m) : Len(m[c]) \in Nat
      /\ \A i \in 1 .. Len(places) : i < Len(places) => places[i].block < b
    BY InnermostInside
<1>3. \A c \in 1 .. Len(m) : m[c] \in Seq(T)
    <2>1. S \subseteq T
        OBVIOUS
    <2> HIDE DEF T
    <2>2. \A c \in 1 .. Len(m) : m[c] \in Seq(S)
        BY <1>1
    <2> QED
        BY <2>1, <2>2, SeqMonotonic
<1>4. m \in Seq(Seq(T))
    <2>1. m \in [1 .. Len(m) -> Seq(S)]
        BY <1>1, LenProperties
    <2>2. m \in [1 .. Len(m) -> Seq(T)]
        BY <1>3, <2>1
    <2> QED
        BY <1>2, <2>2, IsSeq
<1>5. /\ blk \in Seq(T) /\ Len(blk) = Len(m[b])
      /\ \A j \in 1 .. Len(m[b]) : blk[j] = IF j = at.index THEN o ELSE m[b][j]
    <2>1. o \in T
        OBVIOUS
    <2> HIDE DEF T, b
    <2> QED
        BY <1>2, <1>3, <2>1, ExceptSeq
<1>6. w = [m EXCEPT ![b] = blk]
    BY DEF WrittenAt
<1>14. Topmost(places) = at
    OBVIOUS
<1> HIDE DEF T, b, blk, w, at
<1>7. /\ w \in Seq(Seq(T)) /\ Len(w) = Len(m)
      /\ \A c \in 1 .. Len(m) : w[c] = IF c = b THEN blk ELSE m[c]
    <2> DEFINE X == Seq(T)
    <2>1. m \in Seq(X) /\ blk \in X
        BY <1>4, <1>5
    <2> HIDE DEF X
    <2>2. /\ [m EXCEPT ![b] = blk] \in Seq(X) /\ Len([m EXCEPT ![b] = blk]) = Len(m)
          /\ \A c \in 1 .. Len(m) : [m EXCEPT ![b] = blk][c] = IF c = b THEN blk ELSE m[c]
        BY <1>2, <2>1, ExceptSeq
    <2> QED
        BY <1>6, <2>2 DEF X
<1>8. Memory(w)
    BY <1>7 DEF Memory
<1>9. \A c \in 1 .. Len(m) : Len(w[c]) = Len(m[c])
    BY <1>2, <1>5, <1>7
<1>10. Len(counts) \in Nat /\ Len(places) = Len(counts) + 1
    BY DEF Nested
<1>11. ASSUME NEW i \in 1 .. Len(counts)
       PROVE  Ahead(w, places[i + 1], Remaining(counts[i]))
    <2> DEFINE q == places[i + 1]
    <2>1. Ahead(m, q, Remaining(counts[i]))
        BY DEF Nested
    <2>2. q \in Spot
        BY <1>10
    <2>3. q.block \in 1 .. Len(m) /\ Len(w[q.block]) = Len(m[q.block])
        <3> DEFINE c == q.block
        <3>1. c \in 2 .. Len(m)
            BY <2>1 DEF Ahead
        <3> HIDE DEF c
        <3>2. c \in 1 .. Len(m)
            BY <1>2, <3>1
        <3>3. Len(w[c]) = Len(m[c])
            BY <1>9, <3>2
        <3> QED
            BY <3>2, <3>3 DEF c
    <2>4. ASSUME NEW j \in q.index + 1 .. Len(m[q.block])
          PROVE  w[q.block][j] = m[q.block][j]
        <3>1. CASE i + 1 = Len(places)
            <4>1. q = at
                BY <1>14, <3>1 DEF Topmost
            <4>2. j \in 1 .. Len(m[b]) /\ j # at.index
                BY <1>2, <4>1, <2>2, SMTT(30) DEF b, Spot
            <4> QED
                BY <1>2, <1>5, <1>7, <4>1, <4>2 DEF b
        <3>2. CASE i + 1 # Len(places)
            <4>1. q.block < b
                BY <1>2, <1>10, <3>2, SMTT(30)
            <4>2. q.block # b
                BY <1>2, <2>3, <4>1
            <4> QED
                BY <1>7, <2>3, <4>2
        <3> QED
            BY <3>1, <3>2
    <2> HIDE DEF q
    <2>5. Ahead(w, q, Remaining(counts[i]))
        BY <1>7, <2>1, <2>3, <2>4 DEF Ahead
    <2> QED
        BY <2>5 DEF q
<1>12. Len(w[1]) = 1 /\ Len(w) > 0
    BY <1>2, <1>7, <1>9 DEF Nested
<1>13. Nested(w, places, counts)
    BY <1>11, <1>12 DEF Nested
<1> QED
    BY <1>7, <1>8, <1>13 DEF w, at

\* A container of k cells is allocated, and its place pushed.
LEMMA PushKeeps ==
    ASSUME NEW m, Memory(m), NEW places \in Seq(Spot), NEW counts \in Seq(Elem),
           Nested(m, places, counts), NEW e \in Elem, NEW k \in Nat,
           Remaining(e) = k - 1,
           NEW q, q = Place(Len(m) + 1, 1)
    PROVE  LET w == Allocated(m, k)
           IN  /\ Memory(w) /\ q \in Spot /\ Unwritten(w, q)
               /\ Nested(w, Append(places, q), Append(counts, e))
<1>1. PICK S : m \in Seq(Seq(S))
    BY DEF Memory
<1> DEFINE T == S \cup {Garbage}
           X == Seq(T)
           blk == [i \in 1 .. k |-> Garbage]
           w == Allocated(m, k)
<1>2. m \in Seq(X)
    <2>1. S \subseteq T
        OBVIOUS
    <2>2. Seq(S) \subseteq Seq(T)
        <3> HIDE DEF T
        <3> QED
            BY <2>1, SeqMonotonic
    <2> HIDE DEF T
    <2> DEFINE Y == Seq(S)
    <2>3. m \in Seq(Y) /\ Y \subseteq X
        BY <1>1, <2>2
    <2> HIDE DEF X, Y
    <2> QED
        BY <2>3, SeqMonotonic
<1>3. blk \in X /\ Len(blk) = k /\ \A j \in 1 .. k : blk[j] = Garbage
    <2>1. blk \in [1 .. k -> T]
        OBVIOUS
    <2>2. \A j \in 1 .. k : blk[j] = Garbage
        OBVIOUS
    <2> HIDE DEF T, blk
    <2>3. blk \in Seq(T)
        BY <2>1, IsSeq
    <2>4. Len(blk) = k
        BY <2>1
    <2> QED
        BY <2>2, <2>3, <2>4
<1> HIDE DEF T, blk, X
<1>4. /\ w \in Seq(X) /\ Len(w) = Len(m) + 1 /\ Len(m) \in Nat
      /\ \A c \in 1 .. Len(m) : w[c] = m[c]
      /\ w[Len(m) + 1] = blk
    <2>1. w = Append(m, blk)
        BY DEF blk, w, Allocated
    <2> HIDE DEF w
    <2> QED
        BY <1>2, <1>3, <2>1, AppendProperties, LenProperties
<1> HIDE DEF w
<1>5. Memory(w)
    BY <1>4 DEF Memory, X
<1>6. q \in Spot /\ q.block = Len(m) + 1 /\ q.index = 1
    BY <1>4 DEF Place, Spot
<1>7. k \in Nat \ {0} /\ Len(counts) \in Nat /\ Len(places) = Len(counts) + 1
    BY RemainingNat DEF Nested
<1>8. Unwritten(w, q)
    BY <1>3, <1>4, <1>6, <1>7 DEF Unwritten
<1> DEFINE P == Append(places, q)
           C == Append(counts, e)
<1>9. /\ P \in Seq(Spot) /\ Len(P) = Len(places) + 1
      /\ \A i \in 1 .. Len(places) : P[i] = places[i]
      /\ P[Len(places) + 1] = q
    BY <1>6, AppendProperties
<1>10. /\ C \in Seq(Elem) /\ Len(C) = Len(counts) + 1
       /\ \A i \in 1 .. Len(counts) : C[i] = counts[i]
       /\ C[Len(counts) + 1] = e
    BY AppendProperties
<1> HIDE DEF P, C
<1>11. P[1] = Place(1, 1) /\ Len(w) > 0 /\ Len(w[1]) = 1
    BY <1>4, <1>7, <1>9 DEF Nested
<1>12. ASSUME NEW i \in 1 .. Len(C) PROVE Ahead(w, P[i + 1], Remaining(C[i]))
    <2>1. CASE i = Len(C)
        <3>1. P[i + 1] = q /\ C[i] = e
            BY <1>7, <1>9, <1>10, <2>1
        <3>2. w[q.block] = blk /\ q.block \in 2 .. Len(w)
            BY <1>4, <1>6 DEF Nested
        <3>3. q.index \in 1 .. Len(w[q.block]) /\ Len(w[q.block]) - q.index = Remaining(e)
            BY <1>3, <1>6, <1>7, <3>2, SMTT(30)
        <3>4. \A j \in q.index + 1 .. Len(w[q.block]) : w[q.block][j] = Garbage
            BY <1>3, <1>6, <1>7, <3>2, SMTT(30)
        <3>5. Ahead(w, q, Remaining(e))
            BY <3>2, <3>3, <3>4 DEF Ahead
        <3> QED
            BY <3>1, <3>5
    <2>2. CASE i # Len(C)
        <3>1. i \in 1 .. Len(counts)
            BY <1>7, <1>10, <2>2
        <3>2. C[i] = counts[i] /\ P[i + 1] = places[i + 1]
            BY <1>7, <1>9, <1>10, <3>1
        <3>3. Ahead(m, places[i + 1], Remaining(counts[i]))
            BY <3>1 DEF Nested
        <3> DEFINE g == places[i + 1]
        <3>4. g.block \in 2 .. Len(m) /\ g.block \in 2 .. Len(w) /\ w[g.block] = m[g.block]
            BY <1>4, <3>3, SMTT(30) DEF Ahead
        <3> HIDE DEF g
        <3>5. Ahead(w, g, Remaining(counts[i]))
            BY <3>3, <3>4 DEF Ahead, g
        <3> QED
            BY <3>2, <3>5 DEF g
    <2> QED
        BY <2>1, <2>2
<1>13. ASSUME NEW i \in 1 .. Len(P), NEW j \in 1 .. Len(P), i < j
       PROVE  P[i].block < P[j].block
    <2>1. i \in 1 .. Len(places) /\ P[i] = places[i]
        BY <1>7, <1>9, <1>13
    <2>2. CASE j = Len(P)
        <3>1. places[i].block \in 1 .. Len(m)
            <4>1. CASE i = 1
                BY <1>4, <4>1 DEF Nested, Place
            <4>2. CASE i # 1
                <5>1. i - 1 \in 1 .. Len(counts) /\ i - 1 + 1 = i
                    BY <1>7, <2>1, <4>2
                <5>2. Ahead(m, places[i], Remaining(counts[i - 1]))
                    BY <5>1 DEF Nested
                <5> QED
                    BY <1>4, <5>2, SMTT(30) DEF Ahead
            <4> QED
                BY <4>1, <4>2
        <3>2. P[j].block = Len(m) + 1
            BY <1>6, <1>9, <2>2
        <3> QED
            BY <1>4, <2>1, <3>1, <3>2
    <2>3. CASE j # Len(P)
        <3>1. j \in 1 .. Len(places) /\ P[j] = places[j]
            BY <1>7, <1>9, <2>3
        <3> QED
            BY <1>13, <2>1, <3>1 DEF Nested
    <2> QED
        BY <2>2, <2>3
<1>14. Nested(w, P, C)
    BY <1>7, <1>9, <1>10, <1>11, <1>12, <1>13 DEF Nested
<1> QED
    BY <1>5, <1>6, <1>8, <1>14 DEF P, C, w

\* A container has ended, and its place is popped.
LEMMA PopKeeps ==
    ASSUME NEW m, NEW places \in Seq(Spot), NEW counts \in Seq(Elem),
           Nested(m, places, counts), Len(counts) > 0
    PROVE  Nested(m, Outer(places), Outer(counts))
<1>1. Len(counts) \in Nat /\ Len(places) = Len(counts) + 1
    BY DEF Nested
<1> DEFINE P == Outer(places)
           C == Outer(counts)
<1>2. /\ Len(P) = Len(counts) /\ Len(C) = Len(counts) - 1
      /\ \A i \in 1 .. Len(counts) : P[i] = places[i]
      /\ \A i \in 1 .. Len(counts) - 1 : C[i] = counts[i]
    <2>1. /\ Len(P) = Len(places) - 1
          /\ \A i \in 1 .. Len(places) - 1 : P[i] = places[i]
        BY <1>1, OuterSeq
    <2>2. /\ Len(C) = Len(counts) - 1
          /\ \A i \in 1 .. Len(counts) - 1 : C[i] = counts[i]
        BY OuterSeq
    <2> HIDE DEF P, C
    <2>3. Len(places) - 1 = Len(counts)
        BY <1>1
    <2> QED
        BY <2>1, <2>2, <2>3
<1> HIDE DEF P, C
<1>3. P[1] = Place(1, 1) /\ Len(m) > 0 /\ Len(m[1]) = 1
    BY <1>1, <1>2 DEF Nested
<1>4. ASSUME NEW i \in 1 .. Len(C) PROVE Ahead(m, P[i + 1], Remaining(C[i]))
    <2>1. i \in 1 .. Len(counts) /\ P[i + 1] = places[i + 1] /\ C[i] = counts[i]
        BY <1>1, <1>2
    <2> QED
        BY <2>1 DEF Nested
<1>5. \A i, j \in 1 .. Len(P) : i < j => P[i].block < P[j].block
    BY <1>1, <1>2 DEF Nested
<1>6. Len(P) = Len(C) + 1
    BY <1>1, <1>2
<1> QED
    BY <1>3, <1>4, <1>5, <1>6 DEF Nested, P, C

LEMMA OneNearer == \A l, k, r \in Nat : l - k = r + 1 => l - (k + 1) = r
OBVIOUS

\* An item has ended, and the place is led on.
LEMMA ForwardKeeps ==
    ASSUME NEW m, Memory(m), NEW places \in Seq(Spot), NEW counts \in Seq(Elem),
           Nested(m, places, counts), Len(counts) > 0, NEW e \in Elem,
           Remaining(e) = Remaining(counts[Len(counts)]) - 1,
           NEW P, P = [places EXCEPT ![Len(places)].index = @ + 1],
           NEW C, C = [counts EXCEPT ![Len(counts)] = e]
    PROVE  P \in Seq(Spot) /\ Nested(m, P, C) /\ Unwritten(m, Topmost(P))
<1>1. /\ Len(counts) \in Nat /\ Len(places) = Len(counts) + 1
      /\ \A b \in 1 .. Len(m) : Len(m[b]) \in Nat
      /\ Len(m) \in Nat
    BY InnermostInside DEF Nested
<1> DEFINE n == Len(places)
           at == places[n]
           to == [block |-> at.block, index |-> at.index + 1]
<1>2. at \in Spot /\ to \in Spot /\ n \in 1 .. Len(places)
    <2>1. at \in Spot
        BY <1>1
    <2> QED
        BY <1>1, <2>1 DEF Spot
<1>3. P = [places EXCEPT ![n] = to]
    <2>1. [at EXCEPT !.index = @ + 1] = to
        BY <1>2, SMTT(30) DEF Spot
    <2> QED
        BY <2>1
<1>4. /\ to.block = at.block /\ to.index = at.index + 1
      /\ at.block \in Nat /\ at.index \in Nat
    BY <1>2 DEF Spot
<1> HIDE DEF to
<1>5. /\ P \in Seq(Spot) /\ Len(P) = n
      /\ \A i \in 1 .. n : P[i] = IF i = n THEN to ELSE places[i]
    <2> HIDE DEF n, at
    <2>1. /\ [places EXCEPT ![n] = to] \in Seq(Spot)
          /\ Len([places EXCEPT ![n] = to]) = Len(places)
          /\ \A i \in 1 .. Len(places) :
                [places EXCEPT ![n] = to][i] = IF i = n THEN to ELSE places[i]
        BY <1>2, ExceptSeq
    <2>2. n = Len(places)
        BY DEF n
    <2> QED
        BY <1>3, <2>1, <2>2
<1>6. /\ C \in Seq(Elem) /\ Len(C) = Len(counts)
      /\ \A i \in 1 .. Len(counts) : C[i] = IF i = Len(counts) THEN e ELSE counts[i]
    BY <1>1, ExceptSeq
<1>7. Ahead(m, at, Remaining(counts[Len(counts)])) /\ Remaining(e) \in Nat
    BY <1>1, RemainingNat DEF Nested
<1>14. Ahead(m, to, Remaining(e)) /\ Unwritten(m, to)
    <2> HIDE DEF at
    <2>1. /\ at.block \in 2 .. Len(m) /\ at.index \in 1 .. Len(m[at.block])
          /\ Len(m[at.block]) - at.index = Remaining(e) + 1
          /\ \A j \in at.index + 1 .. Len(m[at.block]) : m[at.block][j] = Garbage
          /\ Len(m[at.block]) \in Nat
        <3>1. Remaining(counts[Len(counts)]) = Remaining(e) + 1
            BY <1>1, <1>7, RemainingNat
        <3> QED
            BY <1>1, <1>7, <3>1 DEF Ahead
    <2>2. /\ to.index \in 1 .. Len(m[to.block]) /\ to.index \in at.index + 1 .. Len(m[at.block])
          /\ Len(m[to.block]) - to.index = Remaining(e)
        <3>1. Remaining(e) \in Nat
            BY <1>7
        <3>2. to.index \in 1 .. Len(m[at.block]) /\ to.index \in at.index + 1 .. Len(m[at.block])
            BY <1>4, <2>1, <3>1, SMTT(30)
        <3>3. Len(m[at.block]) - to.index = Remaining(e)
            <4> DEFINE l == Len(m[at.block])
                       r == Remaining(e)
                       k == at.index
            <4>1. l \in Nat /\ k \in Nat /\ r \in Nat /\ l - k = r + 1
                BY <1>4, <2>1, <3>1
            <4>2. l - (k + 1) = r
                <5> HIDE DEF l, r, k
                <5> QED
                    BY <4>1, OneNearer
            <4>3. to.index = k + 1
                BY <1>4
            <4> QED
                BY <4>2, <4>3
        <3> QED
            BY <1>4, <3>2, <3>3
    <2>3. \A j \in to.index + 1 .. Len(m[to.block]) : j \in at.index + 1 .. Len(m[at.block])
        BY <1>4, <2>1
    <2>4. Unwritten(m, to)
        BY <1>4, <2>1, <2>2 DEF Unwritten
    <2>5. \A j \in to.index + 1 .. Len(m[to.block]) : m[to.block][j] = Garbage
        BY <1>4, <2>1, <2>3
    <2> QED
        BY <1>4, <2>1, <2>2, <2>4, <2>5 DEF Ahead
<1>8. P[1] = Place(1, 1) /\ Len(m) > 0 /\ Len(m[1]) = 1
    BY <1>1, <1>5 DEF Nested, n
<1>9. ASSUME NEW i \in 1 .. Len(C) PROVE Ahead(m, P[i + 1], Remaining(C[i]))
    <2>1. CASE i = Len(counts)
        BY <1>1, <1>5, <1>6, <1>14, <2>1 DEF n
    <2>2. CASE i # Len(counts)
        <3>1. P[i + 1] = places[i + 1] /\ C[i] = counts[i] /\ i \in 1 .. Len(counts)
            BY <1>1, <1>5, <1>6, <2>2 DEF n
        <3> QED
            BY <3>1 DEF Nested
    <2> QED
        BY <2>1, <2>2
<1>10. \A i \in 1 .. Len(P) : P[i].block = places[i].block
    BY <1>4, <1>5
<1>11. \A i, j \in 1 .. Len(P) : i < j => P[i].block < P[j].block
    BY <1>5, <1>10 DEF Nested, n
<1>12. Nested(m, P, C)
    BY <1>1, <1>5, <1>6, <1>8, <1>9, <1>11 DEF Nested, n
<1>13. Topmost(P) = to
    BY <1>1, <1>5 DEF Topmost, n
<1> QED
    BY <1>5, <1>14, <1>12, <1>13

-----------------------------------------------------------------------------
(* What a step of the parser tells a visitor that does not refuse it. *)

Values ==
    /\ pc \in {"header", "trail"} /\ pc' = "consume" /\ stack' = stack
    /\ \E name \in Visited : \E v : Call(name, v)

Opens ==
    \E type \in {"ARRAY_ITEM", "MAP_KEY"} : \E n :
        /\ pc \in {"header", "trail"}
        /\ Call(IF type = "ARRAY_ITEM" THEN "start_array" ELSE "start_map", n)
        /\ \/ n = 0 /\ pc' = End(type) /\ stack' = stack
           \/ /\ n > 0 /\ pc' = First(type)
              /\ stack' = Append(stack, [type |-> type, rest |-> n])
              /\ [type |-> type, rest |-> n] \in Elem

BeginsItem ==
    /\ pc \in {"start_array_item", "start_map_key"} /\ Call(pc, << >>)
    /\ pc' \in {"header", "idle"} /\ stack' = stack

BeginsValue ==
    /\ pc = "start_map_value" /\ Call(pc, << >>)
    /\ pc' \in {"header", "idle"} /\ stack' = [stack EXCEPT ![top].type = "MAP_VALUE"]

EndsItem ==
    /\ pc = "consume" /\ top > 0
    /\ \/ /\ stack[top].type = "ARRAY_ITEM"
          /\ Call("end_array_item", << >>) /\ OneLess("ARRAY_ITEM", "start_array_item")
       \/ /\ stack[top].type = "MAP_KEY"
          /\ Call("end_map_key", << >>) /\ pc' = "start_map_value" /\ stack' = stack
       \/ /\ stack[top].type = "MAP_VALUE"
          /\ Call("end_map_value", << >>) /\ OneLess("MAP_KEY", "start_map_key")

EndsContainer ==
    /\ pc \in {"end_array", "end_map"} /\ Call(pc, << >>)
    /\ pc' = "consume" /\ stack' = stack

\* The visitor is told nothing.
Quiet ==
    /\ calls' \in {calls, << >>} /\ stack' = stack
    /\ \/ pc \in {"idle", "header", "trail"} /\ pc' \in {"idle", "header", "trail"}
       \/ stack = << >> /\ pc \in {"consume", "done"} /\ pc' \in {"done", "idle"}

Kinds == Values \/ Opens \/ BeginsItem \/ BeginsValue \/ EndsItem \/ EndsContainer \/ Quiet

LEMMA NoRefusal == \A q, s : Refuse(q, s) => ret' \notin Going
BY DEF Refuse, Return, Throw, Going

LEMMA VisitKind ==
    ASSUME ret' \in Going, pc \in {"header", "trail"}, NEW name \in Visited, NEW v, NEW q,
           Visit(name, v, q)
    PROVE  Values
BY NoRefusal DEF Visit, Values, Goto

LEMMA StartKind ==
    ASSUME Inv, Shape', ret' \in Going, pc \in {"header", "trail"},
           NEW type \in {"ARRAY_ITEM", "MAP_KEY"}, NEW n, NEW q, Start(type, n, q)
    PROVE  Opens
<1>1. CASE n = 0 /\ pc' = End(type) /\ stack' = stack
    BY <1>1 DEF Start, Opens
<1>2. CASE n > 0 /\ pc' = First(type) /\ stack' = Append(stack, [type |-> type, rest |-> n])
    <2> DEFINE e == [type |-> type, rest |-> n]
               T == Elem \cup {e}
    <2>1. stack \in Seq(T) /\ e \in T
        <3>1. Elem \subseteq T
            OBVIOUS
        <3>2. stack \in Seq(Elem)
            BY DEF Inv, Shape
        <3>3. e \in T
            OBVIOUS
        <3> HIDE DEF T, e
        <3> QED
            BY <3>1, <3>2, <3>3, SeqMonotonic
    <2>2. stack' = Append(stack, e)
        BY <1>2
    <2> HIDE DEF T, e
    <2>3. Len(stack') = Len(stack) + 1 /\ stack'[Len(stack) + 1] = e /\ Len(stack) \in Nat
        BY <2>1, <2>2, AppendProperties, LenProperties
    <2>4. e \in Elem
        <3>1. stack' \in Seq(Elem)
            BY DEF Shape
        <3> QED
            BY <2>3, <3>1
    <2> QED
        BY <1>2, <2>4 DEF Start, Opens, e
<1> QED
    BY <1>1, <1>2, NoRefusal DEF Start, Goto

LEMMA AwaitKind ==
    ASSUME pc \in {"header", "trail"}, NEW c, NEW n, NEW q, Await(c, n, q)
    PROVE  Quiet
BY DEF Await, Goto, Quiet

LEMMA HeaderKind == ASSUME Inv, Shape', ret' \in Going, Header PROVE Kinds
<1> DEFINE b == At(p)
           q == p + 1
<1>1. pc = "header"
    BY DEF Header
<1> HIDE DEF b, q
<1>2. \/ \E name \in Visited : \E v : Visit(name, v, q)
      \/ \E type \in {"ARRAY_ITEM", "MAP_KEY"} : \E n : Start(type, n, q)
      \/ ParseError
      \/ \E c, n : Await(c, n, q)
    BY DEF Header, b, q, Visited
<1>3. ~ParseError
    BY DEF ParseError, Return, Going
<1> QED
    BY <1>1, <1>2, <1>3, VisitKind, StartKind, AwaitKind DEF Kinds

LEMMA TrailKind == ASSUME Inv, Shape', ret' \in Going, Trail PROVE Kinds
<1> DEFINE q == p + trail
           bs == Bytes(p, trail)
<1>1. pc = "trail" /\ Read(cs, bs, q)
    BY DEF Trail
<1> HIDE DEF q, bs
<1>2. \/ /\ cs \in CS_NUMBER \cup CS_FIXEXT \cup ACS_VALUE \cup CS_STR \cup CS_BIN
         /\ \E v : Visit(Visiting(cs), v, q)
      \/ \E type \in {"ARRAY_ITEM", "MAP_KEY"} : \E n : Start(type, n, q)
      \/ Throw
      \/ \E c, n : Await(c, n, q)
    BY <1>1 DEF Read
<1>3. ~Throw
    BY DEF Throw, Going
<1>4. ASSUME cs \in CS_NUMBER \cup CS_FIXEXT \cup ACS_VALUE \cup CS_STR \cup CS_BIN
      PROVE  Visiting(cs) \in Visited
    BY <1>4, SMT DEF Visiting, Visited, CS_NUMBER, CS_UINT, CS_INT, CS_FLOAT, CS_DOUBLE,
           CS_FIXEXT, CS_STR, CS_BIN, ACS_VALUE, ACS_STR_VALUE, ACS_BIN_VALUE, ACS_EXT_VALUE
<1> QED
    BY <1>1, <1>2, <1>3, <1>4, VisitKind, StartKind, AwaitKind DEF Kinds

LEMMA ConsumeKind == ASSUME ret' \in Going, Consume PROVE Kinds
BY NoRefusal DEF Consume, Kinds, EndsItem, Goto

LEMMA LoopKind ==
    ASSUME ret' \in Going, NEW q, HeaderAgain(q)
    PROVE  pc' \in {"header", "idle"}
BY DEF HeaderAgain, Return, Goto

LEMMA StepKinds == ASSUME Inv, Shape', ret' \in Going, Next PROVE Kinds
<1>1. CASE \E n \in 1 .. Len(stream) : Arrive(n)
    BY <1>1 DEF Arrive, Kinds, Quiet
<1>2. CASE Execute
    BY <1>2 DEF Execute, Kinds, Quiet
<1>3. CASE Out
    BY <1>3 DEF Out, Return, Kinds, Quiet
<1>4. CASE Finish
    <2>1. stack = << >>
        BY <1>4, EmptySeq DEF Finish, Inv, Shape, top
    <2> QED
        BY <1>4, <2>1 DEF Finish, Return, Kinds, Quiet
<1>5. CASE \E call \in {"start_array_item", "start_map_key"} : StartItem(call)
    BY <1>5, NoRefusal, LoopKind DEF StartItem, Kinds, BeginsItem
<1>6. CASE StartValue
    BY <1>6, NoRefusal, LoopKind DEF StartValue, Kinds, BeginsValue
<1>7. CASE \E call \in {"end_array", "end_map"} : EndContainer(call)
    BY <1>7, NoRefusal DEF EndContainer, Goto, Kinds, EndsContainer
<1>8. CASE Init_Next
    BY <1>8 DEF Init_Next, Kinds, Quiet, Inv, Shape
<1> QED
    BY <1>1, <1>2, <1>3, <1>4, <1>5, <1>6, <1>7, <1>8, HeaderKind, TrailKind, ConsumeKind
       DEF Next, Continue

-----------------------------------------------------------------------------
(* The places and the counts *)

\* The place of a container that is about to end is to be popped, and the one of a
\* value that is about to begin was led on already.
PlacesAt(places, c) == IF c \in {"end_array", "end_map"} THEN Outer(places) ELSE places
CountsAt(counts, c) ==
    IF c = "start_map_value" THEN [counts EXCEPT ![Len(counts)].type = "MAP_VALUE"] ELSE counts

VisitorAt(m, places, counts, c) ==
    /\ places \in Seq(Spot) /\ Len(places) > 0 /\ Memory(m)
    /\ Nested(m, PlacesAt(places, c), CountsAt(counts, c))
    /\ Len(counts) > 0 /\ c \notin {"consume", "done", "end_array", "end_map"} =>
          Unwritten(m, Topmost(places))

\* A parser that may still be called, or is being called, with the visitor of objects.
Live == visitor = "create_object" /\ (pc # "idle" \/ ret \in Going)

VisitorInv == Live => VisitorAt(mem, m_stack, stack, pc)
CreateInv == Inv /\ VisitorInv

\* The call that a step makes, to a visitor that does not throw.
LEMMA Hears ==
    ASSUME Inv, Answer, ret' \in Going, NEW name, NEW arg, Call(name, arg)
    PROVE  Told([name |-> name, arg |-> arg])
<1>1. PICK S : calls \in Seq(S)
    BY DEF Inv, Recorded
<1> DEFINE e == [name |-> name, arg |-> arg]
           T == S \cup {e}
<1>2. calls \in Seq(T) /\ e \in T
    <2>1. S \subseteq T /\ e \in T
        OBVIOUS
    <2> HIDE DEF T, e
    <2> QED
        BY <1>1, <2>1, SeqMonotonic
<1>3. calls' = Append(calls, e)
    BY DEF Call
<1> HIDE DEF T, e
<1>4. calls'[Len(calls')] = e
    BY <1>2, <1>3, Pushed
<1>5. Told(e)
    BY <1>4 DEF Answer, Going
<1> QED
    BY <1>5 DEF e

\* A call is recorded.
LEMMA CallsGrow ==
    ASSUME Inv, NEW name, NEW arg, Call(name, arg)
    PROVE  calls' # calls
<1>1. PICK S : calls \in Seq(S)
    BY DEF Inv, Recorded
<1> DEFINE e == [name |-> name, arg |-> arg]
           T == S \cup {e}
<1>2. calls \in Seq(T) /\ e \in T
    <2>1. S \subseteq T /\ e \in T
        OBVIOUS
    <2> HIDE DEF T, e
    <2> QED
        BY <1>1, <2>1, SeqMonotonic
<1>3. calls' = Append(calls, e)
    BY DEF Call
<1> HIDE DEF T, e
<1>4. Len(calls') = Len(calls) + 1 /\ Len(calls) \in Nat
    BY <1>2, <1>3, AppendProperties, LenProperties
<1> QED
    BY <1>4

\* Where the visitor writes is the innermost place.
LEMMA WrittenHere == \A o : Written(o) = WrittenAt(mem, Topmost(m_stack), o)
BY DEF Written, WrittenAt, Topmost, Obj

\* A value is written to the innermost place.
LEMMA ValuesKeep ==
    ASSUME Inv, VisitorAt(mem, m_stack, stack, pc), Values, Answer, ret' \in Going
    PROVE  VisitorAt(mem', m_stack', stack', pc')
<1>0. PICK name \in Visited : \E v : Call(name, v)
    BY DEF Values
<1>1. PICK v : Call(name, v)
    BY <1>0
<1> DEFINE c == [name |-> name, arg |-> v]
<1>2. Told(c)
    BY <1>1, Hears
<1>3. PICK o : mem' = WrittenAt(mem, Topmost(m_stack), o) /\ m_stack' = m_stack
    <2>1. c.name \in Visited
        BY <1>1
    <2> HIDE DEF c
    <2>2. mem' = Written(Cell(c)) /\ m_stack' = m_stack
        BY <1>2, <2>1 DEF Told, Visited, ItemEnds
    <2> QED
        BY <2>2, WrittenHere
<1>4. stack \in Seq(Elem) /\ stack' = stack /\ pc' = "consume" /\ pc \in {"header", "trail"}
    BY DEF Values, Inv, Shape
<1>5. Nested(mem, m_stack, stack) /\ m_stack \in Seq(Spot) /\ Len(m_stack) > 0 /\ Memory(mem)
    BY <1>4 DEF VisitorAt, PlacesAt, CountsAt
<1>6. Memory(mem') /\ Nested(mem', m_stack, stack)
    BY <1>3, <1>4, <1>5, WriteKeeps
<1> QED
    BY <1>3, <1>4, <1>5, <1>6 DEF VisitorAt, PlacesAt, CountsAt

\* A container is written to the innermost place, and gets a place of its own.
LEMMA AllocateKeeps ==
    ASSUME m_stack \in Seq(Spot), NEW counts \in Seq(Elem), Nested(mem, m_stack, counts),
           Memory(mem), NEW type \in {"ARRAY_ITEM", "MAP_KEY"}, NEW n,
           Allocate(IF type = "ARRAY_ITEM" THEN "array" ELSE "map", n)
    PROVE  /\ n = 0 => /\ \E q \in Spot : m_stack' = Append(m_stack, q)
                       /\ Memory(mem') /\ Nested(mem', m_stack, counts)
           /\ \A e \in Elem : n > 0 /\ e = [type |-> type, rest |-> n] =>
                 \E q \in Spot :
                    /\ m_stack' = Append(m_stack, q)
                    /\ Memory(mem') /\ Nested(mem', m_stack', Append(counts, e))
                    /\ Unwritten(mem', q)
<1> DEFINE kind == IF type = "ARRAY_ITEM" THEN "array" ELSE "map"
<1>1. ASSUME n = 0
      PROVE  /\ \E q \in Spot : m_stack' = Append(m_stack, q)
             /\ Memory(mem') /\ Nested(mem', m_stack, counts)
    <2>1. PICK o : mem' = WrittenAt(mem, Topmost(m_stack), o)
        BY <1>1, WrittenHere DEF Allocate
    <2>2. Memory(mem') /\ Nested(mem', m_stack, counts)
        BY <2>1, WriteKeeps
    <2>3. m_stack' = Append(m_stack, Place(0, 1)) /\ Place(0, 1) \in Spot
        BY <1>1 DEF Allocate, Place, Spot
    <2> QED
        BY <2>2, <2>3
<1>2. ASSUME NEW e \in Elem, n > 0, e = [type |-> type, rest |-> n]
      PROVE  \E q \in Spot :
                    /\ m_stack' = Append(m_stack, q)
                    /\ Memory(mem') /\ Nested(mem', m_stack', Append(counts, e))
                    /\ Unwritten(mem', q)
    <2> DEFINE o == <<kind, [block |-> Len(mem) + 1, size |-> n]>>
               w == WrittenAt(mem, Topmost(m_stack), o)
               k == Cells(kind, n)
               q == Place(Len(mem) + 1, 1)
    <2>1. n \in Nat /\ n # 0
        BY <1>2 DEF Elem
    <2>2. mem' = Allocated(w, k) /\ m_stack' = Append(m_stack, q)
        BY <2>1, WrittenHere DEF Allocate, Allocated
    <2>3. k \in Nat /\ Remaining(e) = k - 1
        <3>1. e.type = type /\ e.rest = n
            BY <1>2
        <3>2. CASE type = "ARRAY_ITEM"
            BY <2>1, <3>1, <3>2 DEF Cells, Remaining
        <3>3. CASE type = "MAP_KEY"
            BY <2>1, <3>1, <3>3 DEF Cells, Remaining
        <3> QED
            BY <3>2, <3>3
    <2> HIDE DEF o, k
    <2>4. Memory(w) /\ Len(w) = Len(mem) /\ Nested(w, m_stack, counts)
        BY WriteKeeps
    <2> HIDE DEF w
    <2>5. q = Place(Len(w) + 1, 1)
        BY <2>4
    <2> HIDE DEF q
    <2>6. /\ Memory(mem') /\ q \in Spot /\ Unwritten(mem', q)
          /\ Nested(mem', Append(m_stack, q), Append(counts, e))
        BY <2>2, <2>3, <2>4, <2>5, PushKeeps
    <2> QED
        BY <2>2, <2>6
<1> QED
    BY <1>1, <1>2

LEMMA OpensKeep ==
    ASSUME Inv, VisitorAt(mem, m_stack, stack, pc), Opens, Answer, ret' \in Going
    PROVE  VisitorAt(mem', m_stack', stack', pc')
<1>1. PICK type \in {"ARRAY_ITEM", "MAP_KEY"} : \E n :
        /\ pc \in {"header", "trail"}
        /\ Call(IF type = "ARRAY_ITEM" THEN "start_array" ELSE "start_map", n)
        /\ \/ n = 0 /\ pc' = End(type) /\ stack' = stack
           \/ /\ n > 0 /\ pc' = First(type)
              /\ stack' = Append(stack, [type |-> type, rest |-> n])
              /\ [type |-> type, rest |-> n] \in Elem
    BY DEF Opens
<1>0. PICK n :
        /\ pc \in {"header", "trail"}
        /\ Call(IF type = "ARRAY_ITEM" THEN "start_array" ELSE "start_map", n)
        /\ \/ n = 0 /\ pc' = End(type) /\ stack' = stack
           \/ /\ n > 0 /\ pc' = First(type)
              /\ stack' = Append(stack, [type |-> type, rest |-> n])
              /\ [type |-> type, rest |-> n] \in Elem
    BY <1>1
<1> DEFINE c == [name |-> IF type = "ARRAY_ITEM" THEN "start_array" ELSE "start_map", arg |-> n]
<1>2. Told(c)
    BY <1>0, Hears
<1>3. Allocate(IF type = "ARRAY_ITEM" THEN "array" ELSE "map", n)
    <2>1. c.arg = n /\ c.name = IF type = "ARRAY_ITEM" THEN "start_array" ELSE "start_map"
        OBVIOUS
    <2> HIDE DEF c
    <2>2. CASE type = "ARRAY_ITEM"
        <3>1. c.name = "start_array"
            BY <2>1, <2>2
        <3>2. Allocate("array", n)
            BY <1>2, <2>1, <3>1 DEF Told, ItemEnds
        <3> QED
            BY <2>2, <3>2
    <2>3. CASE type = "MAP_KEY"
        <3>1. c.name = "start_map"
            BY <2>1, <2>3
        <3>2. Allocate("map", n)
            BY <1>2, <2>1, <3>1 DEF Told, ItemEnds
        <3> QED
            BY <2>3, <3>2
    <2> QED
        BY <2>2, <2>3
<1>4. stack \in Seq(Elem)
    BY DEF Inv, Shape
<1>5. Nested(mem, m_stack, stack) /\ m_stack \in Seq(Spot) /\ Memory(mem)
    BY <1>0 DEF VisitorAt, PlacesAt, CountsAt
<1>6. CASE n = 0 /\ pc' = End(type) /\ stack' = stack
    <2>1. PICK q \in Spot : m_stack' = Append(m_stack, q)
        BY <1>3, <1>4, <1>5, <1>6, AllocateKeeps
    <2>2. Memory(mem') /\ Nested(mem', m_stack, stack)
        BY <1>3, <1>4, <1>5, <1>6, AllocateKeeps
    <2>3. m_stack' \in Seq(Spot) /\ Len(m_stack') > 0 /\ Outer(m_stack') = m_stack
        BY <1>5, <2>1, AppendProperties, LenProperties, OuterAppend
    <2>4. pc' \in {"end_array", "end_map"}
        BY <1>6 DEF End
    <2> QED
        BY <1>6, <2>2, <2>3, <2>4 DEF VisitorAt, PlacesAt, CountsAt
<1>7. CASE /\ n > 0 /\ pc' = First(type)
           /\ stack' = Append(stack, [type |-> type, rest |-> n])
           /\ [type |-> type, rest |-> n] \in Elem
    <2> DEFINE e == [type |-> type, rest |-> n]
    <2>1. PICK q \in Spot : /\ m_stack' = Append(m_stack, q)
                            /\ Memory(mem') /\ Nested(mem', m_stack', Append(stack, e))
                            /\ Unwritten(mem', q)
        BY <1>3, <1>4, <1>5, <1>7, AllocateKeeps
    <2>2. m_stack' \in Seq(Spot) /\ Len(m_stack') > 0 /\ Topmost(m_stack') = q
        BY <1>5, <2>1, AppendProperties, LenProperties, OuterAppend
    <2>3. pc' \in {"start_array_item", "start_map_key"}
        BY <1>7 DEF First
    <2> QED
        BY <1>7, <2>1, <2>2, <2>3 DEF VisitorAt, PlacesAt, CountsAt
<1> QED
    BY <1>0, <1>6, <1>7

\* What begins is told of, and changes nothing.
LEMMA BeginsItemKeeps ==
    ASSUME Inv, VisitorAt(mem, m_stack, stack, pc), BeginsItem, Answer, ret' \in Going
    PROVE  VisitorAt(mem', m_stack', stack', pc')
<1> DEFINE c == [name |-> pc, arg |-> << >>]
<1>1. Told(c)
    BY Hears DEF BeginsItem
<1>2. mem' = mem /\ m_stack' = m_stack
    <2>1. c.name \in {"start_array_item", "start_map_key"}
        BY DEF BeginsItem
    <2> HIDE DEF c
    <2> QED
        BY <1>1, <2>1 DEF Told, ItemEnds
<1> QED
    BY <1>2 DEF BeginsItem, VisitorAt, PlacesAt, CountsAt

LEMMA BeginsValueKeeps ==
    ASSUME Inv, VisitorAt(mem, m_stack, stack, pc), BeginsValue, Answer, ret' \in Going
    PROVE  VisitorAt(mem', m_stack', stack', pc')
<1> DEFINE c == [name |-> pc, arg |-> << >>]
<1>1. Told(c)
    BY Hears DEF BeginsValue
<1>2. mem' = mem /\ m_stack' = m_stack
    <2>1. c.name = "start_map_value"
        BY DEF BeginsValue
    <2> HIDE DEF c
    <2> QED
        BY <1>1, <2>1 DEF Told, ItemEnds
<1>3. /\ pc = "start_map_value" /\ pc' \in {"header", "idle"}
      /\ stack' = [stack EXCEPT ![Len(stack)].type = "MAP_VALUE"]
      /\ Len(stack) > 0
    BY DEF BeginsValue, Inv, Shape, top
<1>4. /\ m_stack \in Seq(Spot) /\ Len(m_stack) > 0 /\ Memory(mem)
      /\ Nested(mem, m_stack, stack') /\ Unwritten(mem, Topmost(m_stack))
    BY <1>3 DEF VisitorAt, PlacesAt, CountsAt
<1> QED
    BY <1>2, <1>3, <1>4 DEF VisitorAt, PlacesAt, CountsAt

LEMMA EndsContainerKeeps ==
    ASSUME Inv, VisitorAt(mem, m_stack, stack, pc), EndsContainer, Answer, ret' \in Going
    PROVE  VisitorAt(mem', m_stack', stack', pc')
<1> DEFINE c == [name |-> pc, arg |-> << >>]
<1>1. Told(c)
    BY Hears DEF EndsContainer
<1>2. mem' = mem /\ m_stack' = Outer(m_stack)
    <2>1. c.name \in {"end_array", "end_map"}
        BY DEF EndsContainer
    <2> HIDE DEF c
    <2> QED
        BY <1>1, <2>1 DEF Told, ItemEnds, Outer
<1>3. /\ m_stack \in Seq(Spot) /\ Len(m_stack) > 0 /\ Memory(mem)
      /\ Nested(mem, Outer(m_stack), stack)
    BY DEF EndsContainer, VisitorAt, PlacesAt, CountsAt
<1>4. Outer(m_stack) \in Seq(Spot) /\ Len(Outer(m_stack)) > 0
    <2>1. stack \in Seq(Elem)
        BY DEF Inv, Shape
    <2>2. Len(stack) \in Nat /\ Len(Outer(m_stack)) = Len(stack) + 1
        BY <1>3, <2>1 DEF Nested
    <2> QED
        BY <1>3, <2>2, OuterSeq
<1> QED
    BY <1>2, <1>3, <1>4 DEF EndsContainer, VisitorAt, PlacesAt, CountsAt

\* An item has ended: the place is led on.  Its container goes on or ends.
LEMMA EndsItemKeeps ==
    ASSUME Inv, VisitorAt(mem, m_stack, stack, pc), EndsItem, Answer, ret' \in Going
    PROVE  VisitorAt(mem', m_stack', stack', pc')
<1> DEFINE n == Len(stack)
           last == stack[n]
           P == [m_stack EXCEPT ![Len(m_stack)].index = @ + 1]
<1>1. pc = "consume" /\ n > 0 /\ n \in Nat /\ stack \in Seq(Elem) /\ last \in Elem
    <2>1. pc = "consume" /\ n > 0 /\ stack \in Seq(Elem)
        BY DEF EndsItem, Inv, Shape, top
    <2> QED
        BY <2>1
<1>2. last.rest \in Nat /\ last.rest > 0
    BY <1>1 DEF Elem
<1>3. /\ m_stack \in Seq(Spot) /\ Len(m_stack) > 0 /\ Memory(mem)
      /\ Nested(mem, m_stack, stack)
    BY <1>1 DEF VisitorAt, PlacesAt, CountsAt
<1>4. mem' = mem /\ m_stack' = P
    <2>1. PICK name \in ItemEnds : Call(name, << >>)
        BY DEF EndsItem, ItemEnds
    <2> DEFINE c == [name |-> name, arg |-> << >>]
    <2>2. Told(c)
        BY <2>1, Hears
    <2>3. c.name \in ItemEnds
        BY <2>1
    <2> HIDE DEF c
    <2> QED
        BY <2>2, <2>3 DEF Told, ItemEnds
<1>5. ASSUME NEW e \in Elem, Remaining(e) = Remaining(last) - 1,
             NEW C, C = [stack EXCEPT ![n] = e]
      PROVE  P \in Seq(Spot) /\ Nested(mem, P, C) /\ Unwritten(mem, Topmost(P))
    <2> HIDE DEF P
    <2>1. P = [m_stack EXCEPT ![Len(m_stack)].index = @ + 1]
        BY DEF P
    <2> QED
        BY <1>1, <1>3, <1>5, <2>1, ForwardKeeps
<1>6. Len(P) = Len(m_stack) /\ Outer(P) = Outer(m_stack) /\ P \in Seq(Spot)
    <2> DEFINE l == Len(m_stack)
               to == [m_stack[l] EXCEPT !.index = @ + 1]
    <2>1. l \in 1 .. Len(m_stack) /\ m_stack[l] \in Spot
        BY <1>3, OuterSeq DEF Topmost
    <2>2. to \in Spot
        BY <2>1 DEF Spot
    <2>3. P = [m_stack EXCEPT ![l] = to]
        OBVIOUS
    <2> HIDE DEF P, to, l
    <2>4. /\ P \in Seq(Spot) /\ Len(P) = Len(m_stack)
          /\ \A i \in 1 .. Len(m_stack) : P[i] = IF i = l THEN to ELSE m_stack[i]
        BY <1>3, <2>1, <2>2, <2>3, ExceptSeq
    <2>5. /\ Outer(P) \in Seq(Spot) /\ Len(Outer(P)) = Len(P) - 1
          /\ \A i \in 1 .. Len(P) - 1 : Outer(P)[i] = P[i]
        BY <1>3, <2>4, OuterSeq
    <2>6. /\ Outer(m_stack) \in Seq(Spot) /\ Len(Outer(m_stack)) = Len(m_stack) - 1
          /\ \A i \in 1 .. Len(m_stack) - 1 : Outer(m_stack)[i] = m_stack[i]
        BY <1>3, OuterSeq
    <2>7. \A i \in 1 .. Len(m_stack) - 1 : i \in 1 .. Len(m_stack) /\ i # l
        BY <2>1 DEF l
    <2>8. \A i \in 1 .. Len(Outer(P)) : Outer(P)[i] = Outer(m_stack)[i]
        BY <2>4, <2>5, <2>6, <2>7
    <2>9. Outer(P) = Outer(m_stack)
        BY <2>4, <2>5, <2>6, <2>8, SeqEqual
    <2> QED
        BY <2>4, <2>9
<1>7. ASSUME NEW type \in {"ARRAY_ITEM", "MAP_KEY"}, NEW next,
             next = First(type), OneLess(type, next),
             type = "ARRAY_ITEM" => last.type = "ARRAY_ITEM",
             type = "MAP_KEY" => last.type = "MAP_VALUE"
      PROVE  VisitorAt(mem', m_stack', stack', pc')
    <2>1. CASE last.rest = 1
        <3>1. stack' = Outer(stack) /\ pc' = End(type)
            BY <1>7, <2>1 DEF OneLess, Goto, Outer, top
        <3>2. pc' \in {"end_array", "end_map"}
            BY <3>1 DEF End
        <3>3. Nested(mem, Outer(m_stack), Outer(stack))
            BY <1>1, <1>3, PopKeeps
        <3> QED
            BY <1>3, <1>4, <1>6, <3>1, <3>2, <3>3 DEF VisitorAt, PlacesAt, CountsAt
    <2>2. CASE last.rest # 1
        <3> DEFINE e == [type |-> type, rest |-> last.rest - 1]
        <3>1. stack' = [stack EXCEPT ![n] = e] /\ pc' = next
            BY <1>7, <2>2 DEF OneLess, Goto, top
        <3>2. e \in Elem /\ e.type = type /\ e.rest = last.rest - 1
            BY <1>2, <2>2 DEF Elem, ContainerType
        <3> HIDE DEF e
        <3>3. Remaining(e) = Remaining(last) - 1
            <4>1. CASE type = "ARRAY_ITEM"
                BY <1>2, <1>7, <3>2, <4>1 DEF Remaining
            <4>2. CASE type = "MAP_KEY"
                BY <1>2, <1>7, <3>2, <4>2 DEF Remaining
            <4> QED
                BY <4>1, <4>2
        <3>4. P \in Seq(Spot) /\ Nested(mem, P, stack') /\ Unwritten(mem, Topmost(P))
            BY <1>5, <3>1, <3>2, <3>3
        <3>5. pc' \in {"start_array_item", "start_map_key"}
            BY <1>7, <3>1 DEF First
        <3> QED
            BY <1>3, <1>4, <1>6, <3>4, <3>5 DEF VisitorAt, PlacesAt, CountsAt
    <2> QED
        BY <2>1, <2>2
<1>8. CASE last.type = "MAP_KEY" /\ pc' = "start_map_value" /\ stack' = stack
    <2> DEFINE e == [last EXCEPT !.type = "MAP_VALUE"]
    <2>1. e \in Elem /\ e.type = "MAP_VALUE" /\ e.rest = last.rest
        BY <1>1, <1>2 DEF Elem, ContainerType
    <2>2. CountsAt(stack', pc') = [stack EXCEPT ![n] = e]
        BY <1>8 DEF CountsAt
    <2> HIDE DEF e
    <2>3. Remaining(e) = Remaining(last) - 1
        BY <1>2, <1>8, <2>1 DEF Remaining
    <2>4. /\ P \in Seq(Spot) /\ Nested(mem, P, CountsAt(stack', pc'))
          /\ Unwritten(mem, Topmost(P))
        BY <1>5, <2>1, <2>2, <2>3
    <2> QED
        BY <1>3, <1>4, <1>6, <1>8, <2>4 DEF VisitorAt, PlacesAt
<1> QED
    <2>1. \/ last.type = "ARRAY_ITEM" /\ OneLess("ARRAY_ITEM", "start_array_item")
          \/ last.type = "MAP_KEY" /\ pc' = "start_map_value" /\ stack' = stack
          \/ last.type = "MAP_VALUE" /\ OneLess("MAP_KEY", "start_map_key")
        BY DEF EndsItem, top
    <2>2. First("ARRAY_ITEM") = "start_array_item" /\ First("MAP_KEY") = "start_map_key"
        BY DEF First
    <2> HIDE DEF last, n
    <2> QED
        BY <1>7, <1>8, <2>1, <2>2

LEMMA QuietKeeps ==
    ASSUME Inv, VisitorAt(mem, m_stack, stack, pc), Quiet, UNCHANGED <<mem, m_stack>>
    PROVE  VisitorAt(mem', m_stack', stack', pc')
<1>1. CASE pc \in {"idle", "header", "trail"} /\ pc' \in {"idle", "header", "trail"}
    BY <1>1 DEF Quiet, VisitorAt, PlacesAt, CountsAt
<1>2. CASE stack = << >> /\ pc \in {"consume", "done"} /\ pc' \in {"done", "idle"}
    <2>1. Len(stack) = 0
        BY <1>2
    <2> QED
        BY <1>2, <2>1 DEF Quiet, VisitorAt, PlacesAt, CountsAt
<1> QED
    BY <1>1, <1>2 DEF Quiet

\* The root is made another, and the open containers are in blocks of their own.
LEMMA RootKeeps ==
    ASSUME NEW m, Memory(m), NEW places \in Seq(Spot), NEW counts \in Seq(Elem),
           Nested(m, places, counts), NEW w, w = [m EXCEPT ![1] = <<NIL>>]
    PROVE  /\ Memory(w) /\ Nested(w, places, counts)
           /\ Len(counts) > 0 /\ Unwritten(m, Topmost(places)) =>
                 Unwritten(w, Topmost(places))
<1>1. PICK S : m \in Seq(Seq(S))
    BY DEF Memory
<1> DEFINE T == S \cup {NIL}
           X == Seq(T)
           Y == Seq(S)
<1>2. m \in Seq(X) /\ <<NIL>> \in X
    <2>1. S \subseteq T /\ NIL \in T
        OBVIOUS
    <2>2. Y \subseteq X
        <3> HIDE DEF T
        <3> QED
            BY <2>1, SeqMonotonic
    <2>3. m \in Seq(Y)
        BY <1>1
    <2>4. <<NIL>> \in X
        <3> HIDE DEF T
        <3> QED
            BY <2>1
    <2> HIDE DEF X, Y
    <2> QED
        BY <2>2, <2>3, <2>4, SeqMonotonic
<1> HIDE DEF X, Y, T
<1>3. 1 \in 1 .. Len(m) /\ Len(m) \in Nat
    BY InnermostInside DEF Nested
<1>4. /\ w \in Seq(X) /\ Len(w) = Len(m)
      /\ \A c \in 1 .. Len(m) : w[c] = IF c = 1 THEN <<NIL>> ELSE m[c]
    BY <1>2, <1>3, ExceptSeq
<1>5. Memory(w)
    BY <1>4 DEF Memory, X
<1>6. Len(w) > 0 /\ Len(w[1]) = 1
    <2>1. Len(<<NIL>>) = 1
        OBVIOUS
    <2> QED
        BY <1>3, <1>4, <2>1
<1>7. ASSUME NEW i \in 1 .. Len(counts)
      PROVE  /\ Ahead(w, places[i + 1], Remaining(counts[i]))
             /\ w[places[i + 1].block] = m[places[i + 1].block]
    <2> DEFINE at == places[i + 1]
    <2>1. Ahead(m, at, Remaining(counts[i]))
        BY DEF Nested
    <2> HIDE DEF at
    <2>2. w[at.block] = m[at.block]
        BY <1>3, <1>4, <2>1 DEF Ahead
    <2>3. Ahead(w, at, Remaining(counts[i]))
        BY <1>4, <2>1, <2>2 DEF Ahead
    <2> QED
        BY <2>2, <2>3 DEF at
<1>8. Nested(w, places, counts)
    BY <1>6, <1>7 DEF Nested
<1>9. ASSUME Len(counts) > 0, Unwritten(m, Topmost(places))
      PROVE  Unwritten(w, Topmost(places))
    <2>1. Len(counts) \in 1 .. Len(counts) /\ Len(places) = Len(counts) + 1
        BY <1>9 DEF Nested
    <2> QED
        BY <1>7, <1>9, <2>1 DEF Unwritten, Topmost
<1> QED
    BY <1>5, <1>8, <1>9

\* A visitor made ready for another message.
LEMMA FreshAt == VisitorAt(<< <<NIL>> >>, <<Place(1, 1)>>, << >>, "idle")
<1>1. Memory(<< <<NIL>> >>)
    <2>1. << <<NIL>> >> \in Seq(Seq({NIL}))
        OBVIOUS
    <2> QED
        BY <2>1 DEF Memory
<1>2. <<Place(1, 1)>> \in Seq(Spot)
    BY DEF Place, Spot
<1>3. Nested(<< <<NIL>> >>, <<Place(1, 1)>>, << >>)
    BY DEF Nested
<1> QED
    BY <1>1, <1>2, <1>3 DEF VisitorAt, PlacesAt, CountsAt

LEMMA CreateInit == Create_Init => CreateInv
<1> SUFFICES ASSUME Create_Init PROVE CreateInv
    OBVIOUS
<1>1. Inv
    BY ParseInit DEF Create_Init
<1>2. mem = << <<NIL>> >> /\ m_stack = <<Place(1, 1)>> /\ stack = << >> /\ pc = "idle"
    BY DEF Create_Init, Init
<1>3. VisitorInv
    BY <1>2, FreshAt DEF VisitorInv
<1> QED
    BY <1>1, <1>3 DEF CreateInv

\* The steps of the visitor are steps of the parser.
LEMMA CreateParses == Create_Next => [Next]_vars
<1>1. Deliver => Next
    BY DEF Deliver, Next, Continue
<1> QED
    BY <1>1 DEF Create_Next, Make, Pass, Visit_, Move, vars

\* While the parser is idle nothing makes it go on but another call.
LEMMA StaysDead ==
    ASSUME Next, Live', visitor' = visitor
    PROVE  Live
<1>1. CASE \E n \in 1 .. Len(stream) : Arrive(n)
    BY <1>1 DEF Arrive, Live
<1>2. CASE Execute
    BY <1>2 DEF Execute, Live, Going
<1>3. CASE Continue
    <2>1. pc # "idle"
        BY <1>3 DEF Continue, Header, Trail, Out, Consume, Finish, StartItem, StartValue,
                    EndContainer, Init_Next
    <2> QED
        BY <2>1 DEF Live
<1> QED
    BY <1>1, <1>2, <1>3 DEF Next

LEMMA CreateStep ==
    ASSUME CreateInv, Create_Next PROVE CreateInv'
<1>1. Inv /\ Inv'
    BY CreateParses, ParseStep DEF CreateInv, Kept
<1>2. ASSUME Live' PROVE VisitorAt(mem', m_stack', stack', pc')
    <2>1. ret' \in Going /\ Shape'
        BY <1>1, <1>2 DEF Live, Inv, Shape
    <2>2. ASSUME Live PROVE VisitorAt(mem, m_stack, stack, pc)
        BY <2>2 DEF CreateInv, VisitorInv
    <2>3. CASE Make
        <3>1. VisitorAt(mem, m_stack, stack, pc)
            BY <1>2, <2>2, <2>3, StaysDead DEF Make
        <3>2. Kinds /\ Answer /\ ~Quiet
            BY <1>1, <2>1, <2>3, StepKinds DEF Make, Quiet
        <3> QED
            BY <1>1, <2>1, <3>1, <3>2, ValuesKeep, OpensKeep, BeginsItemKeeps,
               BeginsValueKeeps, EndsItemKeeps, EndsContainerKeeps DEF Kinds
    <2>4. CASE Pass
        <3>1. VisitorAt(mem, m_stack, stack, pc)
            BY <1>2, <2>2, <2>4, StaysDead DEF Pass
        <3>2. Kinds
            BY <1>1, <2>1, <2>4, StepKinds DEF Pass
        <3>3. calls' = calls /\ UNCHANGED <<mem, m_stack>>
            BY <2>4 DEF Pass, Silent, objects
        <3>4. Quiet
            BY <1>1, <3>2, <3>3, CallsGrow
               DEF Kinds, Values, Opens, BeginsItem, BeginsValue, EndsItem, EndsContainer
        <3> QED
            BY <1>1, <3>1, <3>3, <3>4, QuietKeeps
    <2>5. CASE Visit_
        BY <1>2, <2>5 DEF Visit_, Live
    <2>6. CASE Deliver
        BY <2>6, FreshAt DEF Deliver, Init_Next, Fresh
    <2>7. CASE Move
        <3>1. Live /\ UNCHANGED <<stack, pc>>
            BY <2>7 DEF Move, Live, Going, vars
        <3>2. VisitorAt(mem, m_stack, stack, pc)
            BY <2>2, <3>1
        <3>3. pc = "idle" /\ stack \in Seq(Elem)
            BY <1>1, <2>7 DEF Move, Inv, Shape
        <3>4. m_stack' = m_stack
            <4>1. m_stack[1] = Place(1, 1) /\ m_stack \in Seq(Spot)
                BY <3>2, <3>3 DEF VisitorAt, PlacesAt, Nested
            <4> QED
                BY <2>7, <4>1 DEF Move
        <3>5. VisitorAt(mem', m_stack, stack, pc)
            <4>1. mem' = [mem EXCEPT ![1] = <<NIL>>]
                BY <2>7 DEF Move
            <4> QED
                BY <3>2, <3>3, <4>1, RootKeeps DEF VisitorAt, PlacesAt, CountsAt
        <3> QED
            BY <3>1, <3>4, <3>5
    <2> QED
        BY <2>3, <2>4, <2>5, <2>6, <2>7 DEF Create_Next
<1> QED
    BY <1>1, <1>2 DEF CreateInv, VisitorInv

LEMMA CreateInvariance == Create_Spec => []CreateInv
<1>1. ASSUME CreateInv, UNCHANGED create_vars PROVE CreateInv'
    <2>1. UNCHANGED vars
        BY <1>1 DEF create_vars
    <2>2. Inv'
        BY <1>1, <2>1, ParseStep DEF CreateInv, Kept
    <2>3. VisitorInv'
        BY <1>1 DEF CreateInv, VisitorInv, Live, create_vars, vars, objects
    <2> QED
        BY <2>2, <2>3 DEF CreateInv
<1>2. CreateInv /\ [Create_Next]_create_vars => CreateInv'
    BY <1>1, CreateStep
<1> QED
    BY <1>2, CreateInit, PTL DEF Create_Spec

\* However an object is nested, and wherever the chunks end, what the visitor is told of
\* next it writes inside the block that was allocated for it, to an object that nobody has
\* written; and for every container that is open the visitor's place has as many objects
\* in front of it as the parser counts items.
THEOREM CreateStacksAgree == Create_Spec => []StacksAgree
<1>1. ASSUME CreateInv, visitor = "create_object", pc \in {"header", "trail"}
      PROVE  WritesInside /\ PlacesMatchCounts
    <2>1. VisitorAt(mem, m_stack, stack, pc) /\ stack \in Seq(Elem)
        BY <1>1 DEF CreateInv, VisitorInv, Live, Inv, Shape
    <2>2. /\ Nested(mem, m_stack, stack) /\ m_stack \in Seq(Spot) /\ Memory(mem)
          /\ Len(stack) > 0 => Unwritten(mem, Topmost(m_stack))
        BY <1>1, <2>1 DEF VisitorAt, PlacesAt, CountsAt
    <2>3. WritesInside
        BY <2>1, <2>2, InnermostInside
           DEF WritesInside, Obj, Topmost, Unwritten, top, Nested
    <2>4. ASSUME NEW i \in 1 .. top
          PROVE  Left(i) = Len(mem[m_stack[i + 1].block]) - m_stack[i + 1].index
        <3>1. Left(i) = Remaining(stack[i])
            BY <1>1 DEF Left, Innermost, Remaining
        <3>2. Ahead(mem, m_stack[i + 1], Remaining(stack[i]))
            BY <2>2 DEF Nested, top
        <3> QED
            BY <3>1, <3>2 DEF Ahead
    <2> QED
        BY <2>3, <2>4 DEF PlacesMatchCounts
<1>2. Inv => TypeOK /\ ReadsReceived
    BY DEF Inv, Position, State, Shape, TypeOK, Label, Result, ReadsReceived
<1>3. CreateInv => StacksAgree
    BY <1>1, <1>2 DEF CreateInv, StacksAgree
<1> QED
    BY <1>3, CreateInvariance, PTL

\* So is create_object_visitor, or an application's visitor: what they do with a call
\* changes nothing in the order of the calls.
THEOREM CreateRefinesVisitorProtocol == Create_Spec => RefinesVisitorProtocol
<1>1. CreateInv /\ [Create_Next]_create_vars => [Protocol!Next]_(Protocol!vars)
    <2>1. UNCHANGED create_vars => UNCHANGED vars
        BY DEF create_vars
    <2> QED
        BY <2>1, CreateParses, ParseStep DEF CreateInv, Kept, Moves
<1>2. Create_Init => Protocol!Init
    BY InitRefines DEF Create_Init
<1> QED
    BY <1>1, <1>2, CreateInvariance, PTL DEF RefinesVisitorProtocol, Protocol!Spec, Create_Spec
-----------------------------------------------------------------------------
(* The parser of objects *)

CONSTANTS Object, Leaf
VARIABLES x, m_current, m_ctx, place, said, answer

\* place and answer are its pc and ret.
O == INSTANCE ObjectParser WITH pc <- place, ret <- answer

\* An elem of m_ctx, and one that has an item under way.
Cursor(V) ==
    {e \in [items : Seq(V) \cup Seq(V \X V), at : Nat \ {0}, rest : Nat,
            is_map : BOOLEAN, is_key : BOOLEAN] :
        /\ e.items \in IF e.is_map THEN Seq(V \X V) ELSE Seq(V)
        /\ e.is_key => e.is_map
        /\ e.rest > 0 => e.rest + e.at = Len(e.items) + 1}
Engaged(V) == {e \in Cursor(V) : e.rest > 0}

\* The stack when the parser goes on with its innermost container.
ContextAt(V, ctx, c, current) ==
    CASE c \in {"start_array_item", "start_map_key", "start_map_value", "next", "end"} ->
            \E s \in Seq(Engaged(V)), e \in Cursor(V) :
                /\ ctx = Append(s, e)
                /\ IF c = "end" THEN e.rest = 0 ELSE e.rest > 0
                /\ c = "start_array_item" => ~e.is_map
                /\ c = "start_map_key" => e.is_map
                /\ c = "start_map_value" => e.is_map /\ e.is_key
      [] c = "visit" -> \/ ctx = << >>
                        \/ \E s \in Seq(Engaged(V)), e \in Engaged(V) :
                              ctx = Append(s, e) /\ current = O!get(e)
      [] c = "done" -> TRUE

ObjectInv(V) ==
    /\ x \in Object
    /\ m_current \in V
    /\ m_ctx \in Seq(Cursor(V))
    /\ place \in O!Place \cup {"done"}
    /\ answer \in {"none", "whole", "refused", "thrown"}
    /\ ContextAt(V, m_ctx, place, m_current)

\* A container with an item under way, and one whose next item is about to begin.
UnderWay(e) ==
    [kind |-> IF e.is_map THEN "map" ELSE "array",
     left |-> IF e.is_map THEN IF e.is_key THEN 2 * e.rest - 1 ELSE 2 * e.rest - 2
              ELSE e.rest - 1]
AboutTo(e) ==
    [kind |-> IF e.is_map THEN "map" ELSE "array",
     left |-> IF e.is_map THEN 2 * e.rest ELSE e.rest]
Containers(s) == [i \in 1 .. Len(s) |-> UnderWay(s[i])]

\* Turn and Open at a place c with a stack s and an answer r.
TurnOf(c, r) == CASE c = "visit" -> "value"
                  [] c = "next"  -> "ended"
                  [] c = "done"  -> IF r = "whole" THEN "ended" ELSE "stopped"
                  [] OTHER       -> "open"
OpenOf(s, c, r) ==
    IF TurnOf(c, r) = "stopped" THEN << >>
    ELSE [i \in 1 .. Len(s) |->
            IF i = Len(s) /\ c \in {"start_array_item", "start_map_key", "end"}
            THEN AboutTo(s[i]) ELSE UnderWay(s[i])]

LEMMA ObjectView ==
    /\ O!Turn = TurnOf(place, answer) /\ O!Turn' = TurnOf(place', answer')
    /\ O!Open = OpenOf(m_ctx, place, answer)
    /\ O!Open' = OpenOf(m_ctx', place', answer')
<1>1. O!Turn = TurnOf(place, answer) /\ O!Turn' = TurnOf(place', answer')
    BY DEF O!Turn, TurnOf
<1>2. O!Open = OpenOf(m_ctx, place, answer)
    <2>1. \A i \in 1 .. O!top :
             [kind |-> IF m_ctx[i].is_map THEN "map" ELSE "array", left |-> O!Left(i)]
             = IF i = Len(m_ctx) /\ place \in {"start_array_item", "start_map_key", "end"}
               THEN AboutTo(m_ctx[i]) ELSE UnderWay(m_ctx[i])
        BY DEF O!Left, O!top, AboutTo, UnderWay
    <2> QED
        BY <1>1, <2>1 DEF O!Open, OpenOf, O!top
<1>3. O!Open' = OpenOf(m_ctx', place', answer')
    <2>1. \A i \in 1 .. O!top' :
             [kind |-> IF m_ctx'[i].is_map THEN "map" ELSE "array", left |-> O!Left(i)']
             = IF i = Len(m_ctx') /\ place' \in {"start_array_item", "start_map_key", "end"}
               THEN AboutTo(m_ctx'[i]) ELSE UnderWay(m_ctx'[i])
        BY DEF O!Left, O!top, AboutTo, UnderWay
    <2> QED
        BY <1>1, <2>1 DEF O!Open, OpenOf, O!top
<1> QED
    BY <1>1, <1>2, <1>3

LEMMA CursorFrame ==
    ASSUME NEW V, NEW e \in Cursor(V)
    PROVE  /\ AboutTo(e) \in Protocol!Frame
           /\ e.rest > 0 => UnderWay(e) \in Protocol!Frame
           /\ e.rest \in Nat /\ e.is_map \in BOOLEAN /\ e.is_key \in BOOLEAN
<1>1. e.rest \in Nat /\ e.is_map \in BOOLEAN /\ e.is_key \in BOOLEAN
    BY DEF Cursor
<1>2. AboutTo(e).left \in Nat /\ (e.rest > 0 => UnderWay(e).left \in Nat)
    <2> DEFINE r == e.rest
    <2> HIDE DEF r
    <2>1. r \in Nat => r - 1 \in Int /\ 2 * r \in Nat /\ 2 * r - 1 \in Int /\ 2 * r - 2 \in Int
        OBVIOUS
    <2>2. r \in Nat /\ r > 0 => r - 1 \in Nat /\ 2 * r - 1 \in Nat /\ 2 * r - 2 \in Nat
        OBVIOUS
    <2> QED
        BY <1>1, <2>1, <2>2 DEF AboutTo, UnderWay, r
<1> QED
    BY <1>1, <1>2 DEF AboutTo, UnderWay, Protocol!Frame, Protocol!Kind

LEMMA ContainersSeq ==
    ASSUME NEW V, NEW s \in Seq(Engaged(V))
    PROVE  Containers(s) \in Seq(Protocol!Frame) /\ Len(Containers(s)) = Len(s)
<1>1. Len(s) \in Nat /\ \A i \in 1 .. Len(s) : s[i] \in Engaged(V)
    OBVIOUS
<1>2. \A i \in 1 .. Len(s) : UnderWay(s[i]) \in Protocol!Frame
    BY <1>1, CursorFrame DEF Engaged
<1>3. Containers(s) \in [1 .. Len(s) -> Protocol!Frame]
    BY <1>2 DEF Containers
<1> QED
    BY <1>1, <1>3

\* What the visitor has been told of when the innermost container is e.
LEMMA OpenInside ==
    ASSUME NEW V, NEW s \in Seq(Engaged(V)), NEW e \in Cursor(V), NEW c, NEW r,
           TurnOf(c, r) # "stopped",
           c \notin {"start_array_item", "start_map_key", "end"} => e.rest > 0
    PROVE  OpenOf(Append(s, e), c, r) =
              Append(Containers(s), IF c \in {"start_array_item", "start_map_key", "end"}
                                    THEN AboutTo(e) ELSE UnderWay(e))
<1> DEFINE t == Append(s, e)
           f == IF c \in {"start_array_item", "start_map_key", "end"}
                THEN AboutTo(e) ELSE UnderWay(e)
           F == OpenOf(t, c, r)
           A == Append(Containers(s), f)
<1>1. s \in Seq(Cursor(V))
    <2>1. Engaged(V) \subseteq Cursor(V)
        BY DEF Engaged
    <2> QED
        BY <2>1, SeqMonotonic
<1>2. /\ Len(t) = Len(s) + 1 /\ Len(s) \in Nat
      /\ \A i \in 1 .. Len(s) : t[i] = s[i]
      /\ t[Len(s) + 1] = e
    BY <1>1, AppendProperties, LenProperties
<1>3. Containers(s) \in Seq(Protocol!Frame) /\ Len(Containers(s)) = Len(s)
      /\ f \in Protocol!Frame
    BY ContainersSeq, CursorFrame
<1> HIDE DEF t
<1>4. F = [i \in 1 .. Len(s) + 1 |-> IF i = Len(s) + 1 THEN f ELSE UnderWay(s[i])]
    <2>1. \A i \in 1 .. Len(s) + 1 :
            (IF i = Len(t) /\ c \in {"start_array_item", "start_map_key", "end"}
             THEN AboutTo(t[i]) ELSE UnderWay(t[i]))
            = IF i = Len(s) + 1 THEN f ELSE UnderWay(s[i])
        <3> TAKE i \in 1 .. Len(s) + 1
        <3>1. CASE i = Len(s) + 1
            BY <1>2, <3>1
        <3>2. CASE i # Len(s) + 1
            <4>1. i \in 1 .. Len(s)
                BY <1>2, <3>2
            <4> HIDE DEF f
            <4> QED
                BY <1>2, <3>2, <4>1
        <3> QED
            BY <3>1, <3>2
    <2> HIDE DEF f
    <2> QED
        BY <1>2, <2>1 DEF OpenOf
<1> HIDE DEF f
<1>5. /\ A \in Seq(Protocol!Frame) /\ Len(A) = Len(s) + 1
      /\ \A i \in 1 .. Len(s) : A[i] = Containers(s)[i]
      /\ A[Len(s) + 1] = f
    BY <1>3, AppendProperties
<1>6. \A i \in 1 .. Len(s) : Containers(s)[i] = UnderWay(s[i])
    BY DEF Containers
<1>7. \A i \in 1 .. Len(s) + 1 : F[i] = A[i]
    <2> HIDE DEF F, A
    <2> TAKE i \in 1 .. Len(s) + 1
    <2>1. CASE i = Len(s) + 1
        BY <1>4, <1>5, <2>1
    <2>2. CASE i # Len(s) + 1
        <3>1. i \in 1 .. Len(s)
            BY <1>2, <2>2
        <3> QED
            BY <1>4, <1>5, <1>6, <2>2, <3>1
    <2> QED
        BY <2>1, <2>2
<1>8. F \in Seq(Protocol!Frame) /\ Len(F) = Len(s) + 1
    <2> HIDE DEF F, A
    <2>1. \A i \in 1 .. Len(s) + 1 : F[i] \in Protocol!Frame
        BY <1>5, <1>7, <1>2
    <2>2. F = [i \in 1 .. Len(s) + 1 |-> F[i]] /\ Len(s) + 1 \in Nat
        BY <1>2, <1>4
    <2>3. F \in [1 .. Len(s) + 1 -> Protocol!Frame]
        BY <2>1, <2>2
    <2> QED
        BY <2>2, <2>3
<1> HIDE DEF F, A
<1>9. F = A
    BY <1>5, <1>7, <1>8, SeqEqual
<1> QED
    BY <1>9 DEF F, A, t, f

\* While each container has an item under way.
LEMMA OpenBetween ==
    \A s, c, r : TurnOf(c, r) # "stopped" /\ c \notin {"start_array_item", "start_map_key", "end"}
                 => OpenOf(s, c, r) = Containers(s)
BY DEF OpenOf, Containers

LEMMA OpenNothing == \A c, r : OpenOf(<< >>, c, r) = << >>
BY DEF OpenOf

-----------------------------------------------------------------------------
(* The steps of the protocol. *)

ObjectMoves == [O!Protocol!Next]_(O!Protocol!vars)

\* A call that is refused is the last one.
Refusal == O!Turn' = "stopped" /\ O!Open' = << >>

LEMMA RefusalTold == O!Refuse => Refusal
<1> SUFFICES ASSUME O!Refuse PROVE Refusal
    OBVIOUS
<1>1. TurnOf(place', answer') = "stopped"
    BY DEF O!Refuse, TurnOf
<1> QED
    BY <1>1, ObjectView DEF OpenOf, Refusal

LEMMA ValueTold ==
    ASSUME O!Turn = "value", said' = "visit",
           Refusal \/ (O!Turn' = "ended" /\ O!Open' = O!Open)
    PROVE  ObjectMoves
<1>1. O!Protocol!Visit
    BY DEF O!Protocol!Visit, O!Protocol!Refused, Refusal
<1> QED
    BY <1>1 DEF ObjectMoves, O!Protocol!Next

LEMMA StartTold ==
    ASSUME O!Turn = "value", NEW F \in Seq(Protocol!Frame), NEW f \in Protocol!Frame,
           O!Open = F, f.kind = "map" => f.left % 2 = 0,
           said' = IF f.kind = "map" THEN "start_map" ELSE "start_array",
           Refusal \/ (O!Turn' = "open" /\ O!Open' = Append(F, f))
    PROVE  ObjectMoves
<1>1. f.kind \in {"array", "map"}
    BY DEF Protocol!Frame, Protocol!Kind
<1>2. CASE Refusal
    <2>1. O!Protocol!Start(f.kind)
        BY <1>2 DEF O!Protocol!Start, O!Protocol!Refused, Refusal
    <2> QED
        BY <1>1, <2>1 DEF ObjectMoves, O!Protocol!Next, O!Protocol!Kind
<1>3. CASE O!Turn' = "open" /\ O!Open' = Append(F, f)
    <2>1. O!Open'[Len(O!Open')] = f
        BY <1>3, Pushed
    <2>2. f \in O!Protocol!Frame
        BY DEF Protocol!Frame, Protocol!Kind, O!Protocol!Frame, O!Protocol!Kind
    <2>3. O!Protocol!Start(f.kind)
        BY <1>3, <2>1, <2>2 DEF O!Protocol!Start, O!Protocol!Last
    <2> QED
        BY <1>1, <2>3 DEF ObjectMoves, O!Protocol!Next, O!Protocol!Kind
<1> QED
    BY <1>2, <1>3

LEMMA ItemStartTold ==
    ASSUME O!Turn = "open", NEW F \in Seq(Protocol!Frame), NEW f \in Protocol!Frame,
           O!Open = Append(F, f), f.left > 0,
           said' = IF f.kind = "array" THEN "start_array_item"
                   ELSE IF f.left % 2 = 0 THEN "start_map_key" ELSE "start_map_value",
           Refusal \/ (O!Turn' = "value" /\ O!Open' = Append(F, [f EXCEPT !.left = @ - 1]))
    PROVE  ObjectMoves
<1>1. O!Open[Len(O!Open)] = f /\ SubSeq(O!Open, 1, Len(O!Open) - 1) = F
    BY Pushed
<1>2. O!Protocol!StartItem
    BY <1>1 DEF O!Protocol!StartItem, O!Protocol!Last, O!Protocol!Outer,
                O!Protocol!Refused, Refusal
<1> QED
    BY <1>2 DEF ObjectMoves, O!Protocol!Next

LEMMA ItemEndTold ==
    ASSUME O!Turn = "ended", NEW F \in Seq(Protocol!Frame), NEW f \in Protocol!Frame,
           O!Open = Append(F, f),
           said' = IF f.kind = "array" THEN "end_array_item"
                   ELSE IF f.left % 2 = 1 THEN "end_map_key" ELSE "end_map_value",
           Refusal \/ (O!Turn' = "open" /\ O!Open' = O!Open)
    PROVE  ObjectMoves
<1>1. O!Open[Len(O!Open)] = f /\ O!Open # << >>
    BY Pushed
<1>2. O!Protocol!EndItem
    BY <1>1 DEF O!Protocol!EndItem, O!Protocol!Last, O!Protocol!Refused, Refusal
<1> QED
    BY <1>2 DEF ObjectMoves, O!Protocol!Next

LEMMA EndTold ==
    ASSUME O!Turn = "open", NEW F \in Seq(Protocol!Frame), NEW f \in Protocol!Frame,
           O!Open = Append(F, f), f.left = 0,
           said' = IF f.kind = "array" THEN "end_array" ELSE "end_map",
           Refusal \/ (O!Turn' = "ended" /\ O!Open' = F)
    PROVE  ObjectMoves
<1>1. O!Open[Len(O!Open)] = f /\ SubSeq(O!Open, 1, Len(O!Open) - 1) = F
    BY Pushed
<1>2. O!Protocol!End
    BY <1>1 DEF O!Protocol!End, O!Protocol!Last, O!Protocol!Outer, O!Protocol!Refused, Refusal
<1> QED
    BY <1>2 DEF ObjectMoves, O!Protocol!Next
-----------------------------------------------------------------------------
(* The steps of parse. *)

LEMMA RefuseKeepsObject ==
    ASSUME NEW V, ObjectInv(V), place # "done", O!Refuse, x' = x
    PROVE  ObjectInv(V)'
<1>1. /\ place' = "done" /\ answer' \in {"refused", "thrown"}
      /\ m_current' = m_current /\ m_ctx' = m_ctx
    BY DEF O!Refuse
<1> QED
    BY <1>1 DEF ObjectInv, ContextAt

\* A pointer to an item that is under way is to one of the objects.
LEMMA GetInside ==
    ASSUME NEW V, NEW e \in Engaged(V)
    PROVE  O!get(e) \in V
<1>1. e.at \in 1 .. Len(e.items)
    <2>1. e.at \in Nat \ {0} /\ e.rest \in Nat /\ e.rest > 0 /\ Len(e.items) \in Nat
          /\ e.rest + e.at = Len(e.items) + 1
        BY DEF Engaged, Cursor
    <2> QED
        BY <2>1
<1>2. CASE e.is_map
    <2>1. e.items \in Seq(V \X V)
        BY <1>2 DEF Engaged, Cursor
    <2>2. e.items[e.at] \in V \X V
        BY <1>1, <2>1
    <2> QED
        BY <1>2, <2>2 DEF O!get
<1>3. CASE ~e.is_map
    <2>1. e.items \in Seq(V)
        BY <1>3 DEF Engaged, Cursor
    <2> QED
        BY <1>1, <1>3, <2>1 DEF O!get
<1> QED
    BY <1>2, <1>3

\* A value has ended inside a container, or it was the whole object.
LEMMA EndedKeeps ==
    ASSUME NEW V, ObjectInv(V), place # "done", NEW s \in Seq(Engaged(V)), O!Ended(s), x' = x
    PROVE  ObjectInv(V)' /\ O!Turn' = "ended" /\ O!Open' = Containers(s)
<1>1. s \in Seq(Cursor(V))
    <2>1. Engaged(V) \subseteq Cursor(V)
        BY DEF Engaged
    <2> QED
        BY <2>1, SeqMonotonic
<1>2. m_ctx' = s /\ m_current' = m_current
    BY DEF O!Ended
<1>3. CASE s = << >>
    <2>1. place' = "done" /\ answer' = "whole"
        BY <1>3 DEF O!Ended
    <2>2. ObjectInv(V)'
        BY <1>1, <1>2, <1>3, <2>1 DEF ObjectInv, ContextAt
    <2>3. O!Turn' = "ended"
        BY <2>1, ObjectView DEF TurnOf
    <2>4. Containers(s) = << >>
        BY <1>3 DEF Containers
    <2> QED
        BY <1>2, <1>3, <2>2, <2>3, <2>4, ObjectView, OpenNothing
<1>4. CASE s # << >>
    <2>1. place' = "next" /\ answer' = answer
        BY <1>4 DEF O!Ended
    <2>2. PICK t \in Seq(Engaged(V)), e \in Engaged(V) : s = Append(t, e)
        BY <1>4, SequenceEmptyOrAppend
    <2>3. e \in Cursor(V) /\ e.rest > 0
        BY DEF Engaged
    <2>4. ObjectInv(V)'
        BY <1>1, <1>2, <2>1, <2>2, <2>3 DEF ObjectInv, ContextAt, O!Place
    <2>5. TurnOf(place', answer') = "ended"
        BY <2>1 DEF TurnOf
    <2>6. OpenOf(s, place', answer') = Containers(s)
        BY <2>1, <2>5, OpenBetween
    <2> QED
        BY <1>2, <2>4, <2>5, <2>6, ObjectView
<1> QED
    BY <1>3, <1>4

\* In front of a value.
LEMMA AtValue ==
    ASSUME NEW V, ObjectInv(V), place = "visit"
    PROVE  m_ctx \in Seq(Engaged(V)) /\ O!Turn = "value" /\ O!Open = Containers(m_ctx)
<1>1. m_ctx \in Seq(Engaged(V))
    <2>1. CASE m_ctx = << >>
        BY <2>1, EmptySeq
    <2>2. ASSUME NEW s \in Seq(Engaged(V)), NEW e \in Engaged(V), m_ctx = Append(s, e)
          PROVE  m_ctx \in Seq(Engaged(V))
        BY <2>2, Pushed
    <2> QED
        BY <2>1, <2>2 DEF ObjectInv, ContextAt
<1>2. TurnOf(place, answer) = "value"
    BY DEF TurnOf
<1> QED
    BY <1>1, <1>2, OpenBetween, ObjectView

LEMMA VisitKeepsObject ==
    ASSUME NEW V, ObjectInv(V), O!Visit
    PROVE  ObjectInv(V)' /\ ObjectMoves
<1>1. place = "visit" /\ said' = "visit" /\ x' = x
    BY DEF O!Visit, O!Tell
<1>2. m_ctx \in Seq(Engaged(V)) /\ O!Turn = "value" /\ O!Open = Containers(m_ctx)
    BY <1>1, AtValue
<1>3. CASE O!Ended(m_ctx)
    <2>1. ObjectInv(V)' /\ O!Turn' = "ended" /\ O!Open' = O!Open
        BY <1>1, <1>2, <1>3, EndedKeeps
    <2> QED
        BY <1>1, <1>2, <2>1, ValueTold
<1>4. CASE O!Refuse
    BY <1>1, <1>2, <1>4, RefuseKeepsObject, RefusalTold, ValueTold
<1> QED
    BY <1>3, <1>4 DEF O!Visit

LEMMA StartKeepsObject ==
    ASSUME NEW V, O!ParserConstants(V), ObjectInv(V), O!Start
    PROVE  ObjectInv(V)' /\ ObjectMoves
<1> DEFINE map == m_current[1] = "map"
           e == O!Elem(m_current)
           F == Containers(m_ctx)
<1>1. /\ place = "visit" /\ x' = x /\ m_current[1] \in {"array", "map"}
      /\ said' = IF map THEN "start_map" ELSE "start_array"
    BY DEF O!Start, O!Tell, O!Container
<1>2. /\ m_ctx \in Seq(Engaged(V)) /\ O!Turn = "value" /\ O!Open = F
      /\ F \in Seq(Protocol!Frame)
    BY <1>1, AtValue, ContainersSeq
<1>3. /\ e \in Cursor(V) /\ e.is_map = map /\ e.is_key = map /\ e.rest = Len(m_current[2])
      /\ m_current[2] # << >> => e.rest > 0
      /\ m_current[2] = << >> => e.rest = 0
    <2>1. m_current[2] \in IF map THEN Seq(V \X V) ELSE Seq(V)
        BY <1>1 DEF ObjectInv, O!ParserConstants
    <2>2. Len(m_current[2]) \in Nat /\ (m_current[2] = << >> <=> Len(m_current[2]) = 0)
        BY <2>1, EmptySeq
    <2>3. e = [items |-> m_current[2], at |-> 1, rest |-> Len(m_current[2]),
               is_map |-> map, is_key |-> map]
        BY DEF O!Elem
    <2>4. map \in BOOLEAN
        OBVIOUS
    <2> DEFINE items == m_current[2]
               n == Len(items)
    <2>5. n \in Nat /\ n + 1 = Len(items) + 1
        BY <2>2
    <2>6. e = [items |-> items, at |-> 1, rest |-> n, is_map |-> map, is_key |-> map]
        BY <2>3
    <2>7. items \in Seq(V) \cup Seq(V \X V) /\ items \in IF map THEN Seq(V \X V) ELSE Seq(V)
        BY <2>1
    <2> HIDE DEF e, map, items, n
    <2>8. e \in Cursor(V)
        BY <2>4, <2>5, <2>6, <2>7 DEF Cursor
    <2> QED
        BY <2>2, <2>6, <2>8 DEF items, n
<1>4. /\ AboutTo(e) \in Protocol!Frame
      /\ AboutTo(e).kind = IF map THEN "map" ELSE "array"
      /\ map => AboutTo(e).left % 2 = 0
    <2> HIDE DEF e, map
    <2>1. e.rest \in Nat
        BY <1>3, CursorFrame
    <2>2. \A r \in Nat : (2 * r) % 2 = 0
        OBVIOUS
    <2>3. (2 * e.rest) % 2 = 0
        BY <2>1, <2>2
    <2>4. AboutTo(e) \in Protocol!Frame
        BY <1>3, CursorFrame
    <2> QED
        BY <1>3, <2>3, <2>4 DEF AboutTo
<1> HIDE DEF e, F
<1>5. CASE O!Refuse
    BY <1>1, <1>2, <1>4, <1>5, RefuseKeepsObject, RefusalTold, StartTold
<1>6. CASE /\ m_ctx' = Append(m_ctx, e)
           /\ O!Goto(IF m_current[2] = << >> THEN "end"
                     ELSE IF map THEN "start_map_key" ELSE "start_array_item")
    <2>1. /\ place' = IF m_current[2] = << >> THEN "end"
                      ELSE IF map THEN "start_map_key" ELSE "start_array_item"
          /\ m_current' = m_current /\ answer' = answer
        BY <1>6 DEF O!Goto
    <2>2. ObjectInv(V)'
        <3>1. m_ctx \in Seq(Cursor(V))
            BY DEF ObjectInv
        <3>2. m_ctx' \in Seq(Cursor(V))
            BY <1>3, <1>6, <3>1, Pushed
        <3>3. ContextAt(V, m_ctx', place', m_current')
            BY <1>2, <1>3, <1>6, <2>1 DEF ContextAt
        <3> QED
            BY <1>1, <2>1, <3>2, <3>3 DEF ObjectInv, O!Place
    <2>3. place' \in {"start_array_item", "start_map_key", "end"}
        BY <2>1
    <2>4. TurnOf(place', answer') = "open"
        BY <2>3 DEF TurnOf
    <2>5. OpenOf(m_ctx', place', answer') = Append(F, AboutTo(e))
        BY <1>2, <1>3, <1>6, <2>3, <2>4, OpenInside DEF F
    <2> QED
        BY <1>1, <1>2, <1>4, <2>2, <2>4, <2>5, ObjectView, StartTold
<1> QED
    BY <1>5, <1>6 DEF O!Start, e

\* The parser goes to an item of the innermost container.
LEMMA EnterKeeps ==
    ASSUME NEW V, ObjectInv(V), NEW s \in Seq(Engaged(V)), NEW e \in Cursor(V),
           m_ctx = Append(s, e), NEW f \in Engaged(V), O!Enter(f), x' = x
    PROVE  ObjectInv(V)' /\ O!Turn' = "value" /\ O!Open' = Append(Containers(s), UnderWay(f))
<1>1. s \in Seq(Cursor(V)) /\ f \in Cursor(V) /\ f.rest > 0
    <2>1. Engaged(V) \subseteq Cursor(V)
        BY DEF Engaged
    <2> QED
        BY <2>1, SeqMonotonic DEF Engaged
<1>2. m_ctx' = Append(s, f)
    BY <1>1, Replaced DEF O!Enter, O!top
<1>3. m_current' = O!get(f) /\ place' = "visit" /\ answer' = answer
    BY DEF O!Enter
<1>4. m_ctx' \in Seq(Cursor(V)) /\ m_current' \in V
    BY <1>1, <1>2, <1>3, Pushed, GetInside
<1>5. ContextAt(V, m_ctx', place', m_current')
    BY <1>2, <1>3 DEF ContextAt
<1>6. ObjectInv(V)'
    BY <1>3, <1>4, <1>5 DEF ObjectInv, O!Place
<1>7. TurnOf(place', answer') = "value"
    BY <1>3 DEF TurnOf
<1>8. OpenOf(m_ctx', place', answer') = Append(Containers(s), UnderWay(f))
    BY <1>1, <1>2, <1>3, <1>7, OpenInside
<1> QED
    BY <1>6, <1>7, <1>8, ObjectView

\* Where the parser goes on with its innermost container.
LEMMA AtContainer ==
    ASSUME NEW V, ObjectInv(V),
           place \in {"start_array_item", "start_map_key", "start_map_value", "next", "end"}
    PROVE  \E s \in Seq(Engaged(V)), e \in Cursor(V) :
              /\ m_ctx = Append(s, e)
              /\ O!back = e /\ O!top = Len(Append(s, e))
              /\ SubSeq(m_ctx, 1, O!top - 1) = s
              /\ IF place = "end" THEN e.rest = 0 ELSE e.rest > 0
              /\ place = "start_array_item" => ~e.is_map
              /\ place = "start_map_key" => e.is_map
              /\ place = "start_map_value" => e.is_map /\ e.is_key
              /\ Containers(s) \in Seq(Protocol!Frame)
              /\ O!Open = Append(Containers(s),
                                 IF place \in {"start_array_item", "start_map_key", "end"}
                                 THEN AboutTo(e) ELSE UnderWay(e))
<1>1. PICK s \in Seq(Engaged(V)), e \in Cursor(V) :
              /\ m_ctx = Append(s, e)
              /\ IF place = "end" THEN e.rest = 0 ELSE e.rest > 0
              /\ place = "start_array_item" => ~e.is_map
              /\ place = "start_map_key" => e.is_map
              /\ place = "start_map_value" => e.is_map /\ e.is_key
    BY DEF ObjectInv, ContextAt
<1>2. s \in Seq(Cursor(V))
    <2>1. Engaged(V) \subseteq Cursor(V)
        BY DEF Engaged
    <2> QED
        BY <2>1, SeqMonotonic
<1>3. /\ O!back = e /\ O!top = Len(Append(s, e))
      /\ SubSeq(m_ctx, 1, O!top - 1) = s
    BY <1>1, <1>2, Pushed DEF O!back, O!top
<1>4. TurnOf(place, answer) # "stopped"
    BY DEF TurnOf
<1>5. O!Open = Append(Containers(s), IF place \in {"start_array_item", "start_map_key", "end"}
                                     THEN AboutTo(e) ELSE UnderWay(e))
    BY <1>1, <1>4, OpenInside, ObjectView
<1>6. Containers(s) \in Seq(Protocol!Frame)
    BY ContainersSeq
<1> QED
    BY <1>1, <1>3, <1>5, <1>6

LEMMA StartItemKeepsObject ==
    ASSUME NEW V, ObjectInv(V), NEW call \in {"start_array_item", "start_map_key"},
           O!StartItem(call)
    PROVE  ObjectInv(V)' /\ ObjectMoves
<1>1. place = call /\ said' = call /\ x' = x
    BY DEF O!StartItem, O!Tell
<1>2. PICK s \in Seq(Engaged(V)), e \in Cursor(V) :
              /\ m_ctx = Append(s, e) /\ O!back = e /\ e.rest > 0
              /\ e.is_map = (call = "start_map_key")
              /\ Containers(s) \in Seq(Protocol!Frame)
              /\ O!Open = Append(Containers(s), AboutTo(e))
    <2>1. place \in {"start_array_item", "start_map_key"} /\ place # "end"
        BY <1>1
    <2>2. PICK s \in Seq(Engaged(V)), e \in Cursor(V) :
              /\ m_ctx = Append(s, e) /\ O!back = e /\ e.rest > 0
              /\ place = "start_array_item" => ~e.is_map
              /\ place = "start_map_key" => e.is_map
              /\ Containers(s) \in Seq(Protocol!Frame)
              /\ O!Open = Append(Containers(s), AboutTo(e))
        BY <2>1, AtContainer
    <2>3. e.is_map \in BOOLEAN
        BY CursorFrame
    <2>4. e.is_map = (call = "start_map_key")
        BY <1>1, <2>2, <2>3
    <2> QED
        BY <2>2, <2>4
<1> DEFINE f == [e EXCEPT !.is_key = e.is_map]
<1>3. /\ f \in Engaged(V) /\ f.rest = e.rest /\ f.is_map = e.is_map /\ f.is_key = e.is_map
      /\ e.rest \in Nat /\ e.is_map \in BOOLEAN
    BY <1>2 DEF Engaged, Cursor
<1> DEFINE a == AboutTo(e)
           u == UnderWay(f)
<1>4. /\ a \in Protocol!Frame /\ a.left > 0 /\ u = [a EXCEPT !.left = @ - 1]
      /\ call = IF a.kind = "array" THEN "start_array_item"
                ELSE IF a.left % 2 = 0 THEN "start_map_key" ELSE "start_map_value"
    <2>1. a \in Protocol!Frame
        BY CursorFrame
    <2> HIDE DEF f
    <2>2. CASE e.is_map
        <3>1. a = [kind |-> "map", left |-> 2 * e.rest]
            BY <2>2 DEF AboutTo
        <3>2. u = [kind |-> "map", left |-> 2 * e.rest - 1]
            BY <1>3, <2>2 DEF UnderWay
        <3>3. 2 * e.rest > 0 /\ (2 * e.rest) % 2 = 0
            BY <1>2, <1>3
        <3>4. call = "start_map_key"
            BY <1>2, <2>2
        <3> HIDE DEF a, u
        <3>5. u = [a EXCEPT !.left = @ - 1]
            BY <3>1, <3>2
        <3>6. a.kind = "map" /\ a.left > 0 /\ a.left % 2 = 0
            BY <3>1, <3>3
        <3> QED
            BY <2>1, <3>4, <3>5, <3>6
    <2>3. CASE ~e.is_map
        <3>1. a = [kind |-> "array", left |-> e.rest]
            BY <2>3 DEF AboutTo
        <3>2. u = [kind |-> "array", left |-> e.rest - 1]
            BY <1>3, <2>3 DEF UnderWay
        <3>3. call = "start_array_item"
            BY <1>2, <2>3
        <3> HIDE DEF a, u
        <3>4. u = [a EXCEPT !.left = @ - 1]
            BY <3>1, <3>2
        <3>5. a.kind = "array" /\ a.left > 0
            BY <1>2, <3>1
        <3> QED
            BY <2>1, <3>3, <3>4, <3>5
    <2> QED
        BY <2>2, <2>3
<1> HIDE DEF f, a, u
<1>5. O!Turn = "open"
    <2>1. TurnOf(place, answer) = "open"
        BY <1>1 DEF TurnOf
    <2> QED
        BY <2>1, ObjectView
<1>6. CASE O!Enter(f)
    <2>1. ObjectInv(V)' /\ O!Turn' = "value" /\ O!Open' = Append(Containers(s), u)
        BY <1>1, <1>2, <1>3, <1>6, EnterKeeps DEF u
    <2> QED
        BY <1>1, <1>2, <1>4, <1>5, <2>1, ItemStartTold DEF a
<1>7. CASE O!Refuse
    <2>1. ObjectInv(V)' /\ Refusal
        BY <1>1, <1>7, RefuseKeepsObject, RefusalTold
    <2> QED
        BY <1>1, <1>2, <1>4, <1>5, <2>1, ItemStartTold DEF a
<1> QED
    BY <1>2, <1>6, <1>7 DEF O!StartItem, f

LEMMA StartValueKeepsObject ==
    ASSUME NEW V, ObjectInv(V), O!StartValue
    PROVE  ObjectInv(V)' /\ ObjectMoves
<1>1. place = "start_map_value" /\ said' = "start_map_value" /\ x' = x
    BY DEF O!StartValue, O!Tell
<1>2. PICK s \in Seq(Engaged(V)), e \in Cursor(V) :
              /\ m_ctx = Append(s, e) /\ O!back = e /\ e.rest > 0
              /\ e.is_map /\ e.is_key
              /\ Containers(s) \in Seq(Protocol!Frame)
              /\ O!Open = Append(Containers(s), UnderWay(e))
    BY <1>1, AtContainer
<1> DEFINE f == [e EXCEPT !.is_key = FALSE]
<1>3. /\ f \in Engaged(V) /\ f.rest = e.rest /\ f.is_map = e.is_map /\ f.is_key = FALSE
      /\ e.rest \in Nat
    BY <1>2 DEF Engaged, Cursor
<1> DEFINE a == UnderWay(e)
           u == UnderWay(f)
<1>4. /\ a \in Protocol!Frame /\ a.left > 0 /\ u = [a EXCEPT !.left = @ - 1]
      /\ a.kind # "array" /\ a.left % 2 # 0
    <2>1. a \in Protocol!Frame
        BY <1>2, CursorFrame
    <2> HIDE DEF f
    <2>2. a = [kind |-> "map", left |-> 2 * e.rest - 1]
        BY <1>2 DEF UnderWay
    <2>3. u = [kind |-> "map", left |-> 2 * e.rest - 2]
        BY <1>2, <1>3 DEF UnderWay
    <2>4. 2 * e.rest - 1 > 0 /\ (2 * e.rest - 1) % 2 = 1 /\ 2 * e.rest - 1 - 1 = 2 * e.rest - 2
        BY <1>2, <1>3
    <2> HIDE DEF a, u
    <2> QED
        BY <2>1, <2>2, <2>3, <2>4
<1> HIDE DEF f, a, u
<1>5. O!Turn = "open"
    <2>1. TurnOf(place, answer) = "open"
        BY <1>1 DEF TurnOf
    <2> QED
        BY <2>1, ObjectView
<1>6. CASE O!Enter(f)
    <2>1. ObjectInv(V)' /\ O!Turn' = "value" /\ O!Open' = Append(Containers(s), u)
        BY <1>1, <1>2, <1>3, <1>6, EnterKeeps DEF u
    <2> QED
        BY <1>1, <1>2, <1>4, <1>5, <2>1, ItemStartTold DEF a
<1>7. CASE O!Refuse
    <2>1. ObjectInv(V)' /\ Refusal
        BY <1>1, <1>7, RefuseKeepsObject, RefusalTold
    <2> QED
        BY <1>1, <1>2, <1>4, <1>5, <2>1, ItemStartTold DEF a
<1> QED
    BY <1>2, <1>6, <1>7 DEF O!StartValue, f

\* An item is taken off the count, and the pointer is led on.
LEMMA LessKeeps ==
    ASSUME NEW V, ObjectInv(V), place = "next", x' = x, NEW s \in Seq(Engaged(V)),
           NEW e \in Cursor(V), m_ctx = Append(s, e), O!back = e, e.rest > 0, ~e.is_key,
           O!Less
    PROVE  ObjectInv(V)' /\ O!Turn' = "open" /\ O!Open' = Append(Containers(s), UnderWay(e))
<1> DEFINE last == e.rest = 1
           f == IF last THEN [e EXCEPT !.rest = 0]
                        ELSE [e EXCEPT !.rest = @ - 1, !.at = @ + 1]
<1>1. /\ e.rest \in Nat /\ e.at \in Nat \ {0} /\ e.is_map \in BOOLEAN /\ Len(e.items) \in Nat
      /\ e.rest + e.at = Len(e.items) + 1
    BY DEF Cursor
<1>2. s \in Seq(Cursor(V)) /\ Len(s) \in Nat
    <2>1. Engaged(V) \subseteq Cursor(V)
        BY DEF Engaged
    <2> QED
        BY <2>1, SeqMonotonic, LenProperties
<1>3. /\ f \in Cursor(V) /\ f.is_map = e.is_map
      /\ f.rest = e.rest - 1
    <2>1. CASE last
        BY <1>1, <2>1, SMTT(60) DEF Cursor
    <2>2. CASE ~last
        <3>1. e.rest - 1 \in Nat /\ e.at + 1 \in Nat \ {0}
              /\ (e.rest - 1) + (e.at + 1) = Len(e.items) + 1
            <4>1. \A i, j, l \in Nat : i > 0 /\ i + j = l =>
                     i - 1 \in Nat /\ j + 1 \in Nat \ {0} /\ (i - 1) + (j + 1) = l
                OBVIOUS
            <4> DEFINE i == e.rest
                       j == e.at
                       l == Len(e.items) + 1
            <4>2. i \in Nat /\ j \in Nat /\ l \in Nat /\ i > 0 /\ i + j = l
                BY <1>1
            <4> HIDE DEF i, j, l
            <4>3. i - 1 \in Nat /\ j + 1 \in Nat \ {0} /\ (i - 1) + (j + 1) = l
                BY <4>1, <4>2
            <4> QED
                BY <4>3 DEF i, j, l
        <3> DEFINE r == e.rest - 1
                   k == e.at + 1
        <3>2. f = [e EXCEPT !.rest = r, !.at = k]
            BY <2>2
        <3>3. r \in Nat /\ k \in Nat \ {0} /\ r + k = Len(e.items) + 1
            BY <3>1
        <3> HIDE DEF r, k, f, last
        <3>4. f \in Cursor(V) /\ f.is_map = e.is_map /\ f.rest = r
            BY <3>2, <3>3 DEF Cursor
        <3> QED
            BY <3>4 DEF r
    <2> QED
        BY <2>1, <2>2
<1>4. /\ place' = IF last THEN "end"
                  ELSE IF e.is_map THEN "start_map_key" ELSE "start_array_item"
      /\ m_current' = m_current /\ answer' = answer
    BY DEF O!Less, O!Goto
<1>5. m_ctx' = Append(s, f)
    <2> DEFINE n == Len(Append(s, e))
    <2>1. n \in 1 .. Len(m_ctx) /\ m_ctx[n] = e /\ O!top = n
        BY <1>2, Pushed DEF O!top
    <2>2. m_ctx' = [m_ctx EXCEPT ![n] = f]
        BY <2>1, ZenonT(60) DEF O!Less
    <2> HIDE DEF f
    <2> QED
        BY <1>2, <1>3, <2>2, Replaced
<1> HIDE DEF last, f
<1>6. f.rest \in Nat /\ (IF place' = "end" THEN f.rest = 0 ELSE f.rest > 0)
    BY <1>1, <1>3, <1>4 DEF last
<1>7. m_ctx' \in Seq(Cursor(V))
    BY <1>2, <1>3, <1>5, Pushed
<1>8. place' \in {"start_array_item", "start_map_key", "end"}
    BY <1>4
<1>9. ContextAt(V, m_ctx', place', m_current')
    <2>1. place' = "start_array_item" => ~f.is_map
        BY <1>3, <1>4
    <2>2. place' = "start_map_key" => f.is_map
        BY <1>3, <1>4
    <2> QED
        BY <1>3, <1>5, <1>6, <1>8, <2>1, <2>2 DEF ContextAt
<1>10. ObjectInv(V)'
    BY <1>4, <1>7, <1>8, <1>9 DEF ObjectInv, O!Place
<1>11. TurnOf(place', answer') = "open"
    BY <1>8 DEF TurnOf
<1>12. OpenOf(m_ctx', place', answer') = Append(Containers(s), AboutTo(f))
    BY <1>3, <1>5, <1>8, <1>11, OpenInside
<1>13. AboutTo(f) = UnderWay(e)
    <2>1. CASE e.is_map
        <3>1. 2 * (e.rest - 1) = 2 * e.rest - 2
            BY <1>1
        <3> QED
            BY <1>3, <2>1, <3>1 DEF AboutTo, UnderWay
    <2>2. CASE ~e.is_map
        BY <1>3, <2>2 DEF AboutTo, UnderWay
    <2> QED
        BY <2>1, <2>2
<1> QED
    BY <1>10, <1>11, <1>12, <1>13, ObjectView

LEMMA NextKeepsObject ==
    ASSUME NEW V, ObjectInv(V), O!Next_
    PROVE  ObjectInv(V)' /\ ObjectMoves
<1>1. place = "next" /\ x' = x
    BY DEF O!Next_, O!Tell
<1>2. PICK s \in Seq(Engaged(V)), e \in Cursor(V) :
              /\ m_ctx = Append(s, e) /\ O!back = e /\ e.rest > 0
              /\ Containers(s) \in Seq(Protocol!Frame)
              /\ O!Open = Append(Containers(s), UnderWay(e))
    BY <1>1, AtContainer
<1> DEFINE u == UnderWay(e)
<1>3. e.rest \in Nat /\ e.is_map \in BOOLEAN /\ e.is_key \in BOOLEAN /\ (e.is_key => e.is_map)
    BY DEF Cursor
<1>4. /\ u \in Protocol!Frame
      /\ said' = IF u.kind = "array" THEN "end_array_item"
                 ELSE IF u.left % 2 = 1 THEN "end_map_key" ELSE "end_map_value"
    <2>1. u \in Protocol!Frame
        BY <1>2, CursorFrame
    <2>2. said' = IF ~e.is_map THEN "end_array_item"
                  ELSE IF e.is_key THEN "end_map_key" ELSE "end_map_value"
        BY <1>2 DEF O!Next_, O!Tell
    <2>3. (2 * e.rest - 1) % 2 = 1 /\ (2 * e.rest - 2) % 2 = 0
        BY <1>2, <1>3
    <2>4. u.kind = (IF e.is_map THEN "map" ELSE "array")
          /\ (e.is_map => u.left = IF e.is_key THEN 2 * e.rest - 1 ELSE 2 * e.rest - 2)
        BY DEF UnderWay
    <2> HIDE DEF u
    <2> QED
        BY <1>3, <2>1, <2>2, <2>3, <2>4
<1> HIDE DEF u
<1>5. O!Turn = "ended"
    <2>1. TurnOf(place, answer) = "ended"
        BY <1>1 DEF TurnOf
    <2> QED
        BY <2>1, ObjectView
<1>6. CASE e.is_key /\ O!Goto("start_map_value") /\ m_ctx' = m_ctx
    <2>1. place' = "start_map_value" /\ m_current' = m_current /\ answer' = answer
        BY <1>6 DEF O!Goto
    <2>2. ObjectInv(V)'
        <3>1. ContextAt(V, m_ctx', place', m_current')
            BY <1>2, <1>3, <1>6, <2>1 DEF ContextAt
        <3> QED
            BY <1>1, <1>6, <2>1, <3>1 DEF ObjectInv, O!Place
    <2>3. TurnOf(place', answer') = "open"
        BY <2>1 DEF TurnOf
    <2>4. OpenOf(m_ctx', place', answer') = Append(Containers(s), u)
        BY <1>2, <1>6, <2>1, <2>3, OpenInside DEF u
    <2> QED
        BY <1>2, <1>4, <1>5, <2>2, <2>3, <2>4, ObjectView, ItemEndTold DEF u
<1>7. CASE ~e.is_key /\ O!Less
    <2>1. ObjectInv(V)' /\ O!Turn' = "open" /\ O!Open' = O!Open
        BY <1>1, <1>2, <1>7, LessKeeps
    <2> QED
        BY <1>2, <1>4, <1>5, <2>1, ItemEndTold DEF u
<1>8. CASE O!Refuse
    <2>1. ObjectInv(V)' /\ Refusal
        BY <1>1, <1>8, RefuseKeepsObject, RefusalTold
    <2> QED
        BY <1>2, <1>4, <1>5, <2>1, ItemEndTold DEF u
<1> QED
    BY <1>2, <1>6, <1>7, <1>8 DEF O!Next_

LEMMA EndKeepsObject ==
    ASSUME NEW V, ObjectInv(V), O!End
    PROVE  ObjectInv(V)' /\ ObjectMoves
<1>1. place = "end" /\ x' = x
    BY DEF O!End, O!Tell
<1>2. PICK s \in Seq(Engaged(V)), e \in Cursor(V) :
              /\ m_ctx = Append(s, e) /\ O!back = e /\ e.rest = 0
              /\ SubSeq(m_ctx, 1, O!top - 1) = s
              /\ Containers(s) \in Seq(Protocol!Frame)
              /\ O!Open = Append(Containers(s), AboutTo(e))
    BY <1>1, AtContainer
<1> DEFINE a == AboutTo(e)
<1>3. a \in Protocol!Frame /\ a.left = 0 /\ a.kind = IF e.is_map THEN "map" ELSE "array"
    BY <1>2, CursorFrame DEF AboutTo
<1>4. said' = IF a.kind = "array" THEN "end_array" ELSE "end_map"
    BY <1>2, <1>3 DEF O!End, O!Tell
<1> HIDE DEF a
<1>5. O!Turn = "open"
    <2>1. TurnOf(place, answer) = "open"
        BY <1>1 DEF TurnOf
    <2> QED
        BY <2>1, ObjectView
<1>6. CASE O!Ended(s)
    <2>1. ObjectInv(V)' /\ O!Turn' = "ended" /\ O!Open' = Containers(s)
        BY <1>1, <1>6, EndedKeeps
    <2> QED
        BY <1>2, <1>3, <1>4, <1>5, <2>1, EndTold DEF a
<1>7. CASE O!Refuse
    <2>1. ObjectInv(V)' /\ Refusal
        BY <1>1, <1>7, RefuseKeepsObject, RefusalTold
    <2> QED
        BY <1>2, <1>3, <1>4, <1>5, <2>1, EndTold DEF a
<1> QED
    BY <1>2, <1>6, <1>7 DEF O!End

LEMMA ObjectInit ==
    ASSUME NEW V, O!ParserConstants(V), O!Init
    PROVE  ObjectInv(V) /\ O!Protocol!Init
<1>1. /\ x \in Object /\ m_current = x /\ m_ctx = << >> /\ place = "visit" /\ said = "init"
      /\ answer = "none"
    BY DEF O!Init
<1>2. ObjectInv(V)
    <2>1. x \in V
        BY <1>1 DEF O!ParserConstants
    <2> QED
        BY <1>1, <2>1, EmptySeq DEF ObjectInv, ContextAt, O!Place
<1>3. TurnOf(place, answer) = "value"
    BY <1>1 DEF TurnOf
<1> QED
    BY <1>1, <1>2, <1>3, ObjectView, OpenNothing DEF O!Protocol!Init

LEMMA ObjectStep ==
    ASSUME NEW V, O!ParserConstants(V), ObjectInv(V), [O!Next]_(O!vars)
    PROVE  ObjectInv(V)' /\ ObjectMoves
<1>1. CASE O!Next
    BY <1>1, VisitKeepsObject, StartKeepsObject, StartItemKeepsObject, StartValueKeepsObject,
       NextKeepsObject, EndKeepsObject DEF O!Next
<1>2. CASE UNCHANGED O!vars
    <2>1. ObjectInv(V)'
        BY <1>2 DEF O!vars, ObjectInv
    <2>2. ObjectMoves
        BY <1>2, ObjectView DEF O!vars, ObjectMoves, O!Protocol!vars
    <2> QED
        BY <2>1, <2>2
<1> QED
    BY <1>1, <1>2

\* However the objects are nested, a visitor of objects is called in the order it may rely
\* on, whichever call it refuses.
THEOREM ObjectRefinesVisitorProtocol ==
    ASSUME NEW V, O!ParserConstants(V)
    PROVE  O!Spec => O!RefinesVisitorProtocol
<1>1. O!Init => ObjectInv(V) /\ O!Protocol!Init
    BY ObjectInit
<1>2. ObjectInv(V) /\ [O!Next]_(O!vars) => ObjectInv(V)' /\ [O!Protocol!Next]_(O!Protocol!vars)
    BY ObjectStep DEF ObjectMoves
<1> QED
    BY <1>1, <1>2, PTL DEF O!Spec, O!RefinesVisitorProtocol, O!Protocol!Spec

\* The pointer of every open container is at one of its items, none beyond the last, and the
\* object that is visited is the one the innermost points to.
THEOREM ObjectCursorsInside ==
    ASSUME NEW V, O!ParserConstants(V)
    PROVE  O!Spec => [](O!TypeOK /\ O!CursorsInside)
<1>1. O!Init => ObjectInv(V)
    BY ObjectInit
<1>2. ObjectInv(V) /\ [O!Next]_(O!vars) => ObjectInv(V)'
    BY ObjectStep
<1>3. ASSUME ObjectInv(V) PROVE O!TypeOK /\ O!CursorsInside
    <2>1. \A i \in 1 .. Len(m_ctx) : m_ctx[i] \in Cursor(V)
        BY <1>3 DEF ObjectInv
    <2>2. O!TypeOK
        <3>1. m_current[1] \in Leaf \cup O!Container
            BY <1>3 DEF ObjectInv, O!ParserConstants
        <3>2. \A i \in 1 .. O!top :
                 LET e == m_ctx[i] IN
                 /\ e.is_map \in BOOLEAN /\ e.is_key \in BOOLEAN
                 /\ e.rest \in Nat /\ e.at \in Nat \ {0}
            BY <2>1 DEF Cursor, O!top
        <3> QED
            BY <1>3, <3>1, <3>2 DEF ObjectInv, O!TypeOK
    <2>3. \A i \in 1 .. O!top : m_ctx[i].rest > 0 =>
             m_ctx[i].rest + m_ctx[i].at = Len(m_ctx[i].items) + 1
        BY <2>1 DEF Cursor, O!top
    <2>4. ASSUME place = "visit", O!top > 0 PROVE m_current = O!get(O!back)
        <3>1. m_ctx # << >>
            BY <2>4 DEF O!top
        <3>2. PICK s \in Seq(Engaged(V)), e \in Engaged(V) :
                 m_ctx = Append(s, e) /\ m_current = O!get(e)
            BY <1>3, <2>4, <3>1 DEF ObjectInv, ContextAt
        <3>3. O!back = e
            BY <3>2, Pushed DEF O!back, O!top
        <3> QED
            BY <3>2, <3>3
    <2> QED
        BY <2>2, <2>3, <2>4 DEF O!CursorsInside
<1> QED
    BY <1>1, <1>2, <1>3, PTL DEF O!Spec
=============================================================================
