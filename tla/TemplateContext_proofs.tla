----------------------- MODULE TemplateContext_proofs -----------------------
(***************************************************************************)
(* The parser of the C library reads only bytes that have arrived, stores     *)
(* items only in slots allocated for them, nests no deeper than its stack,    *)
(* reports the size of a message exactly, and delivers the objects that a     *)
(* reading of the whole stream finds: for every stream, every way to cut it   *)
(* into chunks, every stack size and every allocation that fails.             *)
(***************************************************************************)
EXTENDS TemplateReader, SequenceTheorems, WellFoundedInduction, TLAPS

Parsing == {"header", "trail", "push"}

\* The parser waits, or a later call will, for what trails a header.
Waits ==
    \/ pc = "trail"
    \/ pc = "idle" /\ ret \in {"success", "continue"} /\ cs # CS_HEADER

\* Where a call stands, and what the next one will need to go on: the call has
\* not gone back; what a saved state waits for is at least one byte, and one, two
\* or four when it is a size.
PlaceInv ==
    /\ pc \in Parsing => off <= p
    /\ Waits => trail > 0
    /\ Waits /\ cs \in CS_SIZE \cup CS_CONTAINER => trail \in {1, 2, 4}

IInv == TypeOK /\ ReadsReceived /\ ItemsFit /\ SizeExact /\ PlaceInv

Result == {"success", "continue", "parse_error", "nomem"}

\* The part of IInv that the position of the parser is about, and the part about
\* its state.
Position ==
    /\ off \in Nat /\ parsed \in Nat /\ p \in Nat /\ start \in Nat
    /\ pc \in {"idle", "header", "trail", "push", "done"}
    /\ ret \in Result
    /\ ReadsReceived /\ SizeExact
    /\ pc \in Parsing => off <= p
State ==
    /\ cs \in 0 .. ACS_EXT_VALUE
    /\ trail \in 0 .. UINT - 1
    /\ Waits => trail > 0
    /\ Waits /\ cs \in CS_SIZE \cup CS_CONTAINER => trail \in {1, 2, 4}
Frames == stack \in Seq(Frame) /\ ItemsFit
-----------------------------------------------------------------------------
(* How many bytes trail a header, and what is loaded from them *)

LEMMA BitBound == \A k \in 0 .. 3 : Bit(k) \in {1, 2, 4, 8}
  BY SMT DEF Bit

LEMMA FixedTrailBound == \A b \in Variable : FixedTrail(b) \in 1 .. 8
  <1> SUFFICES ASSUME NEW b \in Variable PROVE FixedTrail(b) \in 1 .. 8
    OBVIOUS
  <1>1. CASE b \in (196 .. 198) \cup (202 .. 211)
    BY <1>1, BitBound, b % 4 \in 0 .. 3, SMT DEF FixedTrail
  <1>2. CASE b \in 199 .. 201
    BY <1>2, BitBound, (b + 1) % 4 \in 0 .. 3, SMT DEF FixedTrail
  <1>3. CASE b \in 217 .. 219
    BY <1>3, BitBound, (b % 4) - 1 \in 0 .. 3, SMT DEF FixedTrail
  <1>4. CASE b \in 220 .. 223
    <2>1. b % 2 \in 0 .. 1
      BY <1>4
    <2>2. Bit(b % 2) \in {1, 2}
      BY <2>1, SMT DEF Bit
    <2> QED  BY <1>4, <2>2, SMT DEF FixedTrail
  <1> QED  BY <1>1, <1>2, <1>3, <1>4 DEF Variable

LEMMA ValueIsNoSize ==
    /\ {ACS_STR_VALUE, ACS_BIN_VALUE, ACS_EXT_VALUE} = ACS_VALUE
    /\ \A c \in ACS_VALUE : c \notin CS_SIZE \cup CS_CONTAINER
  BY SMT DEF ACS_VALUE, ACS_STR_VALUE, ACS_BIN_VALUE, ACS_EXT_VALUE, CS_SIZE,
             CS_CONTAINER, CS_BIN, CS_EXT, CS_STR, CS_ARRAY, CS_MAP

\* Sizes, and the counts of containers, have one, two or four bytes.
LEMMA SizeTrail ==
    ASSUME NEW b \in Variable, NEXT_CS(b) \in CS_SIZE \cup CS_CONTAINER
    PROVE  FixedTrail(b) \in {1, 2, 4}
  <1>1. b \in (196 .. 201) \cup (217 .. 223)
    BY SMT DEF Variable, NEXT_CS, CS_SIZE, CS_CONTAINER, CS_BIN, CS_EXT, CS_STR,
               CS_ARRAY, CS_MAP
  <1>2. CASE b \in 196 .. 198
    <2>1. b % 4 \in 0 .. 2
      BY <1>2
    <2>2. Bit(b % 4) \in {1, 2, 4}
      BY <2>1, SMT DEF Bit
    <2> QED  BY <1>2, <2>2, SMT DEF FixedTrail
  <1>3. CASE b \in 199 .. 201
    <2>1. (b + 1) % 4 \in 0 .. 2
      BY <1>3
    <2>2. Bit((b + 1) % 4) \in {1, 2, 4}
      BY <2>1, SMT DEF Bit
    <2> QED  BY <1>3, <2>2, SMT DEF FixedTrail
  <1>4. CASE b \in 217 .. 219
    <2>1. (b % 4) - 1 \in 0 .. 2
      BY <1>4
    <2>2. Bit((b % 4) - 1) \in {1, 2, 4}
      BY <2>1, SMT DEF Bit
    <2> QED  BY <1>4, <2>2, SMT DEF FixedTrail
  <1>5. CASE b \in 220 .. 223
    <2>1. b % 2 \in 0 .. 1
      BY <1>5
    <2>2. Bit(b % 2) \in {1, 2}
      BY <2>1, SMT DEF Bit
    <2> QED  BY <1>5, <2>2, SMT DEF FixedTrail
  <1> QED  BY <1>1, <1>2, <1>3, <1>4, <1>5

LEMMA FixExtTrailBound == \A b \in FixExt : FixExtTrail(b) \in 2 .. 17
  <1> SUFFICES ASSUME NEW b \in FixExt PROVE FixExtTrail(b) \in 2 .. 17
    OBVIOUS
  <1>1. b \in Int /\ b % 4 \in 0 .. 3
    BY DEF FixExt
  <1> QED  BY <1>1, BitBound, SMT DEF FixExtTrail

\* Sizes and counts are natural numbers.
LEMMA LoadedSize ==
    ASSUME NEW bs \in Seq(Byte), Len(bs) \in {1, 2, 4}
    PROVE  LoadUnsigned(bs) \in Nat
  <1>1. \A i \in 1 .. Len(bs) : bs[i] \in Nat
    <2>1. \A i \in 1 .. Len(bs) : bs[i] \in Byte
      OBVIOUS
    <2>2. Byte \subseteq Nat
      BY DEF Byte
    <2> QED  BY <2>1, <2>2
  <1>2. CASE Len(bs) = 1
    <2>1. bs[1] \in Nat
      BY <1>1, <1>2
    <2> QED  BY <1>2, <2>1, SMT DEF LoadUnsigned, Load
  <1>3. CASE Len(bs) = 2
    <2>1. bs[1] \in Nat /\ bs[2] \in Nat
      BY <1>1, <1>3
    <2>2. bs[1] * 256 + bs[2] \in Nat
      BY <2>1
    <2> QED  BY <1>3, <2>2, SMT DEF LoadUnsigned, Load
  <1>4. CASE Len(bs) = 4
    <2>1. bs[1] \in Nat /\ bs[2] \in Nat /\ bs[3] \in Nat /\ bs[4] \in Nat
      BY <1>1, <1>4
    <2>2. Load32(bs[1], bs) \in Nat
      <3>1. bs[1] * 256 + bs[2] \in Nat
        BY <2>1, SMTT(30)
      <3>2. (bs[1] * 256 + bs[2]) * 256 + bs[3] \in Nat
        BY <2>1, <3>1, SMTT(30)
      <3>3. ((bs[1] * 256 + bs[2]) * 256 + bs[3]) * 256 + bs[4] \in Nat
        BY <2>1, <3>2, SMTT(30)
      <3> QED  BY <3>3 DEF Load32
    <2> QED  BY <1>4, <2>2, SMT DEF LoadUnsigned, Load
  <1> QED  BY <1>2, <1>3, <1>4
-----------------------------------------------------------------------------
LEMMA IInvParts ==
    IInv <=> /\ stream \in Streams
             /\ arrived \in 0 .. Len(stream)
             /\ z \in BOOLEAN
             /\ Position /\ State /\ Frames
  BY DEF IInv, TypeOK, PlaceInv, Position, State, Waits, Frames, Result, Parsing, Waits
-----------------------------------------------------------------------------
(* The format *)

\* A size is never negative and is counted in an unsigned int.
LEMMA UIntType == \A n \in Int : UInt(n) \in 0 .. UINT - 1
  BY TemplateConstants, SMT DEF UInt
-----------------------------------------------------------------------------
(* Leaving a step of the loop *)

\* A call that ends between where it began and the last byte that has arrived.
LEMMA EndPosition ==
    ASSUME Position, arrived \in Nat, UNCHANGED <<arrived, start>>,
           NEW q \in Nat, off <= q, q <= arrived,
           NEW r \in Result, End(r, q)
    PROVE  Position' /\ pc' \in {"idle", "done"} /\ ret' = r
  BY SMT DEF Position, End, ReadsReceived, SizeExact, Result, Parsing

LEMMA GotoPosition ==
    ASSUME Position, arrived \in Nat, UNCHANGED <<arrived, start>>,
           NEW q \in Nat, off <= q, q <= arrived,
           NEW label \in Parsing, label # "trail" => q < arrived, Goto(label, q)
    PROVE  Position'
  BY SMT DEF Position, Goto, ReadsReceived, SizeExact, Result, Parsing

\* The bytes up to q have been read and the parser is to read a header.
LEMMA AgainPosition ==
    ASSUME Position, State, arrived \in Nat, UNCHANGED <<arrived, start, trail>>,
           NEW q \in Nat, off <= q, q < arrived, HeaderAgain(q)
    PROVE  Position' /\ State'
  <1>0. q + 1 \in Nat /\ off <= q + 1 /\ q + 1 <= arrived
    BY DEF Position
  <1>1. CASE q + 1 = arrived
    <2>1. End("continue", q + 1) /\ cs' = CS_HEADER
      BY <1>1 DEF HeaderAgain
    <2>2. Position' /\ pc' \in {"idle", "done"}
      BY <1>0, <2>1, EndPosition DEF Result
    <2> QED  BY <2>1, <2>2 DEF State, Waits, CS_HEADER, ACS_EXT_VALUE
  <1>2. CASE q + 1 # arrived
    <2>1. Goto("header", q + 1) /\ cs' = CS_HEADER
      BY <1>2 DEF HeaderAgain
    <2>2. Position'
      BY <1>0, <1>2, <2>1, GotoPosition DEF Parsing
    <2> QED  BY <2>1, <2>2 DEF State, Waits, CS_HEADER, ACS_EXT_VALUE, Goto
  <1> QED  BY <1>1, <1>2
-----------------------------------------------------------------------------
(* The operators that end a step: each keeps the parts of the invariant when the
   last byte read is at q.  Whole collects what they share. *)

Whole(q) ==
    /\ Position /\ State /\ Frames
    /\ z \in BOOLEAN
    /\ arrived \in Nat
    /\ UNCHANGED <<arrived, start>>
    /\ q \in Nat /\ off <= q /\ q < arrived

Kept == Position' /\ State' /\ Frames' /\ z' \in BOOLEAN

LEMMA FailKeeps ==
    ASSUME NEW q, Whole(q), NEW r \in {"parse_error", "nomem"}, Fail(r, q),
           UNCHANGED <<cs, open>>, trail' \in 0 .. UINT - 1, z' \in BOOLEAN
    PROVE  Kept
  <1>1. Position' /\ pc' \in {"idle", "done"} /\ ret' = r
    BY EndPosition DEF Whole, Fail, Result
  <1>2. pc' = "idle"
    BY DEF Fail, End
  <1>3. State'
    BY <1>1, <1>2 DEF State, Waits, Whole
  <1>4. Frames'
    BY DEF Whole, Frames, ItemsFit, open, top
  <1> QED  BY <1>1, <1>3, <1>4 DEF Kept

LEMMA ValueKeeps ==
    ASSUME NEW q, Whole(q), NEW o, Value(o, q),
           UNCHANGED cs, trail' \in 0 .. UINT - 1
    PROVE  Kept
  <1>1. Position'
    BY GotoPosition DEF Whole, Value, Parsing
  <1>2. pc' = "push"
    BY DEF Value, Goto
  <1>3. State'
    BY <1>2 DEF State, Waits, Whole
  <1>4. Frames' /\ z' \in BOOLEAN
    BY DEF Value, Whole, Frames, ItemsFit, open, top
  <1> QED  BY <1>1, <1>3, <1>4 DEF Kept

LEMMA ValueInZoneKeeps ==
    ASSUME NEW q, Whole(q), NEW o, ValueInZone(o, q),
           UNCHANGED cs, trail' \in 0 .. UINT - 1
    PROVE  Kept
  <1>1. CASE Goto("push", q) /\ z' = TRUE /\ UNCHANGED open
    <2>1. Position'
      BY <1>1, GotoPosition DEF Whole, Parsing
    <2>2. State'
      BY <1>1 DEF State, Waits, Whole, Goto
    <2>3. Frames'
      BY <1>1 DEF Whole, Frames, ItemsFit, open, top
    <2> QED  BY <1>1, <2>1, <2>2, <2>3 DEF Kept
  <1>2. CASE Fail("nomem", q) /\ UNCHANGED <<open, z>>
    BY <1>2, FailKeeps DEF Whole
  <1> QED  BY <1>1, <1>2 DEF ValueInZone

LEMMA AwaitKeeps ==
    ASSUME NEW q, Whole(q), NEW c \in 0 .. ACS_EXT_VALUE, NEW n \in 1 .. UINT - 1,
           c \in CS_SIZE \cup CS_CONTAINER => n \in {1, 2, 4},
           Await(c, n, q)
    PROVE  Kept
  <1>1. Position'
    BY GotoPosition, q + 1 \in Nat, off <= q + 1, q + 1 <= arrived
       DEF Whole, Await, Parsing, Position
  <1>2. State'
    BY SMT DEF Await, Goto, State, Waits
  <1>3. Frames' /\ z' \in BOOLEAN
    BY DEF Await, Whole, Frames, ItemsFit, open, top
  <1> QED  BY <1>1, <1>2, <1>3 DEF Kept

LEMMA StartKeeps ==
    ASSUME NEW q, Whole(q), NEW ct \in ContainerType, NEW n \in Nat, Start(ct, n, q)
    PROVE  Kept
  <1>1. CASE top < STACK_SIZE /\ n = 0 /\ Goto("push", q) /\ z' = TRUE /\ UNCHANGED <<cs, open>>
    <2>1. Position'
      BY <1>1, GotoPosition DEF Whole, Parsing
    <2>2. State'
      BY <1>1 DEF State, Waits, Whole, Goto, Start
    <2>3. Frames'
      BY <1>1 DEF Whole, Frames, ItemsFit, open, top
    <2> QED  BY <1>1, <2>1, <2>2, <2>3 DEF Kept
  <1>2. CASE /\ top < STACK_SIZE
             /\ n > 0
             /\ stack' = Append(stack, [count |-> n, ct |-> ct, size |-> 0, slots |-> n])
             /\ z' = TRUE
             /\ HeaderAgain(q)
    <2>1. Position' /\ State'
      BY <1>2, AgainPosition DEF Whole, Start
    <2> DEFINE f == [count |-> n, ct |-> ct, size |-> 0, slots |-> n]
    <2>2. f \in Frame /\ f.count > 0 /\ f.size + f.count = f.slots
      BY <1>2 DEF Frame
    <2>3. stack' \in Seq(Frame) /\ Len(stack') = Len(stack) + 1 /\ Len(stack) \in Nat
          /\ \A i \in 1 .. Len(stack) + 1 :
                stack'[i] = IF i = Len(stack) + 1 THEN f ELSE stack[i]
      BY <1>2, <2>2 DEF Whole, Frames
    <2>4. Frames'
      BY <1>2, <2>2, <2>3, TemplateConstants, SMT DEF Whole, Frames, ItemsFit, top
    <2> QED  BY <1>2, <2>1, <2>4 DEF Kept
  <1>3. CASE /\ Fail("nomem", q)
             /\ z' \in IF top < STACK_SIZE THEN {z, TRUE} ELSE {z}
             /\ UNCHANGED <<cs, open>>
    <2>1. z' \in BOOLEAN /\ trail' \in 0 .. UINT - 1
      BY <1>3 DEF Whole, Start, State, Waits
    <2> QED  BY <1>3, <2>1, FailKeeps
  <1> QED  BY <1>1, <1>2, <1>3 DEF Start
-----------------------------------------------------------------------------
(* The climb *)

\* The innermost frame: what ItemsFit says of it, and of the frames below.
LEMMA TopFrame ==
    ASSUME Frames, top > 0
    PROVE  /\ stack[top] \in Frame /\ stack[top].count > 0
           /\ stack[top].size + stack[top].count = stack[top].slots
           /\ top \in 1 .. Len(stack)
  BY SMT DEF Frames, ItemsFit, top

\* Replacing it by a frame that fits, too.
LEMMA ReplaceTop ==
    ASSUME Frames, top > 0,
           NEW f \in Frame, f.count > 0, f.size + f.count = f.slots,
           stack' = [stack EXCEPT ![top] = f]
    PROVE  Frames'
  <1>1. /\ stack' \in Seq(Frame) /\ Len(stack') = Len(stack)
        /\ \A i \in 1 .. Len(stack) : stack'[i] = IF i = top THEN f ELSE stack[i]
    BY DEF Frames, top
  <1> QED  BY <1>1 DEF Frames, ItemsFit, top

LEMMA StoreKeeps ==
    ASSUME Whole(p), pc = "push", top > 0, NEW v, NEW ct \in ContainerType, Store(v, ct),
           UNCHANGED z
    PROVE  Kept
  <1> DEFINE c == stack[top]
  <1>0. c \in Frame /\ c.count > 0 /\ c.size + c.count = c.slots /\ top \in 1 .. Len(stack)
    BY TopFrame DEF Whole
  <1>1. CASE c.count = 1
    <2>1. stack' = SubSeq(stack, 1, top - 1) /\ UNCHANGED <<call, p, state>>
      BY <1>1 DEF Store
    <2>2. Position' /\ State'
      BY <2>1 DEF Whole, Position, State, Waits, ReadsReceived, SizeExact, call, state
    <2>3. stack \in Seq(Frame) /\ Len(stack) \in Nat /\ Len(stack) > 0
      BY <1>0 DEF Whole, Frames, top
    <2>4. /\ stack' \in Seq(Frame) /\ Len(stack') = Len(stack) - 1
          /\ \A i \in 1 .. Len(stack) - 1 : stack'[i] = stack[i]
      <3> DEFINE n == Len(stack) - 1
      <3>1. n \in Int /\ 1 \in Int /\ \A i \in 1 .. n : stack[i] \in Frame
        BY <2>3
      <3>2. /\ SubSeq(stack, 1, n) \in Seq(Frame)
            /\ Len(SubSeq(stack, 1, n)) = IF 1 <= n THEN n - 1 + 1 ELSE 0
            /\ \A i \in 1 .. n - 1 + 1 : SubSeq(stack, 1, n)[i] = stack[1 + i - 1]
        <4> HIDE DEF n
        <4> QED  BY <3>1, SubSeqProperties
      <3>3. stack' = SubSeq(stack, 1, n)
        BY <2>1 DEF top
      <3>4. n \in Nat /\ n = Len(stack) - 1
        BY <2>3
      <3> HIDE DEF n
      <3>5. /\ Len(SubSeq(stack, 1, n)) = n
            /\ \A i \in 1 .. n : SubSeq(stack, 1, n)[i] = stack[i]
        BY <3>2, <3>4, SMT
      <3> QED  BY <3>2, <3>3, <3>4, <3>5
    <2>5. Frames'
      BY <2>3, <2>4, TemplateConstants DEF Whole, Frames, ItemsFit, top
    <2> QED  BY <2>2, <2>5 DEF Kept, Whole
  <1>2. CASE c.count # 1
    <2> DEFINE f == [count |-> c.count - 1, ct |-> ct, size |-> c.size + 1,
                     slots |-> c.slots]
    <2>1. stack' = [stack EXCEPT ![top] = f] /\ HeaderAgain(p) /\ UNCHANGED trail
      BY <1>2 DEF Store
    <2>2. f \in Frame /\ f.count > 0 /\ f.size + f.count = f.slots
      BY <1>0, <1>2 DEF Frame
    <2>3. Frames'
      BY <2>1, <2>2, ReplaceTop DEF Whole
    <2>4. Position' /\ State'
      BY <2>1, AgainPosition DEF Whole
    <2> QED  BY <2>3, <2>4 DEF Kept, Whole
  <1> QED  BY <1>1, <1>2

LEMMA MapKeyKeeps ==
    ASSUME Whole(p), pc = "push", Push_MapKey
    PROVE  Kept
  <1>0. stack[top] \in Frame /\ stack[top].count > 0
        /\ stack[top].size + stack[top].count = stack[top].slots /\ top \in 1 .. Len(stack)
    BY TopFrame DEF Whole, Push_MapKey
  <1> DEFINE f == [stack[top] EXCEPT !.ct = "MAP_VALUE"]
  <1>1. stack' = [stack EXCEPT ![top] = f] /\ HeaderAgain(p) /\ UNCHANGED <<trail, z>>
    BY DEF Push_MapKey
  <1>2. f \in Frame /\ f.count > 0 /\ f.size + f.count = f.slots
    BY <1>0 DEF Frame, ContainerType
  <1>3. Frames'
    BY <1>1, <1>2, ReplaceTop DEF Whole, Push_MapKey
  <1>4. Position' /\ State'
    BY <1>1, AgainPosition DEF Whole
  <1> QED  BY <1>1, <1>3, <1>4 DEF Kept, Whole
-----------------------------------------------------------------------------
(* What trails a header *)

LEMMA HeaderKeeps ==
    ASSUME IInv, NEW b \in Byte, Header(b)
    PROVE  Kept
  <1>1. Whole(p)
    BY IInvParts DEF Header, Whole, Position, data, past, ReadsReceived, Parsing
  <1>2. trail \in 0 .. UINT - 1 /\ UINT > 65536 /\ UINT \in Nat
    BY IInvParts, TemplateConstants DEF State, Waits
  <1>3. CASE \E o : Value(o, p) /\ UNCHANGED state
    BY <1>1, <1>2, <1>3, ValueKeeps DEF state
  <1>4. CASE b \in Variable /\ Await(NEXT_CS(b), FixedTrail(b), p)
    <2>1. NEXT_CS(b) \in 0 .. ACS_EXT_VALUE
      BY <1>4 DEF NEXT_CS, ACS_EXT_VALUE, Variable
    <2>2. FixedTrail(b) \in 1 .. UINT - 1
      BY <1>2, <1>4, FixedTrailBound
    <2> QED  BY <1>1, <1>4, <2>1, <2>2, SizeTrail, AwaitKeeps
  <1>5. CASE b \in FixExt /\ Await(ACS_EXT_VALUE, FixExtTrail(b), p)
    <2>1. FixExtTrail(b) \in 1 .. UINT - 1
      BY <1>2, <1>5, FixExtTrailBound
    <2> QED  BY <1>1, <1>5, <2>1, ValueIsNoSize, AwaitKeeps DEF ACS_EXT_VALUE
  <1>6. CASE ValueInZone(<<"str", << >> >>, p) /\ trail' = 0 /\ UNCHANGED cs
    BY <1>1, <1>2, <1>6, ValueInZoneKeeps
  <1>7. CASE b \in FixStr \ {160} /\ Await(ACS_STR_VALUE, b - 160, p)
    <2>1. b - 160 \in 1 .. UINT - 1
      BY <1>2, <1>7 DEF FixStr
    <2> QED  BY <1>1, <1>7, <2>1, ValueIsNoSize, AwaitKeeps DEF ACS_STR_VALUE, ACS_EXT_VALUE
  <1>8. CASE b \in FixArray /\ Start("ARRAY_ITEM", b - 144, p)
    <2>1. b - 144 \in Nat
      BY <1>8 DEF FixArray
    <2> QED  BY <1>1, <1>8, <2>1, StartKeeps DEF ContainerType
  <1>9. CASE b \in FixMap /\ Start("MAP_KEY", b - 128, p)
    <2>1. b - 128 \in Nat
      BY <1>9 DEF FixMap
    <2> QED  BY <1>1, <1>9, <2>1, StartKeeps DEF ContainerType
  <1>10. CASE Fail("parse_error", p) /\ UNCHANGED <<state, open, z>>
    BY <1>1, <1>2, <1>10, FailKeeps DEF state, Whole
  <1> QED  BY <1>3, <1>4, <1>5, <1>6, <1>7, <1>8, <1>9, <1>10 DEF Header

LEMMA ReadKeeps ==
    ASSUME NEW q, Whole(q), NEW c, NEW bs, Read(c, bs, q),
           c \in CS_SIZE \cup CS_CONTAINER => LoadUnsigned(bs) \in Int
    PROVE  Kept
  <1>1. trail \in 0 .. UINT - 1 /\ UINT > 65536 /\ UINT \in Nat
    BY TemplateConstants DEF Whole, State, Waits
  <1>2. CASE c \in CS_NUMBER /\ Value(Number(c, bs), q) /\ UNCHANGED state
    BY <1>1, <1>2, ValueKeeps DEF state
  <1>3. CASE /\ c \in CS_SIZE
             /\ ValueTrail(c, bs) > 0
             /\ Await(ValueState(c), ValueTrail(c, bs), q)
    <2>1. ValueTrail(c, bs) \in 0 .. UINT - 1
      <3>1. UInt(LoadUnsigned(bs)) \in 0 .. UINT - 1
        BY <1>3, UIntType
      <3>2. UInt(UInt(LoadUnsigned(bs)) + 1) \in 0 .. UINT - 1
        BY <3>1, <1>1, UIntType, UInt(LoadUnsigned(bs)) + 1 \in Int
      <3> QED  BY <3>1, <3>2 DEF ValueTrail
    <2>2. ValueState(c) \in ACS_VALUE /\ ValueState(c) \in 0 .. ACS_EXT_VALUE
      BY DEF ValueState, ACS_VALUE, ACS_STR_VALUE, ACS_BIN_VALUE, ACS_EXT_VALUE
    <2>3. ValueTrail(c, bs) \in 1 .. UINT - 1
      BY <1>1, <1>3, <2>1
    <2> QED  BY <1>3, <2>2, <2>3, ValueIsNoSize, AwaitKeeps
  <1>4. CASE ValueInZone(Raw(ValueState(c), << >>), q) /\ trail' = 0 /\ UNCHANGED cs
    BY <1>1, <1>4, ValueInZoneKeeps
  <1>5. CASE Fail("parse_error", q) /\ trail' = 0 /\ UNCHANGED <<cs, open, z>>
    BY <1>1, <1>5, FailKeeps DEF Whole
  <1>6. CASE ValueInZone(Raw(c, bs), q) /\ UNCHANGED state
    BY <1>1, <1>6, ValueInZoneKeeps DEF state
  <1>7. CASE c \in CS_CONTAINER
    <2>1. UInt(LoadUnsigned(bs)) \in Nat
      BY <1>1, <1>7, UIntType
    <2>2. CASE Start("ARRAY_ITEM", UInt(LoadUnsigned(bs)), q)
      BY <2>1, <2>2, StartKeeps DEF ContainerType
    <2>3. CASE Start("MAP_KEY", UInt(LoadUnsigned(bs)), q)
      BY <2>1, <2>3, StartKeeps DEF ContainerType
    <2> QED  BY <1>7, <2>2, <2>3, <1>2, <1>3, <1>4, <1>5, <1>6 DEF Read
  <1> QED  BY <1>2, <1>3, <1>4, <1>5, <1>6, <1>7 DEF Read, CS_CONTAINER
-----------------------------------------------------------------------------
(* The invariant *)

\* The numbers a size or a container announces are loaded from 1, 2 or 4 bytes.
LEMMA LoadedHere ==
    ASSUME IInv, pc = "trail", arrived - p >= trail,
           trail \in {1, 2, 4}
    PROVE  LoadUnsigned(Bytes(p, trail)) \in Int
  <1> DEFINE bs == Bytes(p, trail)
  <1>1. stream \in Seq(Byte) /\ p \in Nat /\ trail \in Nat /\ arrived <= Len(stream)
        /\ p + trail <= Len(stream)
    BY TemplateConstants DEF IInv, TypeOK
  <1>2. bs \in Seq(Byte) /\ Len(bs) = trail
    <2> DEFINE m == p + 1  n == p + trail
    <2>1. m \in Int /\ n \in Int /\ \A i \in m .. n : stream[i] \in Byte
      BY <1>1
    <2>2. /\ SubSeq(stream, m, n) \in Seq(Byte)
          /\ Len(SubSeq(stream, m, n)) = IF m <= n THEN n - m + 1 ELSE 0
      <3> HIDE DEF m, n
      <3> QED  BY <2>1, SubSeqProperties
    <2> QED  BY <1>1, <2>2 DEF Bytes
  <1> HIDE DEF bs
  <1>3. LoadUnsigned(bs) \in Nat
    BY <1>2, LoadedSize
  <1> QED  BY <1>3 DEF bs

LEMMA TrailKeeps ==
    ASSUME IInv, Trail
    PROVE  Kept
  <1> DEFINE q == p + trail - 1
  <1>1. pc = "trail" /\ arrived - p >= trail /\ trail > 0 /\ trail \in Nat /\ p \in Nat
        /\ off <= p /\ arrived \in Nat
    BY TemplateConstants DEF IInv, TypeOK, PlaceInv, Waits, Parsing, Trail
  <1>2. Whole(q)
    BY <1>1, IInvParts, SMT DEF Trail, Whole, data, past, Position
  <1>3. cs \in CS_SIZE \cup CS_CONTAINER => LoadUnsigned(Bytes(p, trail)) \in Int
    BY <1>1, LoadedHere DEF IInv, PlaceInv, Waits
  <1>4. Read(cs, Bytes(p, trail), q)
    BY DEF Trail
  <1> HIDE DEF q
  <1> QED  BY <1>2, <1>3, <1>4, ReadKeeps

LEMMA KeptIInv ==
    ASSUME IInv, Kept, UNCHANGED data
    PROVE  IInv'
  <1>1. stream \in Streams /\ arrived \in 0 .. Len(stream)
    BY DEF IInv, TypeOK
  <1>2. /\ stream' \in Streams /\ arrived' \in 0 .. Len(stream')
    BY <1>1 DEF data
  <1> QED  BY <1>2, IInvParts DEF Kept, IInv, TypeOK, PlaceInv, Position, State, Waits,
                                  Frames, Result, Parsing

LEMMA InitInv == Init => IInv
  <1> SUFFICES ASSUME Init PROVE IInv
    OBVIOUS
  <1>1. stream \in Streams /\ Len(stream) \in Nat /\ arrived = 0
    BY TemplateConstants DEF Init
  <1>2. stack = << >> /\ << >> \in Seq(Frame) /\ Len(stack) = 0
    BY DEF Init
  <1>3. TypeOK
    <2>1. stack \in Seq(Frame)
      BY <1>2
    <2>2. cs \in 0 .. ACS_EXT_VALUE /\ trail \in 0 .. UINT - 1
      BY TemplateConstants, SMT DEF Init, CS_HEADER, ACS_EXT_VALUE
    <2>3. arrived \in 0 .. Len(stream)
      BY <1>1
    <2> QED  BY <1>1, <2>1, <2>2, <2>3, Zenon DEF Init, TypeOK
  <1>4. ReadsReceived /\ SizeExact /\ PlaceInv
    BY <1>1 DEF Init, ReadsReceived, SizeExact, PlaceInv, Waits, Parsing
  <1>5. ItemsFit
    BY <1>2, TemplateConstants DEF ItemsFit, top
  <1> QED  BY <1>3, <1>4, <1>5 DEF IInv

LEMMA StepInv == IInv /\ [Next]_vars => IInv'
  <1> SUFFICES ASSUME IInv, [Next]_vars PROVE IInv'
    OBVIOUS
  <1>0. Position /\ State /\ Frames /\ z \in BOOLEAN /\ arrived \in Nat
        /\ stream \in Streams /\ arrived \in 0 .. Len(stream)
    BY IInvParts
  <1>1. ASSUME NEW n \in 1 .. Len(stream), Arrive(n) PROVE IInv'
    <2>1. stream' \in Streams /\ arrived' \in 0 .. Len(stream') /\ arrived' >= arrived
          /\ arrived' \in Nat
      BY <1>0, <1>1 DEF Arrive
    <2>2. Position'
      BY <1>0, <1>1, <2>1 DEF Arrive, Position, ReadsReceived, SizeExact, call, past, Parsing
    <2>3. State'
      BY <1>0, <1>1 DEF Arrive, State, Waits, state, call
    <2>4. Frames'
      BY <1>0, <1>1 DEF Arrive, Frames, ItemsFit, top, open
    <2> QED  BY <1>0, <1>1, <2>1, <2>2, <2>3, <2>4
             DEF Arrive, IInv, TypeOK, PlaceInv, Position, State, Waits, Frames, Result
  <1>2. CASE Execute
    <2>1. Position'
      BY <1>0, <1>2 DEF Execute, Position, ReadsReceived, SizeExact, past, data, Parsing
    <2>2. State'
      BY <1>0, <1>2 DEF Execute, State, Waits, state
    <2>3. Frames' /\ z' \in BOOLEAN
      BY <1>0, <1>2 DEF Execute, Frames, ItemsFit, top, open
    <2> QED  BY <1>2, <2>1, <2>2, <2>3, KeptIInv DEF Execute, Kept
  <1>3. ASSUME NEW b \in Byte, Header(b) PROVE IInv'
    BY <1>3, HeaderKeeps, KeptIInv DEF Header
  <1>4. CASE Trail
    BY <1>4, TrailKeeps, KeptIInv DEF Trail
  <1>5. CASE Out
    <2>1. End("continue", p) /\ pc = "trail" /\ UNCHANGED <<arrived, start, state, open, z>>
      BY <1>5 DEF Out, data, past
    <2>2. off <= p /\ p <= arrived /\ p \in Nat
      BY <1>0, <2>1 DEF Position, ReadsReceived, Parsing
    <2>3. Position' /\ pc' \in {"idle", "done"}
      BY <1>0, <2>1, <2>2, EndPosition DEF Result
    <2>4. State'
      BY <1>0, <2>1, <2>3 DEF State, Waits, state
    <2>5. Frames' /\ z' \in BOOLEAN
      BY <1>0, <2>1 DEF Frames, ItemsFit, top, open
    <2> QED  BY <1>5, <2>3, <2>4, <2>5, KeptIInv DEF Out, Kept
  <1>6. ASSUME pc = "push", UNCHANGED <<data, past>> PROVE Whole(p)
    BY <1>0, <1>6 DEF Whole, data, past, Position, ReadsReceived, Parsing
  <1>7. CASE Push_ArrayItem
    BY <1>6, <1>7, StoreKeeps, KeptIInv DEF Push_ArrayItem, ContainerType, Store, call,
       data, past
  <1>8. CASE Push_MapKey
    BY <1>6, <1>8, MapKeyKeeps, KeptIInv DEF Push_MapKey, data, past
  <1>9. CASE Push_MapValue
    BY <1>6, <1>9, StoreKeeps, KeptIInv DEF Push_MapValue, ContainerType, data, past
  <1>10. CASE Finish
    <2>1. End("success", p + 1) /\ pc = "push" /\ UNCHANGED <<arrived, start, state, open, z>>
      BY <1>10 DEF Finish, data, past
    <2>2. off <= p + 1 /\ p + 1 <= arrived /\ p + 1 \in Nat
      BY <1>0, <2>1 DEF Position, ReadsReceived, Parsing
    <2>3. Position' /\ pc' = "done"
      BY <1>0, <2>1, <2>2, EndPosition DEF Result, End
    <2>4. State'
      BY <1>0, <2>1, <2>3 DEF State, Waits, state
    <2>5. Frames' /\ z' \in BOOLEAN
      BY <1>0, <2>1 DEF Frames, ItemsFit, top, open
    <2> QED  BY <1>10, <2>3, <2>4, <2>5, KeptIInv DEF Finish, Kept
  <1>11. CASE Next_Done
    <2>1. Position'
      BY <1>0, <1>11 DEF Next_Done, Position, ReadsReceived, SizeExact, data, Parsing
    <2>2. State'
      BY <1>0, <1>11, TemplateConstants DEF Next_Done, State, Waits, CS_HEADER, ACS_EXT_VALUE
    <2>3. Frames' /\ z' \in BOOLEAN
      <3>1. stack' = << >> /\ << >> \in Seq(Frame) /\ Len(stack') = 0 /\ z' = FALSE
        BY <1>11 DEF Next_Done
      <3>2. ItemsFit'
        BY <3>1, TemplateConstants DEF ItemsFit, top
      <3> QED  BY <3>1, <3>2 DEF Frames
    <2> QED  BY <1>11, <2>1, <2>2, <2>3, KeptIInv DEF Next_Done, Kept
  <1>12. CASE UNCHANGED vars
    BY <1>12 DEF vars, IInv, TypeOK, ReadsReceived, ItemsFit, SizeExact, PlaceInv, Waits, top
  <1> QED  BY <1>1, <1>2, <1>3, <1>4, <1>5, <1>7, <1>8, <1>9, <1>10, <1>11, <1>12
           DEF Next, Continue

\* What every step of the parser keeps.
THEOREM Invariance == Spec => []IInv
  BY InitInv, StepInv, PTL DEF Spec

\* The parser's variables always have their types.
THEOREM TemplateTypeOK == Spec => []TypeOK
  <1>1. IInv => TypeOK
    BY DEF IInv
  <1> QED  BY <1>1, Invariance, PTL

\* template_execute reads no byte that has not arrived.
THEOREM TemplateReadsReceived == Spec => []ReadsReceived
  <1>1. IInv => ReadsReceived
    BY DEF IInv
  <1> QED  BY <1>1, Invariance, PTL

\* Items are only stored in slots allocated for them, in at most STACK_SIZE
\* containers at once.
THEOREM TemplateItemsFit == Spec => []ItemsFit
  <1>1. IInv => ItemsFit
    BY DEF IInv
  <1> QED  BY <1>1, Invariance, PTL

\* parsed is the size of the current message, however many calls it takes.
THEOREM TemplateSizeExact == Spec => []SizeExact
  <1>1. IInv => SizeExact
    BY DEF IInv
  <1> QED  BY <1>1, Invariance, PTL
-----------------------------------------------------------------------------
\* The parser stands on bytes that have arrived, where parsed and the stack say.
THEOREM TemplatePlaceExact == Spec => []PlaceExact
BY TemplateReadsReceived, TemplateSizeExact, TemplateItemsFit, PTL DEF PlaceExact
-----------------------------------------------------------------------------
(* The functions of one object.  Between their calls the context is not used:   *)
(* it is left as the last call left it, and need not be one to go on from.      *)

OnceInv ==
    /\ TypeOK /\ PlaceExact
    /\ function \in {"unpacker", "none", "unpack", "unpack_next"}
    /\ function = "none" => pc = "idle"
    /\ function # "none" => PlaceInv
    /\ Running => offset = start

LEMMA OnceIsIInv == OnceInv /\ function # "none" => IInv
  BY DEF OnceInv, IInv, PlaceExact

LEMMA OnceInit == Once_Init => OnceInv
  <1>1. Once_Init => IInv
    BY InitInv DEF Once_Init
  <1> QED  BY <1>1 DEF Once_Init, Init, OnceInv, IInv, PlaceExact, Running

\* No step of a call but the end of msgpack_unpacker_next moves on to another message.
LEMMA MessageStays == Continue /\ pc # "done" => UNCHANGED start
  BY DEF Continue, Header, Trail, Out, Push_ArrayItem, Push_MapKey, Push_MapValue, Finish,
         Next_Done, past

LEMMA OnceArrive ==
    ASSUME OnceInv, NEW n \in 1 .. Len(stream), Once_Arrive(n)
    PROVE  OnceInv'
  <1>1. /\ function = "none" /\ pc = "idle" /\ UNCHANGED <<function, stream, off, parsed, pc>>
        /\ UNCHANGED <<ret, cs, trail, stack, z, p, start>>
        /\ arrived' = arrived + n /\ arrived + n <= Len(stream)
    BY DEF Once_Arrive, Arrive, once, call, state, open, past
  <1>2. TypeOK /\ Len(stream) \in Nat
    BY TemplateConstants DEF OnceInv, TypeOK
  <1>3. TypeOK'
    BY <1>1, <1>2 DEF TypeOK
  <1>4. PlaceExact'
    BY <1>1, <1>2 DEF OnceInv, PlaceExact, ReadsReceived, SizeExact, ItemsFit, top, TypeOK
  <1> QED  BY <1>1, <1>3, <1>4 DEF OnceInv, Running

LEMMA OnceCall ==
    ASSUME OnceInv, NEW f \in {"unpack", "unpack_next"}, Call(f)
    PROVE  OnceInv'
  <1>1. TypeOK /\ UINT > 65536 /\ UINT \in Nat
    BY TemplateConstants DEF OnceInv
  <1>2. stack' = << >> /\ << >> \in Seq(Frame) /\ Len(stack') = 0
    BY DEF Call
  <1>3. TypeOK'
    BY <1>1, <1>2 DEF Call, TypeOK, CS_HEADER, ACS_EXT_VALUE, ZoneOf, data, past
  <1>4. ItemsFit'
    BY <1>2, TemplateConstants DEF ItemsFit, top
  <1>5. PlaceExact' /\ PlaceInv'
    BY <1>1, <1>4 DEF Call, PlaceExact, ReadsReceived, SizeExact, PlaceInv, Waits, Parsing,
                      TypeOK, data, past
  <1> QED  BY <1>3, <1>5 DEF OnceInv, Call, Running, past

LEMMA OnceReturn ==
    ASSUME OnceInv, Once_Return
    PROVE  OnceInv'
  <1>1. /\ pc' = "idle" /\ function' = "none"
        /\ UNCHANGED <<stream, arrived, off, ret, cs, trail, stack, p>>
        /\ z' = (z /\ ~(Failed /\ function = "unpack_next"))
        /\ start' = IF ret = "success" THEN off ELSE start
        /\ parsed' = IF ret = "success" THEN 0 ELSE parsed
    BY DEF Once_Return, data, state, open, past
  <1>2. TypeOK'
    BY <1>1 DEF OnceInv, TypeOK
  <1>3. PlaceExact'
    BY <1>1 DEF OnceInv, TypeOK, PlaceExact, ReadsReceived, SizeExact, ItemsFit, top
  <1> QED  BY <1>1, <1>2, <1>3 DEF OnceInv, Running

LEMMA OnceStep == OnceInv /\ [Once_Next]_once_vars => OnceInv'
  <1> SUFFICES ASSUME OnceInv, [Once_Next]_once_vars PROVE OnceInv'
    OBVIOUS
  <1>1. CASE Streaming(Next)
    <2>1. function = "unpacker" /\ function' = function /\ Next
      BY <1>1 DEF Streaming, once
    <2>2. IInv'
      BY <2>1, OnceIsIInv, StepInv
    <2> QED  BY <2>1, <2>2 DEF OnceInv, IInv, PlaceExact, Running
  <1>2. ASSUME NEW n \in 1 .. Len(stream), Once_Arrive(n) PROVE OnceInv'
    BY <1>2, OnceArrive
  <1>3. ASSUME NEW f \in {"unpack", "unpack_next"}, Call_Empty(f) PROVE OnceInv'
    <2>1. UNCHANGED <<stream, arrived, off, parsed, pc, ret, cs, trail, stack, p, start, function>>
          /\ z' \in BOOLEAN /\ function = "none"
      BY <1>3 DEF Call_Empty, data, call, state, open, past, ZoneOf
    <2> QED  BY <2>1 DEF OnceInv, TypeOK, PlaceExact, ReadsReceived, SizeExact, ItemsFit,
                         top, Running
  <1>4. ASSUME NEW f \in {"unpack", "unpack_next"}, Call(f) PROVE OnceInv'
    BY <1>4, OnceCall
  <1>5. CASE Once_Continue
    <2>1. Running /\ Continue /\ pc # "done" /\ UNCHANGED <<function, offset>>
      BY <1>5 DEF Once_Continue, once
    <2>2. IInv' /\ UNCHANGED start
      BY <2>1, OnceIsIInv, StepInv, MessageStays DEF Next, Running
    <2> QED  BY <2>1, <2>2 DEF OnceInv, IInv, PlaceExact, Running
  <1>6. CASE Once_Return
    BY <1>6, OnceReturn
  <1>7. CASE UNCHANGED once_vars
    <2>1. UNCHANGED vars /\ UNCHANGED <<function, offset>>
      BY <1>7 DEF once_vars, once
    <2> QED  BY <2>1 DEF vars, OnceInv, TypeOK, PlaceExact, ReadsReceived, SizeExact, ItemsFit,
                         PlaceInv, Waits, top, Running
  <1> QED  BY <1>1, <1>2, <1>3, <1>4, <1>5, <1>6, <1>7 DEF Once_Next

\* The parser's invariant, whichever function runs it.
THEOREM OnceInvariance == Once_Spec => []OnceInv
  BY OnceInit, OnceStep, PTL DEF Once_Spec

\* Whichever function unpacks, in calls of whatever bytes: it reads only bytes that have
\* arrived, counts what it has taken, and stores items only where there is room.
THEOREM OncePlaceExact == Once_Spec => []PlaceExact
  <1>1. OnceInv => PlaceExact
    BY DEF OnceInv
  <1> QED  BY <1>1, OnceInvariance, PTL

\* *off is behind the object, or has not moved, or is on bytes of the message that have
\* arrived: the application can find its place again.
THEOREM OnceOffsetExact == Once_Spec => OffsetExact
  <1> DEFINE Finds ==
        Running /\ function' = "none" =>
          /\ start' <= offset' /\ offset' <= arrived
          /\ returned' \in {"success", "extra_bytes"} => offset' = start'
          /\ function = "unpack" /\ Failed => offset' = start
  <1>1. OnceInv /\ [Once_Next]_once_vars => [Finds]_once_vars
    <2> SUFFICES ASSUME OnceInv, [Once_Next]_once_vars, Running, function' = "none",
                        ~UNCHANGED once_vars
                 PROVE  Finds
      OBVIOUS
    <2>1. Once_Return
      BY DEF Once_Next, Streaming, Once_Arrive, Call_Empty, Call, Once_Continue, Running, once
    <2>2. /\ off \in Nat /\ start \in Nat /\ parsed \in Nat /\ arrived \in Nat /\ parsed = off - start
          /\ off <= arrived /\ offset = start
      BY TemplateConstants DEF OnceInv, TypeOK, PlaceExact, ReadsReceived, SizeExact
    <2>3. /\ start' = IF ret = "success" THEN off ELSE start
          /\ offset' = IF Failed /\ function = "unpack" THEN offset ELSE off
          /\ returned' = IF Extra THEN "extra_bytes" ELSE ret
      BY <2>1 DEF Once_Return, MoveOffset, past
    <2>4. start' <= offset' /\ offset' <= arrived
      BY <2>2, <2>3 DEF Failed
    <2>5. returned' \in {"success", "extra_bytes"} => offset' = start'
      <3>1. CASE ret = "success"
        BY <2>3, <3>1 DEF Failed
      <3>2. CASE ret # "success"
        <4>1. ~Extra
          BY <3>2 DEF Extra
        <4> QED  BY <2>3, <3>2, <4>1, ret # "extra_bytes" DEF OnceInv, TypeOK
      <3> QED  BY <3>1, <3>2
    <2> QED  BY <2>2, <2>3, <2>4, <2>5
  <1> QED  BY <1>1, OnceInvariance, PTL DEF Once_Spec, OffsetExact
-----------------------------------------------------------------------------
(* Induction, and the numbers that bytes say *)

LEMMA HasLeast == ASSUME NEW T, T \subseteq Nat, T # {} PROVE \E n \in T : \A m \in T : n <= m
  <1>1. PICK x \in T : \A y \in T : ~ (<<y, x>> \in OpToRel(<, Nat))
    BY NatLessThanWellFounded, WFMin
  <1>2. \A y \in T : y \in Nat /\ x \in Nat /\ ~(y < x)
    BY <1>1 DEF OpToRel
  <1> QED  BY <1>2

LEMMA Induction ==
    ASSUME NEW S, 0 \in S, \A n \in Nat : n \in S => n + 1 \in S
    PROVE  \A n \in Nat : n \in S
  <1> DEFINE T == Nat \ S
  <1>1. ASSUME T # {} PROVE FALSE
    <2>1. PICK n \in T : \A m \in T : n <= m
      BY <1>1, HasLeast
    <2>2. n \in Nat /\ n # 0 /\ n - 1 \in Nat /\ n - 1 \notin T /\ (n - 1) + 1 = n
      BY <2>1
    <2> QED  BY <2>2
  <1> QED  BY <1>1

\* The number that the first n bytes say.
LEMMA BigEndianIs ==
    ASSUME NEW bs
    PROVE  \E f : /\ f[0] = 0
                  /\ \A n \in Nat : f[n + 1] = 256 * f[n] + bs[n + 1]
                  /\ Reader!BigEndian(bs) = f[Len(bs)]
  <1> DEFINE Step(k, x) == IF k = 0 THEN 0 ELSE 256 * x + bs[k]
             Is(f, n) == f = [k \in 0 .. n |-> Step(k, f[k - 1])]
             IsSays(f) == f = [k \in Nat |-> IF k = 0 THEN 0 ELSE 256 * f[k - 1] + bs[k]]
             Says == CHOOSE f : IsSays(f)
  <1>1. \A x, y : Step(0, x) = Step(0, y)
    OBVIOUS
  <1>2. \A f : IsSays(f) <=> f = [k \in Nat |-> Step(k, f[k - 1])]
    OBVIOUS
  <1>3. \E f : f = [k \in Nat |-> Step(k, f[k - 1])]
    <2> HIDE DEF Step
    <2> DEFINE S == {n \in Nat : \E f : Is(f, n)}
    <2>1. 0 \in S
      <3> DEFINE f == [k \in 0 .. 0 |-> Step(0, 0)]
      <3>1. f = [k \in 0 .. 0 |-> Step(k, f[k - 1])]
        BY <1>1
      <3> QED  BY <3>1
    <2>2. ASSUME NEW n \in Nat, n \in S PROVE n + 1 \in S
      <3>1. PICK f : Is(f, n)
        BY <2>2
      <3> DEFINE g == [k \in 0 .. n + 1 |-> IF k <= n THEN f[k] ELSE Step(k, f[n])]
      <3>2. ASSUME NEW k \in 0 .. n + 1 PROVE g[k] = Step(k, g[k - 1])
        <4>1. CASE k = 0
          BY <3>1, <4>1, <1>1
        <4>2. CASE k # 0
          <5>1. k - 1 \in 0 .. n /\ g[k - 1] = f[k - 1]
            BY <4>2
          <5> QED  BY <3>1, <5>1
        <4> QED  BY <4>1, <4>2
      <3>3. Is(g, n + 1)
        BY <3>2
      <3> HIDE DEF g, Is
      <3> QED  BY <3>3
    <2>3. \A n \in Nat : \E f : Is(f, n)
      <3> HIDE DEF Is
      <3>1. \A n \in Nat : n \in S
        BY <2>1, <2>2, Induction
      <3> QED  BY <3>1
    <2> DEFINE h(n) == CHOOSE f : Is(f, n)
    <2>4. \A n \in Nat : Is(h(n), n)
      <3> HIDE DEF Is
      <3> QED  BY <2>3
    <2>5. \A n \in Nat : \A k \in 0 .. n : h(n)[k] = Step(k, h(n)[k - 1])
      <3> SUFFICES ASSUME NEW n \in Nat, NEW k \in 0 .. n
                   PROVE  h(n)[k] = Step(k, h(n)[k - 1])
        OBVIOUS
      <3>1. Is(h(n), n)
        BY <2>4
      <3> HIDE DEF h
      <3> QED  BY <3>1
    <2> HIDE DEF h
    <2> DEFINE T == {k \in Nat : \A n \in Nat : k <= n => h(n)[k] = h(k)[k]}
    <2>6. 0 \in T
      BY <2>5, <1>1
    <2>7. ASSUME NEW k \in Nat, k \in T PROVE k + 1 \in T
      <3>1. \A n \in Nat : k + 1 <= n => h(n)[k + 1] = Step(k + 1, h(k)[k])
        BY <2>5, <2>7
      <3> QED  BY <3>1
    <2>8. \A k \in Nat : k \in T
      <3> HIDE DEF T
      <3> QED  BY <2>6, <2>7, Induction
    <2> DEFINE F == [k \in Nat |-> h(k)[k]]
    <2>9. ASSUME NEW k \in Nat PROVE F[k] = Step(k, F[k - 1])
      <3>1. CASE k = 0
        BY <2>5, <1>1, <3>1
      <3>2. CASE k # 0
        <4>1. k - 1 \in Nat /\ h(k)[k - 1] = F[k - 1]
          BY <2>8, <3>2
        <4> QED  BY <2>5, <4>1
      <3> QED  BY <3>1, <3>2
    <2>10. F = [k \in Nat |-> Step(k, F[k - 1])]
      BY <2>9
    <2> QED  BY <2>10
  <1>4. IsSays(Says)
    <2> HIDE DEF IsSays, Step
    <2> QED  BY <1>2, <1>3
  <1>5. Reader!BigEndian(bs) = Says[Len(bs)]
    BY Zenon DEF Reader!BigEndian
  <1>6. Says[0] = 0 /\ \A n \in Nat : Says[n + 1] = 256 * Says[n] + bs[n + 1]
    <2> HIDE DEF Says
    <2>1. \A n \in Nat : n + 1 # 0 /\ (n + 1) - 1 = n
      OBVIOUS
    <2> QED  BY <1>4, <2>1
  <1> HIDE DEF Says
  <1> QED  BY <1>5, <1>6

\* What Series reads with one more byte, when it reads x with one less.
More(s, e, x) ==
    [i \in Nat |-> [d \in Nat |-> [n \in Nat |->
        IF n = 0 THEN Reader!Ok(<< >>, i)
        ELSE Reader!Behind(Reader!Whole(Reader!Front(s, e, i), d, x), d, n - 1, x)]]]
None == [i \in Nat |-> [d \in Nat |-> [n \in Nat |->
            IF n = 0 THEN Reader!Ok(<< >>, i) ELSE Reader!Not("more")]]]

LEMMA SeriesIs ==
    ASSUME NEW s, NEW e
    PROVE  /\ Reader!Series(s, e)[0] = None
           /\ \A k \in Nat : Reader!Series(s, e)[k + 1] = More(s, e, Reader!Series(s, e)[k])
  <1> DEFINE Step(k, x) == [i \in Nat |-> [d \in Nat |-> [n \in Nat |->
                 IF n = 0 THEN Reader!Ok(<< >>, i)
                 ELSE IF k = 0 THEN Reader!Not("more")
                 ELSE Reader!Behind(Reader!Whole(Reader!Front(s, e, i), d, x), d, n - 1, x)]]]
             Is(f, n) == f = [k \in 0 .. n |-> Step(k, f[k - 1])]
             IsSays(f) == f = [k \in Nat |-> [i \in Nat |-> [d \in Nat |-> [n \in Nat |->
                 IF n = 0 THEN Reader!Ok(<< >>, i)
                 ELSE IF k = 0 THEN Reader!Not("more")
                 ELSE Reader!Behind(Reader!Whole(Reader!Front(s, e, i), d, f[k - 1]), d, n - 1, f[k - 1])]]]]
             Says == CHOOSE f : IsSays(f)
  <1>1. \A x, y : Step(0, x) = Step(0, y)
    OBVIOUS
  <1>2. \A f : IsSays(f) <=> f = [k \in Nat |-> Step(k, f[k - 1])]
    OBVIOUS
  <1>3. \E f : f = [k \in Nat |-> Step(k, f[k - 1])]
    <2> HIDE DEF Step
    <2> DEFINE S == {n \in Nat : \E f : Is(f, n)}
    <2>1. 0 \in S
      <3> DEFINE f == [k \in 0 .. 0 |-> Step(0, 0)]
      <3>1. f = [k \in 0 .. 0 |-> Step(k, f[k - 1])]
        BY <1>1
      <3> QED  BY <3>1
    <2>2. ASSUME NEW n \in Nat, n \in S PROVE n + 1 \in S
      <3>1. PICK f : Is(f, n)
        BY <2>2
      <3> DEFINE g == [k \in 0 .. n + 1 |-> IF k <= n THEN f[k] ELSE Step(k, f[n])]
      <3>2. ASSUME NEW k \in 0 .. n + 1 PROVE g[k] = Step(k, g[k - 1])
        <4>1. CASE k = 0
          BY <3>1, <4>1, <1>1
        <4>2. CASE k # 0
          <5>1. k - 1 \in 0 .. n /\ g[k - 1] = f[k - 1]
            BY <4>2
          <5> QED  BY <3>1, <5>1
        <4> QED  BY <4>1, <4>2
      <3>3. Is(g, n + 1)
        BY <3>2
      <3> HIDE DEF g, Is
      <3> QED  BY <3>3
    <2>3. \A n \in Nat : \E f : Is(f, n)
      <3> HIDE DEF Is
      <3>1. \A n \in Nat : n \in S
        BY <2>1, <2>2, Induction
      <3> QED  BY <3>1
    <2> DEFINE h(n) == CHOOSE f : Is(f, n)
    <2>4. \A n \in Nat : Is(h(n), n)
      <3> HIDE DEF Is
      <3> QED  BY <2>3
    <2>5. \A n \in Nat : \A k \in 0 .. n : h(n)[k] = Step(k, h(n)[k - 1])
      <3> SUFFICES ASSUME NEW n \in Nat, NEW k \in 0 .. n
                   PROVE  h(n)[k] = Step(k, h(n)[k - 1])
        OBVIOUS
      <3>1. Is(h(n), n)
        BY <2>4
      <3> HIDE DEF h
      <3> QED  BY <3>1
    <2> HIDE DEF h
    <2> DEFINE T == {k \in Nat : \A n \in Nat : k <= n => h(n)[k] = h(k)[k]}
    <2>6. 0 \in T
      BY <2>5, <1>1
    <2>7. ASSUME NEW k \in Nat, k \in T PROVE k + 1 \in T
      <3>1. \A n \in Nat : k + 1 <= n => h(n)[k + 1] = Step(k + 1, h(k)[k])
        BY <2>5, <2>7
      <3> QED  BY <3>1
    <2>8. \A k \in Nat : k \in T
      <3> HIDE DEF T
      <3> QED  BY <2>6, <2>7, Induction
    <2> DEFINE F == [k \in Nat |-> h(k)[k]]
    <2>9. ASSUME NEW k \in Nat PROVE F[k] = Step(k, F[k - 1])
      <3>1. CASE k = 0
        BY <2>5, <1>1, <3>1
      <3>2. CASE k # 0
        <4>1. k - 1 \in Nat /\ h(k)[k - 1] = F[k - 1]
          BY <2>8, <3>2
        <4> QED  BY <2>5, <4>1
      <3> QED  BY <3>1, <3>2
    <2>10. F = [k \in Nat |-> Step(k, F[k - 1])]
      BY <2>9
    <2> QED  BY <2>10
  <1>4. IsSays(Says)
    <2> HIDE DEF IsSays, Step
    <2> QED  BY <1>2, <1>3
  <1>5. Reader!Series(s, e) = Says
    BY Zenon DEF Reader!Series
  <1>6. \A k \in Nat : Says[k] = Step(k, Says[k - 1])
    <2> HIDE DEF Says, Step
    <2>1. Says = [k \in Nat |-> Step(k, Says[k - 1])]
      BY <1>2, <1>4
    <2> QED  BY <2>1
  <1>7. \A x : Step(0, x) = None
    BY DEF None
  <1>8. \A k \in Nat : \A x : Step(k + 1, x) = More(s, e, x)
    BY DEF More
  <1>9. \A k \in Nat : Says[k + 1] = More(s, e, Says[k])
    <2> HIDE DEF Says, Step
    <2>1. \A k \in Nat : k + 1 \in Nat /\ (k + 1) - 1 = k
      OBVIOUS
    <2> QED  BY <1>6, <1>8, <2>1
  <1>10. Says[0] = None
    <2> HIDE DEF Says, Step
    <2> QED  BY <1>6, <1>7
  <1> HIDE DEF Says
  <1> QED  BY <1>5, <1>9, <1>10
-----------------------------------------------------------------------------
(* The outcomes of the reference reading *)

\* A list of known length, whatever is in it.
IsList(l, n) == Len(l) = n /\ l = [j \in 1 .. n |-> l[j]]

LEMMA OutcomeIs ==
    /\ \A o, i : Reader!Ok(o, i).is = "ok" /\ Reader!Ok(o, i).obj = o /\ Reader!Ok(o, i).next = i
    /\ \A w : Reader!Not(w).is = w
    /\ \A t, n, i : /\ Reader!Opens(t, n, i).is = "open" /\ Reader!Opens(t, n, i).type = t
                    /\ Reader!Opens(t, n, i).n = n /\ Reader!Opens(t, n, i).next = i
  BY DEF Reader!Ok, Reader!Not, Reader!Opens

LEMMA NoneAt ==
    ASSUME NEW i \in Nat, NEW d \in Nat, NEW n \in Nat
    PROVE  None[i][d][n] = IF n = 0 THEN Reader!Ok(<< >>, i) ELSE Reader!Not("more")
  BY DEF None

LEMMA MoreAt ==
    ASSUME NEW s, NEW e, NEW x, NEW i \in Nat, NEW d \in Nat, NEW n \in Nat
    PROVE  More(s, e, x)[i][d][n] =
             IF n = 0 THEN Reader!Ok(<< >>, i)
             ELSE Reader!Behind(Reader!Whole(Reader!Front(s, e, i), d, x), d, n - 1, x)
  BY DEF More

\* Bytes of a sequence of bytes.
LEMMA SomeBytes ==
    ASSUME NEW s \in Seq(Byte), NEW i \in Nat \ {0}, NEW n \in Nat, i + n - 1 <= Len(s)
    PROVE  /\ SubSeq(s, i, i + n - 1) \in Seq(Byte) /\ Len(SubSeq(s, i, i + n - 1)) = n
           /\ \A j \in 1 .. n : SubSeq(s, i, i + n - 1)[j] = s[i + j - 1]
  <1> DEFINE m == i + n - 1
  <1>1. i \in Int /\ m \in Int /\ \A j \in i .. m : s[j] \in Byte
    OBVIOUS
  <1>2. /\ SubSeq(s, i, m) \in Seq(Byte)
        /\ Len(SubSeq(s, i, m)) = (IF i <= m THEN m - i + 1 ELSE 0)
        /\ \A j \in 1 .. m - i + 1 : SubSeq(s, i, m)[j] = s[i + j - 1]
    <2> HIDE DEF m
    <2> QED  BY <1>1, SubSeqProperties
  <1> QED  BY <1>2

LEMMA BigEndianNat == ASSUME NEW bs \in Seq(Byte) PROVE Reader!BigEndian(bs) \in Nat
  <1>1. PICK f : /\ f[0] = 0
                 /\ \A n \in Nat : f[n + 1] = 256 * f[n] + bs[n + 1]
                 /\ Reader!BigEndian(bs) = f[Len(bs)]
    BY BigEndianIs
  <1> DEFINE S == {n \in Nat : n <= Len(bs) => f[n] \in Nat}
  <1>2. 0 \in S
    <2>1. f[0] = 0
      BY <1>1
    <2> QED  BY <2>1
  <1>3. ASSUME NEW n \in Nat, n \in S PROVE n + 1 \in S
    <2> SUFFICES ASSUME n + 1 <= Len(bs) PROVE f[n + 1] \in Nat
      OBVIOUS
    <2>1. n <= Len(bs) /\ n + 1 \in 1 .. Len(bs)
      OBVIOUS
    <2>2. f[n] \in Nat
      BY <1>3, <2>1
    <2>3. bs[n + 1] \in Byte
      BY <2>1
    <2>4. f[n + 1] = 256 * f[n] + bs[n + 1]
      BY <1>1
    <2>5. \A x \in Nat, b \in Byte : 256 * x + b \in Nat
      BY DEF Byte
    <2> HIDE DEF S
    <2> QED  BY <2>2, <2>3, <2>4, <2>5, ZenonT(60)
  <1>4. \A n \in Nat : n \in S
    <2> HIDE DEF S
    <2> QED  BY <1>2, <1>3, Induction
  <1> QED  BY <1>1, <1>4

LEMMA FixedIs ==
    ASSUME NEW s, NEW e \in Nat, NEW i \in Nat, NEW n \in Nat, NEW t
    PROVE  LET r == Reader!Fixed(s, e, i, n, t)
           IN  r.is = "more" \/ (r.is = "ok" /\ r.next = i + n /\ i + n <= e + 1)
  BY OutcomeIs DEF Reader!Fixed

\* The forms that these are.
LEMMA FrontForms ==
    ASSUME NEW s, NEW e, NEW i \in Nat, ~(i > e), s[i] \in 0 .. 255
    PROVE  LET f == Reader!Front(s, e, i)
               j == i + 1
           IN  \/ f = Reader!Not("parse_error")
               \/ \E o : f = Reader!Ok(o, j)
               \/ \E n \in Nat : \E t : f = Reader!Fixed(s, e, j, n, t)
               \/ \E w \in {1, 2, 4} : \E t : f = Reader!Sized(s, e, j, w, t)
               \/ \E w \in {1, 2, 4}, t \in {"array", "map"} : f = Reader!SizedContainer(s, e, j, w, t)
               \/ \E n \in Nat, t \in {"array", "map"} : f = Reader!Opens(t, n, j)
  <1> DEFINE b == s[i]
             j == i + 1
             f == Reader!Front(s, e, i)
             Form == \/ f = Reader!Not("parse_error")
                     \/ \E o : f = Reader!Ok(o, j)
                     \/ \E n \in Nat : \E t : f = Reader!Fixed(s, e, j, n, t)
                     \/ \E w \in {1, 2, 4} : \E t : f = Reader!Sized(s, e, j, w, t)
                     \/ \E w \in {1, 2, 4}, t \in {"array", "map"} : f = Reader!SizedContainer(s, e, j, w, t)
                     \/ \E n \in Nat, t \in {"array", "map"} : f = Reader!Opens(t, n, j)
  <1>1. CASE b \in 0 .. 127
    <2>1. f = Reader!Ok(Reader!Integer(b), j)
      BY <1>1, SMTT(30) DEF Reader!Front
    <2> QED  BY <2>1, Zenon
  <1>2. CASE b \in 128 .. 143
    <2>1. f = Reader!Opens("map", b - 128, j)
      BY <1>2, SMT DEF Reader!Front
    <2>2. b - 128 \in Nat
      BY <1>2
    <2> QED  BY <2>1, <2>2, Zenon
  <1>3. CASE b \in 144 .. 159
    <2>1. f = Reader!Opens("array", b - 144, j)
      BY <1>3, SMT DEF Reader!Front
    <2>2. b - 144 \in Nat
      BY <1>3
    <2> QED  BY <2>1, <2>2, Zenon
  <1>4. CASE b \in 160 .. 191
    <2>1. f = Reader!Fixed(s, e, j, b - 160, "str")
      BY <1>4, SMT DEF Reader!Front
    <2>2. b - 160 \in Nat
      BY <1>4
    <2> QED  BY <2>1, <2>2, Zenon
  <1>5. CASE b = 192
    <2>1. f = Reader!Ok(Reader!NilObject, j)
      BY <1>5, SMT DEF Reader!Front
    <2> QED  BY <2>1, Zenon
  <1>6. CASE b = 193
    <2>1. f = Reader!Not("parse_error")
      BY <1>6, SMT DEF Reader!Front
    <2> QED  BY <2>1, Zenon
  <1>7. CASE b = 194
    <2>1. f = Reader!Ok(<<"boolean", FALSE>>, j)
      BY <1>7, SMT DEF Reader!Front
    <2> QED  BY <2>1, Zenon
  <1>8. CASE b = 195
    <2>1. f = Reader!Ok(<<"boolean", TRUE>>, j)
      BY <1>8, SMT DEF Reader!Front
    <2> QED  BY <2>1, Zenon
  <1>9. CASE b \in 196 .. 198
    <2>1. f = Reader!Sized(s, e, j, <<1, 2, 4>>[b - 195], "bin")
      BY <1>9, SMT DEF Reader!Front
    <2>2. <<1, 2, 4>>[b - 195] \in {1, 2, 4}
      BY <1>9
    <2> QED  BY <2>1, <2>2, ZenonT(60)
  <1>10. CASE b \in 199 .. 201
    <2>1. f = Reader!Sized(s, e, j, <<1, 2, 4>>[b - 198], "ext")
      BY <1>10, SMT DEF Reader!Front
    <2>2. <<1, 2, 4>>[b - 198] \in {1, 2, 4}
      BY <1>10
    <2> QED  BY <2>1, <2>2, ZenonT(60)
  <1>11. CASE b = 202
    <2>1. f = Reader!Fixed(s, e, j, 4, "float32")
      BY <1>11, SMT DEF Reader!Front
    <2>2. 4 \in Nat
      BY <1>11
    <2> QED  BY <2>1, <2>2, Zenon
  <1>12. CASE b = 203
    <2>1. f = Reader!Fixed(s, e, j, 8, "float64")
      BY <1>12, SMT DEF Reader!Front
    <2>2. 8 \in Nat
      BY <1>12
    <2> QED  BY <2>1, <2>2, Zenon
  <1>13. CASE b \in 204 .. 207
    <2>1. f = Reader!Fixed(s, e, j, <<1, 2, 4, 8>>[b - 203], "unsigned")
      BY <1>13, SMT DEF Reader!Front
    <2>2. <<1, 2, 4, 8>>[b - 203] \in Nat
      BY <1>13
    <2> QED  BY <2>1, <2>2, ZenonT(60)
  <1>14. CASE b \in 208 .. 211
    <2>1. f = Reader!Fixed(s, e, j, <<1, 2, 4, 8>>[b - 207], "signed")
      BY <1>14, SMT DEF Reader!Front
    <2>2. <<1, 2, 4, 8>>[b - 207] \in Nat
      BY <1>14
    <2> QED  BY <2>1, <2>2, ZenonT(60)
  <1>15. CASE b \in 212 .. 216
    <2>1. f = Reader!Fixed(s, e, j, <<1, 2, 4, 8, 16>>[b - 211] + 1, "ext")
      BY <1>15, SMT DEF Reader!Front
    <2>2. <<1, 2, 4, 8, 16>>[b - 211] + 1 \in Nat
      BY <1>15
    <2> QED  BY <2>1, <2>2, ZenonT(60)
  <1>16. CASE b \in 217 .. 219
    <2>1. f = Reader!Sized(s, e, j, <<1, 2, 4>>[b - 216], "str")
      BY <1>16, SMT DEF Reader!Front
    <2>2. <<1, 2, 4>>[b - 216] \in {1, 2, 4}
      BY <1>16
    <2> QED  BY <2>1, <2>2, ZenonT(60)
  <1>17. CASE b \in 220 .. 221
    <2>1. f = Reader!SizedContainer(s, e, j, <<2, 4>>[b - 219], "array")
      BY <1>17, SMT DEF Reader!Front
    <2>2. <<2, 4>>[b - 219] \in {1, 2, 4}
      BY <1>17
    <2> QED  BY <2>1, <2>2, ZenonT(60)
  <1>18. CASE b \in 222 .. 223
    <2>1. f = Reader!SizedContainer(s, e, j, <<2, 4>>[b - 221], "map")
      BY <1>18, SMT DEF Reader!Front
    <2>2. <<2, 4>>[b - 221] \in {1, 2, 4}
      BY <1>18
    <2> QED  BY <2>1, <2>2, ZenonT(60)
  <1>19. CASE b \in 224 .. 255
    <2>1. f = Reader!Ok(Reader!Integer(b - 256), j)
      BY <1>19, SMT DEF Reader!Front
    <2> QED  BY <2>1, ZenonT(60)
  <1>20. b \in 0 .. 127 \/ b \in 128 .. 143 \/ b \in 144 .. 159 \/ b \in 160 .. 191
         \/ b = 192 \/ b = 193 \/ b = 194 \/ b = 195 \/ b \in 196 .. 198 \/ b \in 199 .. 201
         \/ b = 202 \/ b = 203 \/ b \in 204 .. 207 \/ b \in 208 .. 211 \/ b \in 212 .. 216
         \/ b \in 217 .. 219 \/ b \in 220 .. 221 \/ b \in 222 .. 223 \/ b \in 224 .. 255
    OBVIOUS
  <1> QED  BY <1>1, <1>2, <1>3, <1>4, <1>5, <1>6, <1>7, <1>8, <1>9, <1>10, <1>11, <1>12, <1>13, <1>14, <1>15, <1>16, <1>17, <1>18, <1>19, <1>20, ZenonT(60)

\* Whatever begins at an index ends behind it, or is a container whose items do.
LEMMA FrontIs ==
    ASSUME NEW s \in Seq(Byte), NEW e \in 0 .. Len(s), NEW i \in Nat \ {0}
    PROVE  LET f == Reader!Front(s, e, i)
           IN  \/ f.is \in {"more", "parse_error"}
               \/ f.is = "ok" /\ f.next \in Nat /\ i < f.next
               \/ /\ f.is = "open" /\ f.next \in Nat /\ i < f.next /\ f.n \in Nat
                  /\ f.type \in {"array", "map"}
  <1> DEFINE f == Reader!Front(s, e, i)
             b == s[i]
             j == i + 1
             Good(r) == \/ r.is \in {"more", "parse_error"}
                        \/ r.is = "ok" /\ r.next \in Nat /\ i < r.next
                        \/ /\ r.is = "open" /\ r.next \in Nat /\ i < r.next /\ r.n \in Nat
                           /\ r.type \in {"array", "map"}
  <1>0. e \in Nat /\ j \in Nat /\ j > i /\ j \in Nat \ {0}
    OBVIOUS
  <1>1. ASSUME NEW n \in Nat, NEW t PROVE Good(Reader!Fixed(s, e, j, n, t))
    BY <1>0, FixedIs
  <1>2. ASSUME NEW w \in {1, 2, 4}, ~(j + w - 1 > e)
        PROVE  Reader!BigEndian(SubSeq(s, j, j + w - 1)) \in Nat
    <2>1. w \in Nat /\ j + w - 1 <= Len(s)
      BY <1>2
    <2>2. SubSeq(s, j, j + w - 1) \in Seq(Byte)
      BY <1>0, <2>1, SomeBytes
    <2> QED  BY <2>2, BigEndianNat
  <1>3. ASSUME NEW w \in {1, 2, 4}, NEW t PROVE Good(Reader!Sized(s, e, j, w, t))
    <2>1. CASE j + w - 1 > e
      BY <2>1, OutcomeIs DEF Reader!Sized
    <2>2. CASE ~(j + w - 1 > e)
      <3> DEFINE n == Reader!BigEndian(SubSeq(s, j, j + w - 1))
      <3>1. n \in Nat /\ n + 1 \in Nat /\ j + w \in Nat /\ j + w > i
        BY <2>2, <1>0, <1>2
      <3>2. Good(Reader!Fixed(s, e, j + w, n, t)) /\ Good(Reader!Fixed(s, e, j + w, n + 1, t))
        <4> HIDE DEF n
        <4> QED  BY <3>1, <1>0, FixedIs
      <3>3. Good(Reader!Not("parse_error"))
        BY OutcomeIs
      <3>4. Reader!Sized(s, e, j, w, t) \in {Reader!Fixed(s, e, j + w, n, t), Reader!Not("parse_error"),
                                             Reader!Fixed(s, e, j + w, n + 1, t)}
        BY <2>2 DEF Reader!Sized
      <3> HIDE DEF n, Good
      <3> QED  BY <3>2, <3>3, <3>4
    <2> QED  BY <2>1, <2>2
  <1>4. ASSUME NEW w \in {1, 2, 4}, NEW t \in {"array", "map"}
        PROVE  Good(Reader!SizedContainer(s, e, j, w, t))
    <2>1. CASE j + w - 1 > e
      BY <2>1, OutcomeIs DEF Reader!SizedContainer
    <2>2. CASE ~(j + w - 1 > e)
      BY <2>2, <1>0, <1>2, OutcomeIs DEF Reader!SizedContainer
    <2> QED  BY <2>1, <2>2
  <1>5. ASSUME NEW o PROVE Good(Reader!Ok(o, j))
    BY <1>0, OutcomeIs
  <1>6. ASSUME NEW n \in Nat, NEW t \in {"array", "map"} PROVE Good(Reader!Opens(t, n, j))
    BY <1>0, OutcomeIs
  <1>7. Good(Reader!Not("more")) /\ Good(Reader!Not("parse_error"))
    BY OutcomeIs, SMTT(30)
  <1>8. CASE i > e
    BY <1>8, <1>7 DEF Reader!Front
  <1>9. CASE ~(i > e)
    <2>1. b \in 0 .. 255
      <3>1. i \in 1 .. Len(s)
        BY <1>9
      <3>2. s[i] \in Byte
        BY <3>1
      <3> QED  BY <3>2 DEF Byte
    <2>2. ~(i > e)
      BY <1>9
    <2>3. \/ f = Reader!Not("parse_error")
          \/ \E o : f = Reader!Ok(o, j)
          \/ \E n \in Nat : \E t : f = Reader!Fixed(s, e, j, n, t)
          \/ \E w \in {1, 2, 4} : \E t : f = Reader!Sized(s, e, j, w, t)
          \/ \E w \in {1, 2, 4}, t \in {"array", "map"} : f = Reader!SizedContainer(s, e, j, w, t)
          \/ \E n \in Nat, t \in {"array", "map"} : f = Reader!Opens(t, n, j)
      <3>1. i \in Nat
        OBVIOUS
      <3> QED  BY <2>1, <2>2, <3>1, FrontForms, Zenon
    <2>4. Good(f)
      <3> HIDE DEF Good
      <3> QED  BY <2>3, <1>1, <1>3, <1>4, <1>5, <1>6, <1>7, Zenon
    <2> QED  BY <2>4
  <1> QED  BY <1>8, <1>9
-----------------------------------------------------------------------------
(* Lists *)

LEMMA SameList ==
    ASSUME NEW n \in Nat, NEW a, NEW b, IsList(a, n), IsList(b, n), \A j \in 1 .. n : a[j] = b[j]
    PROVE  a = b
  <1>1. [j \in 1 .. n |-> a[j]] = [j \in 1 .. n |-> b[j]]
    OBVIOUS
  <1> QED  BY <1>1, Zenon DEF IsList

LEMMA ListIn ==
    ASSUME NEW n \in Nat, NEW a, IsList(a, n), NEW U, \A j \in 1 .. n : a[j] \in U
    PROVE  a \in Seq(U) /\ Len(a) = n
  <1>1. [j \in 1 .. n |-> a[j]] \in Seq(U)
    OBVIOUS
  <1> QED  BY <1>1, Zenon DEF IsList

LEMMA InList ==
    ASSUME NEW U, NEW a \in Seq(U)
    PROVE  IsList(a, Len(a)) /\ Len(a) \in Nat
  <1>1. a = [j \in 1 .. Len(a) |-> a[j]]
    OBVIOUS
  <1> QED  BY <1>1 DEF IsList

\* Two lists as one; a list with one more item in front.
Join(a, b) == a \o b
Cons(x, l) == Join(<<x>>, l)

LEMMA JoinIs == 
    ASSUME NEW m \in Nat, NEW n \in Nat, NEW a, NEW b, IsList(a, m), IsList(b, n)
    PROVE  /\ IsList(Join(a, b), m + n)
           /\ \A j \in 1 .. m : Join(a, b)[j] = a[j]
           /\ \A j \in 1 .. n : Join(a, b)[m + j] = b[j]
  <1> DEFINE U == {a[j] : j \in 1 .. m} \cup {b[j] : j \in 1 .. n}
  <1>0. (\A j \in 1 .. m : a[j] \in U) /\ \A j \in 1 .. n : b[j] \in U
    OBVIOUS
  <1> HIDE DEF U
  <1>1. a \in Seq(U) /\ Len(a) = m
    BY <1>0, ListIn
  <1>2. b \in Seq(U) /\ Len(b) = n
    BY <1>0, ListIn
  <1>3. a \o b \in Seq(U) /\ Len(a \o b) = m + n
    BY <1>1, <1>2
  <1>4. IsList(a \o b, m + n)
    BY <1>3, InList
  <1>5. ASSUME NEW j \in 1 .. m PROVE (a \o b)[j] = a[j]
    BY <1>1, <1>2
  <1>6. ASSUME NEW j \in 1 .. n PROVE (a \o b)[m + j] = b[j]
    BY <1>1, <1>2
  <1> QED  BY <1>4, <1>5, <1>6 DEF Join

LEMMA OneIs == \A x : IsList(<<x>>, 1) /\ <<x>>[1] = x
  <1> SUFFICES ASSUME NEW x PROVE IsList(<<x>>, 1) /\ <<x>>[1] = x
    OBVIOUS
  <1>1. <<x>> \in Seq({x}) /\ Len(<<x>>) = 1
    OBVIOUS
  <1> QED  BY <1>1, InList

LEMMA NoneIs == IsList(<< >>, 0)
  <1>1. << >> \in Seq({}) /\ Len(<< >>) = 0
    OBVIOUS
  <1> QED  BY <1>1, InList

LEMMA AppendIs ==
    ASSUME NEW n \in Nat, NEW a, IsList(a, n), NEW x
    PROVE  Append(a, x) = Join(a, <<x>>) /\ IsList(Append(a, x), n + 1)
  <1> DEFINE U == {a[j] : j \in 1 .. n} \cup {x}
  <1>0. \A j \in 1 .. n : a[j] \in U
    OBVIOUS
  <1>2. x \in U
    OBVIOUS
  <1> HIDE DEF U
  <1>1. a \in Seq(U) /\ Len(a) = n
    BY <1>0, ListIn
  <1>3. Append(a, x) = Join(a, <<x>>)
    BY <1>1, <1>2 DEF Join
  <1> QED  BY <1>3, JoinIs, OneIs

\* What is put behind a list one by one, or at once.
LEMMA JoinAgain ==
    ASSUME NEW n \in Nat, NEW m \in Nat, NEW a, NEW b, NEW x, IsList(a, n), IsList(b, m)
    PROVE  Join(Append(a, x), b) = Join(a, Cons(x, b))
  <1> DEFINE U == {a[j] : j \in 1 .. n} \cup {b[j] : j \in 1 .. m} \cup {x}
  <1>0. (\A j \in 1 .. n : a[j] \in U) /\ (\A j \in 1 .. m : b[j] \in U) /\ x \in U
    OBVIOUS
  <1> HIDE DEF U
  <1>1. a \in Seq(U) /\ b \in Seq(U) /\ <<x>> \in Seq(U)
    BY <1>0, ListIn
  <1>2. Append(a, x) = a \o <<x>>
    BY AppendIs DEF Join
  <1>3. (a \o <<x>>) \o b = a \o (<<x>> \o b)
    BY <1>1, ConcatAssociative
  <1> QED  BY <1>2, <1>3, Zenon DEF Join, Cons

LEMMA JoinNone ==
    ASSUME NEW n \in Nat, NEW a, IsList(a, n)
    PROVE  Join(a, << >>) = a /\ Join(<< >>, a) = a
  <1> DEFINE U == {a[j] : j \in 1 .. n}
  <1>0. \A j \in 1 .. n : a[j] \in U
    OBVIOUS
  <1> HIDE DEF U
  <1>1. a \in Seq(U)
    BY <1>0, ListIn
  <1> QED  BY <1>1 DEF Join

LEMMA ConsIs ==
    ASSUME NEW n \in Nat, NEW l, IsList(l, n), NEW x
    PROVE  /\ IsList(Cons(x, l), 1 + n)
           /\ Cons(x, l)[1] = x
           /\ \A j \in 1 .. n : Cons(x, l)[1 + j] = l[j]
  <1>1. IsList(<<x>>, 1) /\ <<x>>[1] = x /\ 1 \in Nat
    BY OneIs
  <1>2. IsList(Cons(x, l), 1 + n)
    BY <1>1, JoinIs DEF Cons
  <1>3. \A j \in 1 .. 1 : Cons(x, l)[j] = <<x>>[j]
    BY <1>1, JoinIs DEF Cons
  <1>4. \A j \in 1 .. n : Cons(x, l)[1 + j] = l[j]
    BY <1>1, JoinIs DEF Cons
  <1> QED  BY <1>1, <1>2, <1>3, <1>4

LEMMA PairsAre ==
    ASSUME NEW n \in Nat, NEW l, IsList(l, n)
    PROVE  /\ n \div 2 \in Nat
           /\ IsList(Reader!Pairs(l), n \div 2)
           /\ \A k \in 1 .. n \div 2 : Reader!Pairs(l)[k] = <<l[2 * k - 1], l[2 * k]>>
  <1> DEFINE U == {<<l[2 * k - 1], l[2 * k]>> : k \in 1 .. n \div 2}
             q == [k \in 1 .. n \div 2 |-> <<l[2 * k - 1], l[2 * k]>>]
  <1>1. n \div 2 \in Nat /\ Len(l) = n
    BY DEF IsList
  <1>2. Reader!Pairs(l) = q
    BY <1>1 DEF Reader!Pairs
  <1>3. \A k \in 1 .. n \div 2 : q[k] \in U
    OBVIOUS
  <1>4. q \in [1 .. n \div 2 -> U]
    OBVIOUS
  <1> HIDE DEF U
  <1>5. q \in Seq(U) /\ Len(q) = n \div 2
    <2> HIDE DEF q
    <2> QED  BY <1>1, <1>4
  <1>6. IsList(q, n \div 2)
    <2> HIDE DEF q
    <2> QED  BY <1>5, InList
  <1>7. \A k \in 1 .. n \div 2 : q[k] = <<l[2 * k - 1], l[2 * k]>>
    OBVIOUS
  <1> QED  BY <1>1, <1>2, <1>6, <1>7

LEMMA PairsNone == Reader!Pairs(<< >>) = << >>
  <1>1. IsList(Reader!Pairs(<< >>), 0)
    BY NoneIs, PairsAre, 0 \div 2 = 0
  <1>2. 0 \in Nat /\ \A j \in 1 .. 0 : Reader!Pairs(<< >>)[j] = << >>[j]
    OBVIOUS
  <1> QED  BY <1>1, <1>2, NoneIs, SameList

\* The first pair of a list, and the others.
LEMMA PairsBehind ==
    ASSUME NEW n \in Nat, NEW l, IsList(l, n), NEW x, NEW y
    PROVE  Reader!Pairs(Cons(x, Cons(y, l))) = Cons(<<x, y>>, Reader!Pairs(l))
  <1> DEFINE s == Cons(x, Cons(y, l))
             h == n \div 2
  <1>1. IsList(Cons(y, l), 1 + n) /\ Cons(y, l)[1] = y /\ \A j \in 1 .. n : Cons(y, l)[1 + j] = l[j]
    BY ConsIs
  <1>2. IsList(s, 1 + (1 + n)) /\ s[1] = x /\ \A j \in 1 .. 1 + n : s[1 + j] = Cons(y, l)[j]
    <2>1. 1 + n \in Nat
      OBVIOUS
    <2> QED  BY <2>1, <1>1, ConsIs
  <1>3. s[2] = y /\ \A j \in 1 .. n : s[j + 2] = l[j]
    <2>1. s[1 + 1] = y /\ 1 \in 1 .. 1 + n
      BY <1>1, <1>2
    <2>2. ASSUME NEW j \in 1 .. n PROVE s[j + 2] = l[j]
      <3>1. 1 + j \in 1 .. 1 + n /\ 1 + (1 + j) = j + 2
        OBVIOUS
      <3>2. s[1 + (1 + j)] = l[j]
        BY <3>1, <1>1, <1>2
      <3> HIDE DEF s
      <3> QED  BY <3>1, <3>2
    <2> HIDE DEF s
    <2> QED  BY <2>1, <2>2
  <1> HIDE DEF s
  <1>4. h \in Nat /\ IsList(Reader!Pairs(l), h) /\ \A k \in 1 .. h : Reader!Pairs(l)[k] = <<l[2 * k - 1], l[2 * k]>>
    BY PairsAre
  <1>5. (1 + (1 + n)) \div 2 = 1 + h /\ \A k \in 1 .. h : 2 * k - 1 \in 1 .. n /\ 2 * k \in 1 .. n
    OBVIOUS
  <1>6. /\ IsList(Reader!Pairs(s), 1 + h)
        /\ \A k \in 1 .. 1 + h : Reader!Pairs(s)[k] = <<s[2 * k - 1], s[2 * k]>>
    <2>1. 1 + (1 + n) \in Nat
      OBVIOUS
    <2>2. /\ IsList(Reader!Pairs(s), (1 + (1 + n)) \div 2)
          /\ \A k \in 1 .. (1 + (1 + n)) \div 2 : Reader!Pairs(s)[k] = <<s[2 * k - 1], s[2 * k]>>
      BY <1>2, <2>1, PairsAre
    <2> HIDE DEF h
    <2> QED  BY <1>5, <2>2
  <1> HIDE DEF h
  <1> DEFINE r == Cons(<<x, y>>, Reader!Pairs(l))
  <1>7. IsList(r, 1 + h) /\ r[1] = <<x, y>> /\ \A k \in 1 .. h : r[1 + k] = Reader!Pairs(l)[k]
    BY <1>4, ConsIs
  <1> HIDE DEF r
  <1>8. ASSUME NEW k \in 1 .. 1 + h PROVE Reader!Pairs(s)[k] = r[k]
    <2>1. CASE k = 1
      <3>1. Reader!Pairs(s)[1] = <<s[1], s[2]>>
        <4>1. 1 \in 1 .. 1 + h /\ 2 * 1 - 1 = 1 /\ 2 * 1 = 2
          BY <1>4
        <4> QED  BY <4>1, <1>6
      <3> QED  BY <2>1, <3>1, <1>2, <1>3, <1>7
    <2>2. CASE k # 1
      <3> DEFINE j == k - 1
      <3>1. j \in 1 .. h /\ k = 1 + j /\ 2 * k - 1 = (2 * j - 1) + 2 /\ 2 * k = 2 * j + 2
        BY <1>4, <2>2
      <3> HIDE DEF j
      <3>2. r[k] = <<l[2 * j - 1], l[2 * j]>>
        BY <3>1, <1>4, <1>7
      <3>3. Reader!Pairs(s)[k] = <<s[2 * k - 1], s[2 * k]>>
        BY <1>6
      <3>4. s[2 * k - 1] = l[2 * j - 1] /\ s[2 * k] = l[2 * j]
        <4>1. 2 * j - 1 \in 1 .. n /\ 2 * j \in 1 .. n
          BY <3>1, <1>5
        <4>2. s[(2 * j - 1) + 2] = l[2 * j - 1] /\ s[2 * j + 2] = l[2 * j]
          BY <4>1, <1>3
        <4> QED  BY <3>1, <4>2
      <3> QED  BY <3>2, <3>3, <3>4
    <2> QED  BY <2>1, <2>2
  <1>9. 1 + h \in Nat
    BY <1>4
  <1>10. Reader!Pairs(s) = r
    BY <1>6, <1>7, <1>8, <1>9, SameList
  <1> QED  BY <1>10 DEF s, r
-----------------------------------------------------------------------------
(* A series of objects *)

Outcomes == {"ok", "more", "parse_error", "nomem"}

\* n objects that begin at index i.
Good(r, i, n) ==
    /\ r.is \in Outcomes
    /\ r.is = "ok" => /\ r.next \in Nat /\ i <= r.next /\ (n > 0 => i < r.next)
                      /\ IsList(r.obj, n)
GoodSeries(F) == \A i \in Nat \ {0}, d \in Nat, n \in Nat : Good(F[i][d][n], i, n)

LEMMA BehindIs ==
    ASSUME NEW r, NEW d, NEW n, NEW F
    PROVE  Reader!Behind(r, d, n, F) =
             IF r.is # "ok" THEN r
             ELSE IF F[r.next][d][n].is = "ok"
                  THEN Reader!Ok(Cons(r.obj, F[r.next][d][n].obj), F[r.next][d][n].next)
                  ELSE F[r.next][d][n]
  BY DEF Reader!Behind, Cons, Join

LEMMA WholeIs ==
    ASSUME NEW s \in Seq(Byte), NEW e \in 0 .. Len(s), NEW i \in Nat \ {0}, NEW d \in Nat,
           NEW F, GoodSeries(F)
    PROVE  LET w == Reader!Whole(Reader!Front(s, e, i), d, F)
           IN  w.is \in Outcomes /\ (w.is = "ok" => w.next \in Nat /\ i < w.next)
  <1> DEFINE f == Reader!Front(s, e, i)
             w == Reader!Whole(f, d, F)
  <1> SUFFICES w.is \in Outcomes /\ (w.is = "ok" => w.next \in Nat /\ i < w.next)
    OBVIOUS
  <1>1. \/ f.is \in {"more", "parse_error"}
        \/ f.is = "ok" /\ f.next \in Nat /\ i < f.next
        \/ /\ f.is = "open" /\ f.next \in Nat /\ i < f.next /\ f.n \in Nat
           /\ f.type \in {"array", "map"}
    BY FrontIs
  <1>2. CASE f.is # "open"
    <2>1. w = f
      BY <1>2 DEF Reader!Whole
    <2> HIDE DEF f, w
    <2> QED  BY <2>1, <1>1, <1>2 DEF Outcomes
  <1>3. CASE f.is = "open" /\ d >= STACK_SIZE
    <2>1. w = Reader!Not("nomem")
      BY <1>3 DEF Reader!Whole
    <2>2. Reader!Not("nomem").is = "nomem"
      BY OutcomeIs
    <2> HIDE DEF f, w
    <2> QED  BY <2>1, <2>2 DEF Outcomes
  <1>4. CASE f.is = "open" /\ ~(d >= STACK_SIZE)
    <2> DEFINE n == IF f.type = "map" THEN 2 * f.n ELSE f.n
               r == F[f.next][d + 1][n]
    <2>1. w = Reader!Made(f.type, r)
      BY <1>4 DEF Reader!Whole
    <2>2. f.next \in Nat /\ i < f.next /\ f.n \in Nat
      <3> HIDE DEF f, w
      <3> QED  BY <1>1, <1>4
    <2>3. f.next \in Nat \ {0} /\ d + 1 \in Nat /\ n \in Nat
      <3> HIDE DEF f, w
      <3> QED  BY <2>2
    <2>4. Good(r, f.next, n)
      <3> HIDE DEF f, w, n
      <3> QED  BY <2>3 DEF GoodSeries
    <2> HIDE DEF r
    <2>5. CASE r.is = "ok"
      <3>1. \E o : Reader!Made(f.type, r) = Reader!Ok(o, r.next)
        BY <2>5 DEF Reader!Made
      <3>2. w.is = "ok" /\ w.next = r.next
        <4> HIDE DEF f, w
        <4> QED  BY <2>1, <3>1, OutcomeIs
      <3>3. r.next \in Nat /\ f.next <= r.next
        <4> HIDE DEF f, w, n
        <4> QED  BY <2>4, <2>5 DEF Good
      <3> HIDE DEF f, w
      <3> QED  BY <2>2, <3>2, <3>3 DEF Outcomes
    <2>6. CASE r.is # "ok"
      <3>1. w = r
        BY <2>1, <2>6 DEF Reader!Made
      <3> HIDE DEF f, w, n
      <3> QED  BY <3>1, <2>4, <2>6 DEF Good
    <2> QED  BY <2>5, <2>6
  <1> HIDE DEF f, w
  <1> QED  BY <1>2, <1>3, <1>4

LEMMA BehindGood ==
    ASSUME NEW i \in Nat \ {0}, NEW d \in Nat, NEW n \in Nat, NEW F, GoodSeries(F),
           NEW r, r.is \in Outcomes, r.is = "ok" => r.next \in Nat /\ i < r.next
    PROVE  Good(Reader!Behind(r, d, n, F), i, n + 1)
  <1> DEFINE x == F[r.next][d][n]
             b == Reader!Behind(r, d, n, F)
  <1>1. CASE r.is # "ok"
    BY <1>1, BehindIs DEF Good
  <1>2. CASE r.is = "ok"
    <2>1. r.next \in Nat \ {0} /\ i < r.next
      BY <1>2
    <2>2. Good(x, r.next, n)
      BY <2>1 DEF GoodSeries
    <2>3. CASE x.is # "ok"
      <3>1. b = x
        BY <1>2, <2>3, BehindIs
      <3> HIDE DEF x, b
      <3> QED  BY <2>2, <2>3, <3>1 DEF Good, b
    <2>4. CASE x.is = "ok"
      <3>1. b = Reader!Ok(Cons(r.obj, x.obj), x.next)
        BY <1>2, <2>4, BehindIs
      <3> HIDE DEF x, b
      <3>2. b.is = "ok" /\ b.obj = Cons(r.obj, x.obj) /\ b.next = x.next
        BY <3>1, OutcomeIs
      <3>3. x.next \in Nat /\ r.next <= x.next /\ IsList(x.obj, n)
        BY <2>2, <2>4 DEF Good
      <3>4. IsList(Cons(r.obj, x.obj), n + 1)
        <4>1. IsList(Cons(r.obj, x.obj), 1 + n)
          BY <3>3, ConsIs
        <4>2. 1 + n = n + 1
          OBVIOUS
        <4> QED  BY <4>1, <4>2
      <3>5. b.next \in Nat /\ i < b.next /\ i <= b.next
        BY <2>1, <3>2, <3>3
      <3> QED  BY <3>2, <3>4, <3>5 DEF Good, Outcomes, b
    <2> QED  BY <2>3, <2>4
  <1> QED  BY <1>1, <1>2

LEMMA NothingGood ==
    ASSUME NEW i \in Nat \ {0}
    PROVE  Good(Reader!Ok(<< >>, i), i, 0)
  BY OutcomeIs, NoneIs DEF Good, Outcomes

LEMMA NoneGood == GoodSeries(None)
  <1> SUFFICES ASSUME NEW i \in Nat \ {0}, NEW d \in Nat, NEW n \in Nat
               PROVE  Good(None[i][d][n], i, n)
    BY DEF GoodSeries
  <1>1. i \in Nat
    OBVIOUS
  <1>2. None[i][d][n] = IF n = 0 THEN Reader!Ok(<< >>, i) ELSE Reader!Not("more")
    BY <1>1, NoneAt
  <1>3. Good(Reader!Not("more"), i, n)
    BY OutcomeIs DEF Good, Outcomes
  <1> QED  BY <1>2, <1>3, NothingGood

LEMMA MoreGood ==
    ASSUME NEW s \in Seq(Byte), NEW e \in 0 .. Len(s), NEW F, GoodSeries(F)
    PROVE  GoodSeries(More(s, e, F))
  <1> SUFFICES ASSUME NEW i \in Nat \ {0}, NEW d \in Nat, NEW n \in Nat
               PROVE  Good(More(s, e, F)[i][d][n], i, n)
    BY DEF GoodSeries
  <1>1. i \in Nat
    OBVIOUS
  <1> DEFINE w == Reader!Whole(Reader!Front(s, e, i), d, F)
  <1>2. More(s, e, F)[i][d][n] = IF n = 0 THEN Reader!Ok(<< >>, i) ELSE Reader!Behind(w, d, n - 1, F)
    BY <1>1, MoreAt
  <1>3. w.is \in Outcomes /\ (w.is = "ok" => w.next \in Nat /\ i < w.next)
    BY WholeIs
  <1> HIDE DEF w
  <1>4. CASE n > 0
    <2>1. n - 1 \in Nat /\ (n - 1) + 1 = n
      BY <1>4
    <2>2. Good(Reader!Behind(w, d, n - 1, F), i, (n - 1) + 1)
      BY <2>1, <1>3, BehindGood
    <2> QED  BY <2>1, <2>2, <1>2, <1>4
  <1>5. CASE n = 0
    BY <1>2, <1>5, NothingGood
  <1> QED  BY <1>4, <1>5

LEMMA SeriesGood ==
    ASSUME NEW s \in Seq(Byte), NEW e \in 0 .. Len(s)
    PROVE  \A k \in Nat : GoodSeries(Reader!Series(s, e)[k])
  <1> DEFINE G == Reader!Series(s, e)
             S == {k \in Nat : GoodSeries(G[k])}
  <1>1. G[0] = None
    BY SeriesIs
  <1>2. ASSUME NEW k \in Nat PROVE G[k + 1] = More(s, e, G[k])
    BY SeriesIs
  <1> HIDE DEF G
  <1>3. 0 \in S
    BY <1>1, NoneGood
  <1>4. ASSUME NEW k \in Nat, k \in S PROVE k + 1 \in S
    <2>1. GoodSeries(More(s, e, G[k]))
      BY <1>4, MoreGood
    <2> QED  BY <2>1, <1>2
  <1> HIDE DEF S
  <1>5. \A k \in Nat : k \in S
    BY <1>3, <1>4, Induction
  <1> QED  BY <1>5 DEF S, G
-----------------------------------------------------------------------------
(* What is known of the bytes behind an object is enough to read it *)

\* What begins at an index is read with what is known of the bytes behind it.
Alike(F, H, i) == \A j \in Nat : i < j => \A d \in Nat, n \in Nat : F[j][d][n] = H[j][d][n]

LEMMA WholeAlike ==
    ASSUME NEW s \in Seq(Byte), NEW e \in 0 .. Len(s), NEW i \in Nat \ {0}, NEW d \in Nat,
           NEW F, NEW H, Alike(F, H, i)
    PROVE  Reader!Whole(Reader!Front(s, e, i), d, F) = Reader!Whole(Reader!Front(s, e, i), d, H)
  <1> DEFINE f == Reader!Front(s, e, i)
  <1>1. f.is = "open" => f.next \in Nat /\ i < f.next /\ f.n \in Nat
    <2>1. \/ f.is \in {"more", "parse_error"}
          \/ f.is = "ok" /\ f.next \in Nat /\ i < f.next
          \/ /\ f.is = "open" /\ f.next \in Nat /\ i < f.next /\ f.n \in Nat
             /\ f.type \in {"array", "map"}
      BY FrontIs
    <2> HIDE DEF f
    <2> QED  BY <2>1
  <1> HIDE DEF f
  <1> DEFINE n == IF f.type = "map" THEN 2 * f.n ELSE f.n
  <1>2. f.is = "open" => F[f.next][d + 1][n] = H[f.next][d + 1][n]
    <2> SUFFICES ASSUME f.is = "open" PROVE F[f.next][d + 1][n] = H[f.next][d + 1][n]
      OBVIOUS
    <2>1. n \in Nat /\ d + 1 \in Nat
      BY <1>1
    <2> HIDE DEF n
    <2> QED  BY <2>1, <1>1, SMTT(30) DEF Alike
  <1> HIDE DEF n
  <1>3. Reader!Whole(f, d, F) = Reader!Whole(f, d, H)
    BY <1>2 DEF Reader!Whole, n
  <1> QED  BY <1>3 DEF f

LEMMA MoreAlike ==
    ASSUME NEW s \in Seq(Byte), NEW e \in 0 .. Len(s), NEW i \in Nat \ {0}, NEW d \in Nat,
           NEW n \in Nat, NEW F, NEW H, GoodSeries(F), Alike(F, H, i)
    PROVE  More(s, e, F)[i][d][n] = More(s, e, H)[i][d][n]
  <1> DEFINE w == Reader!Whole(Reader!Front(s, e, i), d, F)
  <1>0. i \in Nat
    OBVIOUS
  <1>1. w = Reader!Whole(Reader!Front(s, e, i), d, H)
    BY WholeAlike
  <1>2. More(s, e, F)[i][d][n] = IF n = 0 THEN Reader!Ok(<< >>, i) ELSE Reader!Behind(w, d, n - 1, F)
    BY <1>0, MoreAt
  <1>3. More(s, e, H)[i][d][n] = IF n = 0 THEN Reader!Ok(<< >>, i) ELSE Reader!Behind(w, d, n - 1, H)
    <2>1. More(s, e, H)[i][d][n] = IF n = 0 THEN Reader!Ok(<< >>, i)
             ELSE Reader!Behind(Reader!Whole(Reader!Front(s, e, i), d, H), d, n - 1, H)
      BY <1>0, MoreAt
    <2> HIDE DEF w
    <2> QED  BY <1>1, <2>1
  <1>4. w.is \in Outcomes /\ (w.is = "ok" => w.next \in Nat /\ i < w.next)
    BY WholeIs
  <1> HIDE DEF w
  <1>5. CASE n = 0
    BY <1>2, <1>3, <1>5
  <1>6. CASE n # 0 /\ w.is = "ok"
    <2>1. n - 1 \in Nat
      BY <1>6
    <2>2. F[w.next][d][n - 1] = H[w.next][d][n - 1]
      BY <2>1, <1>4, <1>6 DEF Alike
    <2>3. Reader!Behind(w, d, n - 1, F) = Reader!Behind(w, d, n - 1, H)
      BY <2>2, BehindIs
    <2> QED  BY <1>2, <1>3, <1>6, <2>3
  <1>7. CASE n # 0 /\ w.is # "ok"
    <2>1. Reader!Behind(w, d, n - 1, F) = w /\ Reader!Behind(w, d, n - 1, H) = w
      BY <1>7, BehindIs
    <2> QED  BY <1>2, <1>3, <1>7, <2>1
  <1> QED  BY <1>5, <1>6, <1>7

\* With nothing left to read.
LEMMA MoreAtEnd ==
    ASSUME NEW s, NEW e \in Nat, NEW F, NEW i \in Nat, e < i, NEW d \in Nat, NEW n \in Nat
    PROVE  More(s, e, F)[i][d][n] = None[i][d][n]
  <1> DEFINE m == Reader!Not("more")
  <1>1. Reader!Front(s, e, i) = m
    BY DEF Reader!Front
  <1>2. m.is = "more"
    BY OutcomeIs
  <1> HIDE DEF m
  <1>3. Reader!Whole(m, d, F) = m
    BY <1>2 DEF Reader!Whole
  <1>4. Reader!Behind(m, d, n - 1, F) = m
    BY <1>2, BehindIs
  <1>5. None[i][d][n] = IF n = 0 THEN Reader!Ok(<< >>, i) ELSE m
    BY NoneAt DEF m
  <1>6. More(s, e, F)[i][d][n] = IF n = 0 THEN Reader!Ok(<< >>, i)
             ELSE Reader!Behind(Reader!Whole(Reader!Front(s, e, i), d, F), d, n - 1, F)
    BY MoreAt
  <1> QED  BY <1>1, <1>3, <1>4, <1>5, <1>6

\* Series(s, e)[k] reads all that begins less than k bytes before the end.
LEMMA Enough ==
    ASSUME NEW s \in Seq(Byte), NEW e \in 0 .. Len(s)
    PROVE  \A k \in Nat : \A m \in Nat, i \in Nat \ {0}, d \in Nat, n \in Nat :
             k <= m /\ e < i + k => Reader!Series(s, e)[m][i][d][n] = Reader!Series(s, e)[k][i][d][n]
  <1> DEFINE G == Reader!Series(s, e)
             S == {k \in Nat : \A m \in Nat, i \in Nat \ {0}, d \in Nat, n \in Nat :
                                 k <= m /\ e < i + k => G[m][i][d][n] = G[k][i][d][n]}
  <1>0. G[0] = None
    BY SeriesIs
  <1>1. ASSUME NEW k \in Nat PROVE G[k + 1] = More(s, e, G[k])
    BY SeriesIs
  <1>2. \A k \in Nat : GoodSeries(G[k])
    BY SeriesGood
  <1> HIDE DEF G
  <1>3. 0 \in S
    <2> SUFFICES ASSUME NEW m \in Nat, NEW i \in Nat \ {0}, NEW d \in Nat, NEW n \in Nat, e < i
                 PROVE  G[m][i][d][n] = G[0][i][d][n]
      OBVIOUS
    <2>1. CASE m # 0
      <3>1. m - 1 \in Nat /\ (m - 1) + 1 = m /\ i \in Nat /\ e \in Nat
        BY <2>1
      <3>2. G[m] = More(s, e, G[m - 1])
        BY <3>1, <1>1
      <3>3. More(s, e, G[m - 1])[i][d][n] = None[i][d][n]
        BY <3>1, MoreAtEnd
      <3> QED  BY <3>2, <3>3, <1>0
    <2> QED  BY <2>1
  <1>4. ASSUME NEW k \in Nat, k \in S PROVE k + 1 \in S
    <2> SUFFICES ASSUME NEW m \in Nat, NEW i \in Nat \ {0}, NEW d \in Nat, NEW n \in Nat,
                        k + 1 <= m, e < i + (k + 1)
                 PROVE  G[m][i][d][n] = G[k + 1][i][d][n]
      OBVIOUS
    <2> DEFINE l == m - 1
    <2>1. l \in Nat /\ l + 1 = m /\ k <= l
      OBVIOUS
    <2> HIDE DEF l
    <2>2. G[m] = More(s, e, G[l]) /\ G[k + 1] = More(s, e, G[k])
      BY <2>1, <1>1
    <2>3. Alike(G[l], G[k], i)
      <3> SUFFICES ASSUME NEW j \in Nat, i < j, NEW c \in Nat, NEW b \in Nat
                   PROVE  G[l][j][c][b] = G[k][j][c][b]
        BY DEF Alike
      <3>1. j \in Nat \ {0} /\ e < j + k
        OBVIOUS
      <3> QED  BY <3>1, <2>1, <1>4
    <2>4. GoodSeries(G[l])
      BY <1>2, <2>1
    <2>5. More(s, e, G[l])[i][d][n] = More(s, e, G[k])[i][d][n]
      BY <2>3, <2>4, MoreAlike
    <2> QED  BY <2>2, <2>5
  <1> HIDE DEF S
  <1>5. \A k \in Nat : k \in S
    BY <1>3, <1>4, Induction
  <1> QED  BY <1>5 DEF S, G

\* One object at index i with d containers open around it, of which the bytes up to e are
\* there; n of them.
One(s, e, i, d) == Reader!Whole(Reader!Front(s, e, i), d, Reader!Series(s, e)[e])
Many(s, e, i, d, n) == Reader!Series(s, e)[e][i][d][n]

LEMMA ManyGood ==
    ASSUME NEW s \in Seq(Byte), NEW e \in 0 .. Len(s), NEW i \in Nat \ {0}, NEW d \in Nat
    PROVE  /\ One(s, e, i, d).is \in Outcomes
           /\ One(s, e, i, d).is = "ok" => One(s, e, i, d).next \in Nat /\ i < One(s, e, i, d).next
           /\ \A n \in Nat : Good(Many(s, e, i, d, n), i, n)
  <1>1. GoodSeries(Reader!Series(s, e)[e])
    BY SeriesGood
  <1> DEFINE F == Reader!Series(s, e)[e]
  <1> HIDE DEF F
  <1>2. GoodSeries(F)
    BY <1>1 DEF F
  <1>3. Reader!Whole(Reader!Front(s, e, i), d, F).is \in Outcomes
        /\ (Reader!Whole(Reader!Front(s, e, i), d, F).is = "ok" =>
              Reader!Whole(Reader!Front(s, e, i), d, F).next \in Nat
              /\ i < Reader!Whole(Reader!Front(s, e, i), d, F).next)
    BY <1>2, WholeIs
  <1>4. \A n \in Nat : Good(F[i][d][n], i, n)
    BY <1>2 DEF GoodSeries
  <1> QED  BY <1>3, <1>4, Zenon DEF One, Many, F

LEMMA ManyFirst ==
    ASSUME NEW s \in Seq(Byte), NEW e \in 0 .. Len(s), NEW i \in Nat \ {0}, NEW d \in Nat,
           NEW n \in Nat
    PROVE  Many(s, e, i, d, n) =
             IF n = 0 THEN Reader!Ok(<< >>, i)
             ELSE Reader!Behind(One(s, e, i, d), d, n - 1, Reader!Series(s, e)[e])
  <1> DEFINE G == Reader!Series(s, e)
  <1>1. e \in Nat /\ i \in Nat /\ e + 1 \in Nat /\ e <= e + 1 /\ e < i + e
    OBVIOUS
  <1>2. G[e + 1] = More(s, e, G[e])
    BY <1>1, SeriesIs
  <1>3. G[e + 1][i][d][n] = G[e][i][d][n]
    BY <1>1, Enough
  <1> HIDE DEF G
  <1>4. More(s, e, G[e])[i][d][n] = IF n = 0 THEN Reader!Ok(<< >>, i)
             ELSE Reader!Behind(Reader!Whole(Reader!Front(s, e, i), d, G[e]), d, n - 1, G[e])
    BY <1>1, MoreAt
  <1>5. G[e][i][d][n] = IF n = 0 THEN Reader!Ok(<< >>, i)
             ELSE Reader!Behind(Reader!Whole(Reader!Front(s, e, i), d, G[e]), d, n - 1, G[e])
    BY <1>2, <1>3, <1>4
  <1> QED  BY <1>5, Zenon DEF One, Many, G

\* No object.
LEMMA ManyNone ==
    ASSUME NEW s \in Seq(Byte), NEW e \in 0 .. Len(s), NEW i \in Nat \ {0}, NEW d \in Nat
    PROVE  Many(s, e, i, d, 0) = Reader!Ok(<< >>, i)
  BY ManyFirst

\* One, and those behind it.
LEMMA ManyNext ==
    ASSUME NEW s \in Seq(Byte), NEW e \in 0 .. Len(s), NEW i \in Nat \ {0}, NEW d \in Nat,
           NEW n \in Nat
    PROVE  Many(s, e, i, d, n + 1) =
             LET r == One(s, e, i, d)
                 x == Many(s, e, r.next, d, n)
             IN  IF r.is # "ok" THEN r
                 ELSE IF x.is = "ok" THEN Reader!Ok(Cons(r.obj, x.obj), x.next) ELSE x
  <1> DEFINE F == Reader!Series(s, e)[e]
             r == One(s, e, i, d)
  <1>1. n + 1 \in Nat /\ n + 1 # 0 /\ (n + 1) - 1 = n
    OBVIOUS
  <1>2. Many(s, e, i, d, n + 1) = Reader!Behind(r, d, (n + 1) - 1, F)
    BY <1>1, ManyFirst
  <1> HIDE DEF r, F
  <1>3. Many(s, e, i, d, n + 1) = Reader!Behind(r, d, n, F)
    BY <1>1, <1>2
  <1>4. Many(s, e, r.next, d, n) = F[r.next][d][n]
    BY DEF Many, F
  <1>5. Many(s, e, i, d, n + 1) =
          IF r.is # "ok" THEN r
          ELSE IF Many(s, e, r.next, d, n).is = "ok"
               THEN Reader!Ok(Cons(r.obj, Many(s, e, r.next, d, n).obj), Many(s, e, r.next, d, n).next)
               ELSE Many(s, e, r.next, d, n)
    BY <1>3, <1>4, BehindIs
  <1> QED  BY <1>5, Zenon DEF r

LEMMA ReadIs == \A s, e, i : Reader!Read(s, e, i) = One(s, e, i, 0)
  BY DEF Reader!Read, One
-----------------------------------------------------------------------------
(* The numbers that the parser loads *)

LEMMA BytesIn == ASSUME NEW bs \in Seq(Byte) PROVE \A k \in 1 .. Len(bs) : bs[k] \in 0 .. 255
  <1>1. \A k \in 1 .. Len(bs) : bs[k] \in Byte
    OBVIOUS
  <1>2. Byte = 0 .. 255
    BY DEF Byte
  <1> QED  BY <1>1, <1>2, Zenon

LEMMA AByteMore == \A x \in Int, y \in 0 .. 255 : 256 * x + y \in Int /\ 256 * x + y = x * 256 + y
  OBVIOUS

LEMMA WidthNat == \A w \in {1, 2, 4, 8} : w \in Nat /\ 1 \in 1 .. w
  OBVIOUS

\* f[n] is what the first n bytes say, the first of them worth f[1].
Says(f, bs) == \A n \in Nat : 0 < n /\ n < Len(bs) => f[n + 1] = 256 * f[n] + bs[n + 1]

LEMMA SaysNext ==
    ASSUME NEW bs \in Seq(Byte), NEW f, Says(f, bs), NEW n \in Nat, 0 < n, n < Len(bs), f[n] \in Int
    PROVE  f[n + 1] = f[n] * 256 + bs[n + 1] /\ f[n + 1] \in Int
  <1>1. n + 1 \in 1 .. Len(bs)
    OBVIOUS
  <1>2. bs[n + 1] \in 0 .. 255
    BY <1>1, BytesIn
  <1>3. f[n + 1] = 256 * f[n] + bs[n + 1]
    BY DEF Says
  <1>4. 256 * f[n] + bs[n + 1] \in Int /\ 256 * f[n] + bs[n + 1] = f[n] * 256 + bs[n + 1]
    BY <1>2, AByteMore, ZenonT(60)
  <1> QED  BY <1>3, <1>4, ZenonT(60)

LEMMA SaysFour ==
    ASSUME NEW bs \in Seq(Byte), 4 <= Len(bs), NEW f, Says(f, bs), f[1] \in Int
    PROVE  f[4] = Load32(f[1], bs) /\ f[4] \in Int
  <1>1. f[1 + 1] = f[1] * 256 + bs[1 + 1] /\ f[1 + 1] \in Int
    BY SaysNext
  <1>2. 1 + 1 = 2
    OBVIOUS
  <1>3. f[2] = f[1] * 256 + bs[2] /\ f[2] \in Int
    BY <1>1, <1>2
  <1>4. f[2 + 1] = f[2] * 256 + bs[2 + 1] /\ f[2 + 1] \in Int
    BY <1>3, SaysNext
  <1>5. 2 + 1 = 3
    OBVIOUS
  <1>6. f[3] = f[2] * 256 + bs[3] /\ f[3] \in Int
    BY <1>4, <1>5
  <1>7. f[3 + 1] = f[3] * 256 + bs[3 + 1] /\ f[3 + 1] \in Int
    BY <1>6, SaysNext
  <1>8. 3 + 1 = 4
    OBVIOUS
  <1>9. f[4] = f[3] * 256 + bs[4] /\ f[4] \in Int
    BY <1>7, <1>8
  <1>10. Load32(f[1], bs) = ((f[1] * 256 + bs[2]) * 256 + bs[3]) * 256 + bs[4]
    BY Zenon DEF Load32
  <1>11. Load32(f[1], bs) = f[4]
    <2>1. Load32(f[1], bs) = (f[2] * 256 + bs[3]) * 256 + bs[4]
      BY <1>3, <1>10, ZenonT(60)
    <2>2. Load32(f[1], bs) = f[3] * 256 + bs[4]
      BY <1>6, <2>1, ZenonT(60)
    <2> QED  BY <1>9, <2>2, Zenon
  <1> QED  BY <1>9, <1>11

\* A number is loaded byte by byte, the first of them worth the most.
LEMMA LoadIs ==
    ASSUME NEW bs \in Seq(Byte), Len(bs) \in {1, 2, 4, 8}, NEW f, Says(f, bs), f[1] \in Int
    PROVE  Load(f[1], bs) = f[Len(bs)] /\ f[Len(bs)] \in Int
  <1>1. CASE Len(bs) = 1
    BY <1>1 DEF Load
  <1>2. CASE Len(bs) = 2
    <2>0. 1 \in Nat /\ 0 < 1 /\ 1 < Len(bs)
      BY <1>2
    <2>1. f[1 + 1] = f[1] * 256 + bs[1 + 1] /\ f[1 + 1] \in Int
      BY <2>0, SaysNext, ZenonT(60)
    <2>2. 1 + 1 = 2
      OBVIOUS
    <2>3. f[2] = f[1] * 256 + bs[2] /\ f[2] \in Int
      BY <2>1, <2>2
    <2>4. Load(f[1], bs) = f[1] * 256 + bs[2]
      BY <1>2, SMT DEF Load
    <2> QED  BY <1>2, <2>3, <2>4, Zenon
  <1>3. CASE Len(bs) = 4
    <2>1. f[4] = Load32(f[1], bs) /\ f[4] \in Int
      <3>1. 4 <= Len(bs)
        BY <1>3
      <3> QED  BY <3>1, SaysFour, Zenon
    <2>2. Load(f[1], bs) = Load32(f[1], bs)
      BY <1>3, SMT DEF Load
    <2> QED  BY <1>3, <2>1, <2>2, Zenon
  <1>4. CASE Len(bs) = 8
    <2>1. f[4] = Load32(f[1], bs) /\ f[4] \in Int
      <3>1. 4 <= Len(bs)
        BY <1>4
      <3> QED  BY <3>1, SaysFour, Zenon
    <2>2. f[4 + 1] = f[4] * 256 + bs[4 + 1] /\ f[4 + 1] \in Int
      <3>1. 4 \in Nat /\ 0 < 4 /\ 4 < Len(bs)
        BY <1>4
      <3> QED  BY <2>1, <3>1, SaysNext, ZenonT(60)
    <2>3. 4 + 1 = 5
      OBVIOUS
    <2>4. f[5] = f[4] * 256 + bs[5] /\ f[5] \in Int
      BY <2>2, <2>3
    \* The last four bytes, and what they say behind the first five.
    <2> DEFINE l == SubSeq(bs, 5, 8)
               g == [k \in 1 .. 4 |-> f[k + 4]]
    <2>5. l \in Seq(Byte) /\ Len(l) = 4 /\ \A k \in 1 .. 4 : l[k] = bs[5 + k - 1]
      <3>1. 5 \in Nat \ {0} /\ 4 \in Nat /\ 5 + 4 - 1 = 8 /\ 8 <= Len(bs)
        BY <1>4
      <3>2. SubSeq(bs, 5, 5 + 4 - 1) \in Seq(Byte) /\ Len(SubSeq(bs, 5, 5 + 4 - 1)) = 4
            /\ \A k \in 1 .. 4 : SubSeq(bs, 5, 5 + 4 - 1)[k] = bs[5 + k - 1]
        BY <3>1, SomeBytes
      <3> QED  BY <3>1, <3>2
    <2>6. g[1] = f[5] /\ g[4] = f[8]
      OBVIOUS
    <2>7. Says(g, l)
      <3> SUFFICES ASSUME NEW n \in Nat, 0 < n, n < Len(l)
                   PROVE  g[n + 1] = 256 * g[n] + l[n + 1]
        BY ZenonT(60) DEF Says
      <3>1. n + 4 \in Nat /\ 0 < n + 4 /\ n + 4 < Len(bs) /\ (n + 1) + 4 = (n + 4) + 1 /\ 5 + (n + 1) - 1 = (n + 4) + 1
            /\ n \in 1 .. 4 /\ n + 1 \in 1 .. 4
        <4> HIDE DEF l
        <4> QED  BY <2>5, <1>4
      <3>2. f[(n + 4) + 1] = 256 * f[n + 4] + bs[(n + 4) + 1]
        BY <3>1 DEF Says
      <3>3. g[n + 1] = f[(n + 1) + 4] /\ g[n] = f[n + 4]
        BY <3>1
      <3>4. l[n + 1] = bs[5 + (n + 1) - 1]
        <4> HIDE DEF l
        <4> QED  BY <3>1, <2>5
      <3> HIDE DEF l, g
      <3> QED  BY <3>1, <3>2, <3>3, <3>4
    <2> HIDE DEF l, g
    <2>8. g[4] = Load32(g[1], l) /\ g[4] \in Int
      <3>1. g[1] \in Int /\ 4 <= Len(l)
        BY <2>4, <2>5, <2>6
      <3> QED  BY <3>1, <2>5, <2>7, SaysFour
    <2>9. Load(f[1], bs) = Load32(Load32(f[1], bs) * 256 + bs[5], l)
      BY <1>4 DEF Load, l
    <2>10. Load(f[1], bs) = f[8] /\ f[8] \in Int
      BY <2>1, <2>4, <2>6, <2>8, <2>9, ZenonT(60)
    <2> QED  BY <2>10, <1>4
  <1> QED  BY <1>1, <1>2, <1>3, <1>4
-----------------------------------------------------------------------------
LEMMA SaysIs ==
    ASSUME NEW bs, Len(bs) \in Nat
    PROVE  \E f : Says(f, bs) /\ f[1] = 256 * 0 + bs[1] /\ Reader!BigEndian(bs) = f[Len(bs)]
  <1>1. PICK f : /\ f[0] = 0
                 /\ \A n \in Nat : f[n + 1] = 256 * f[n] + bs[n + 1]
                 /\ Reader!BigEndian(bs) = f[Len(bs)]
    BY BigEndianIs
  <1>2. f[0 + 1] = 256 * f[0] + bs[0 + 1] /\ f[0] = 0
    BY <1>1, 0 \in Nat, Zenon
  <1>3. 0 + 1 = 1
    OBVIOUS
  <1>4. f[1] = 256 * 0 + bs[1]
    BY <1>2, <1>3, Zenon
  <1>5. Says(f, bs)
    BY <1>1, Zenon DEF Says
  <1> QED  BY <1>1, <1>4, <1>5, Zenon

LEMMA UnsignedIs ==
    ASSUME NEW bs \in Seq(Byte), Len(bs) \in {1, 2, 4, 8}
    PROVE  LoadUnsigned(bs) = Reader!BigEndian(bs) /\ LoadUnsigned(bs) \in Nat
  <1>1. PICK f : Says(f, bs) /\ f[1] = 256 * 0 + bs[1] /\ Reader!BigEndian(bs) = f[Len(bs)]
    BY WidthNat, SaysIs, Zenon
  <1>2. 1 \in 1 .. Len(bs) /\ Len(bs) \in Nat
    BY WidthNat, Zenon
  <1>3. bs[1] \in 0 .. 255
    BY <1>2, BytesIn
  <1>4. f[1] = bs[1] /\ f[1] \in Int
    <2>1. \A x \in 0 .. 255 : 256 * 0 + x = x /\ x \in Int
      OBVIOUS
    <2> QED  BY <1>1, <1>3, <2>1, ZenonT(60)
  <1>5. Load(f[1], bs) = f[Len(bs)]
    BY <1>1, <1>4, LoadIs
  <1>6. Reader!BigEndian(bs) \in Nat
    BY BigEndianNat
  <1> QED  BY <1>1, <1>4, <1>5, <1>6, Zenon DEF LoadUnsigned

\* Two's complement, byte by byte: of the first byte, and of one more.
LEMMA ComplementFirst ==
    ASSUME NEW b \in 0 .. 255, NEW c, NEW g, c = 255 - b, g = 256 * 0 + c
    PROVE  g \in Int /\ -1 - g \in Int /\ -1 - g = b - 256
  OBVIOUS

LEMMA ComplementNext ==
    ASSUME NEW b \in 0 .. 255, NEW g \in Int, NEW c, NEW g1, NEW h, NEW h1,
           c = 255 - b, g1 = 256 * g + c, h = -1 - g, h1 = -1 - g1
    PROVE  h1 = 256 * h + b
  OBVIOUS

LEMMA SignedIs ==
    ASSUME NEW bs \in Seq(Byte), Len(bs) \in {1, 2, 4, 8}
    PROVE  LoadSigned(bs) = Reader!TwosComplement(bs) /\ LoadSigned(bs) \in Int
  <1>0. 1 \in 1 .. Len(bs) /\ Len(bs) \in Nat
    BY WidthNat, Zenon
  <1>1. bs[1] \in 0 .. 255
    BY <1>0, BytesIn
  <1>2. CASE bs[1] < 128
    <2>1. ~(bs[1] >= 128)
      <3>1. \A x \in 0 .. 255 : x < 128 => ~(x >= 128)
        OBVIOUS
      <3> QED  BY <1>1, <1>2, <3>1, Zenon
    <2>2. LoadSigned(bs) = LoadUnsigned(bs)
      BY <2>1, Zenon DEF LoadSigned, LoadUnsigned
    <2>3. Reader!TwosComplement(bs) = Reader!BigEndian(bs)
      BY <1>2, Zenon DEF Reader!TwosComplement
    <2>4. LoadUnsigned(bs) = Reader!BigEndian(bs) /\ LoadUnsigned(bs) \in Nat
      BY UnsignedIs
    <2> QED  BY <2>2, <2>3, <2>4
  <1>3. CASE ~(bs[1] < 128)
    <2> DEFINE c == [k \in DOMAIN bs |-> 255 - bs[k]]
    <2>1. c \in Seq(Byte) /\ Len(c) = Len(bs) /\ \A k \in 1 .. Len(bs) : c[k] = 255 - bs[k]
      <3>1. DOMAIN bs = 1 .. Len(bs)
        OBVIOUS
      <3>2. \A k \in 1 .. Len(bs) : 255 - bs[k] \in 0 .. 255
        <4>1. \A x \in 0 .. 255 : 255 - x \in 0 .. 255
          OBVIOUS
        <4> QED  BY <4>1, BytesIn, Zenon
      <3>3. c = [k \in 1 .. Len(bs) |-> 255 - bs[k]]
        BY <3>1, Zenon
      <3>4. \A k \in 1 .. Len(bs) : c[k] = 255 - bs[k]
        BY <3>3
      <3> HIDE DEF c
      <3>5. Byte = 0 .. 255
        BY DEF Byte
      <3>6. c \in [1 .. Len(bs) -> Byte]
        BY <3>2, <3>3, <3>5, ZenonT(60)
      <3>7. c \in Seq(Byte) /\ Len(c) = Len(bs)
        BY <1>0, <3>6
      <3> QED  BY <3>4, <3>7
    <2>2. Reader!TwosComplement(bs) = -1 - Reader!BigEndian(c)
      BY <1>3, Zenon DEF Reader!TwosComplement
    <2> HIDE DEF c
    <2>3. PICK g : Says(g, c) /\ g[1] = 256 * 0 + c[1] /\ Reader!BigEndian(c) = g[Len(c)]
      BY <1>0, <2>1, SaysIs
    <2>4. g[1] \in Int /\ -1 - g[1] \in Int /\ -1 - g[1] = bs[1] - 256
      <3>1. c[1] = 255 - bs[1]
        BY <1>0, <2>1
      <3>2. g[1] = 256 * 0 + c[1]
        BY <2>3
      <3>3. PICK b \in 0 .. 255 : \E x : \E y : b = bs[1] /\ x = c[1] /\ y = g[1]
        BY <1>1, Zenon
      <3>6. PICK x, y : b = bs[1] /\ x = c[1] /\ y = g[1]
        BY <3>3, Zenon
      <3>4. x = 255 - b /\ y = 256 * 0 + x
        BY <3>1, <3>2, <3>6, Zenon
      <3>5. y \in Int /\ -1 - y \in Int /\ -1 - y = b - 256
        BY <3>4, ComplementFirst
      <3> QED  BY <3>5, <3>6, Zenon
    <2> DEFINE S == {n \in Nat : n + 1 <= Len(bs) => g[n + 1] \in Int}
    <2>5. 0 \in S
      BY <2>4
    <2>6. ASSUME NEW n \in Nat, n \in S PROVE n + 1 \in S
      <3> SUFFICES ASSUME (n + 1) + 1 <= Len(bs) PROVE g[(n + 1) + 1] \in Int
        OBVIOUS
      <3>1. n + 1 \in Nat /\ 0 < n + 1 /\ n + 1 < Len(c) /\ n + 1 <= Len(bs)
        BY <2>1
      <3>2. g[n + 1] \in Int
        BY <2>6, <3>1
      <3> HIDE DEF S
      <3> QED  BY <3>1, <3>2, <2>1, <2>3, SaysNext
    <2> HIDE DEF S
    <2>7. \A n \in Nat : n \in S
      BY <2>5, <2>6, Induction
    <2>8. ASSUME NEW n \in 1 .. Len(bs) PROVE g[n] \in Int
      <3>1. n - 1 \in Nat /\ (n - 1) + 1 = n /\ n <= Len(bs)
        OBVIOUS
      <3>2. n - 1 \in S
        BY <3>1, <2>7
      <3> QED  BY <3>1, <3>2 DEF S
    \* The complement of what the complements of the bytes say.
    <2> DEFINE h == [n \in 1 .. Len(bs) |-> -1 - g[n]]
    <2>9. Len(bs) \in 1 .. Len(bs) /\ h[1] = -1 - g[1] /\ h[Len(bs)] = -1 - g[Len(bs)]
      BY <1>0
    <2>10. Says(h, bs)
      <3> SUFFICES ASSUME NEW n \in Nat, 0 < n, n < Len(bs)
                   PROVE  h[n + 1] = 256 * h[n] + bs[n + 1]
        BY ZenonT(60) DEF Says
      <3>1. n \in 1 .. Len(bs) /\ n + 1 \in 1 .. Len(bs)
        BY <1>0
      <3>2. h[n + 1] = -1 - g[n + 1] /\ h[n] = -1 - g[n]
        BY <3>1
      <3> HIDE DEF h
      <3>3. g[n + 1] = 256 * g[n] + c[n + 1]
        BY <2>1, <2>3 DEF Says
      <3>4. c[n + 1] = 255 - bs[n + 1] /\ bs[n + 1] \in 0 .. 255
        BY <3>1, <2>1, BytesIn, ZenonT(60)
      <3>5. g[n] \in Int
        BY <3>1, <2>8
      <3>6. PICK b \in 0 .. 255, k \in Int : b = bs[n + 1] /\ k = g[n]
        BY <3>4, <3>5, ZenonT(60)
      <3>7. PICK x, l, u, v : x = c[n + 1] /\ l = g[n + 1] /\ u = h[n] /\ v = h[n + 1]
        BY Zenon
      <3>8. x = 255 - b /\ l = 256 * k + x /\ u = -1 - k /\ v = -1 - l
        BY <3>2, <3>3, <3>4, <3>6, <3>7, Zenon
      <3>9. v = 256 * u + b
        BY <3>8, ComplementNext
      <3> QED  BY <3>6, <3>7, <3>9, ZenonT(60)
    <2> HIDE DEF h
    <2>11. h[1] = bs[1] - 256 /\ h[1] \in Int
      BY <2>4, <2>9, Zenon
    <2>12. Load(h[1], bs) = h[Len(bs)] /\ h[Len(bs)] \in Int
      BY <2>10, <2>11, LoadIs
    <2>13. LoadSigned(bs) = Load(h[1], bs)
      <3>1. bs[1] >= 128
        <4>1. \A x \in 0 .. 255 : ~(x < 128) => x >= 128
          OBVIOUS
        <4> QED  BY <1>1, <1>3, <4>1, Zenon
      <3> QED  BY <3>1, <2>11, Zenon DEF LoadSigned
    <2>14. Reader!BigEndian(c) = g[Len(bs)]
      BY <2>1, <2>3
    <2> QED  BY <2>2, <2>9, <2>12, <2>13, <2>14
  <1> QED  BY <1>2, <1>3
-----------------------------------------------------------------------------
(* What the parser awaits *)

TypeOf(c) == CASE c \in CS_UINT -> "unsigned"
               [] c \in CS_INT -> "signed"
               [] c = CS_FLOAT -> "float32"
               [] c = CS_DOUBLE -> "float64"
               [] c \in CS_STR \cup {ACS_STR_VALUE} -> "str"
               [] c \in CS_BIN \cup {ACS_BIN_VALUE} -> "bin"
               [] c \in CS_EXT \cup {ACS_EXT_VALUE} -> "ext"
               [] c \in CS_ARRAY -> "array"
               [] c \in CS_MAP -> "map"

\* What is read when the n bytes that state c waits for begin at index i.
Awaited(s, e, c, n, i) ==
    IF c \in CS_SIZE THEN Reader!Sized(s, e, i, n, TypeOf(c))
    ELSE IF c \in CS_CONTAINER THEN Reader!SizedContainer(s, e, i, n, TypeOf(c))
    ELSE Reader!Fixed(s, e, i, n, TypeOf(c))

LEMMA Types ==
    /\ \A c \in CS_UINT : TypeOf(c) = "unsigned" /\ c \notin CS_SIZE \cup CS_CONTAINER
    /\ \A c \in CS_INT : TypeOf(c) = "signed" /\ c \notin CS_SIZE \cup CS_CONTAINER
    /\ TypeOf(CS_FLOAT) = "float32" /\ CS_FLOAT \notin CS_SIZE \cup CS_CONTAINER
    /\ TypeOf(CS_DOUBLE) = "float64" /\ CS_DOUBLE \notin CS_SIZE \cup CS_CONTAINER
    /\ \A c \in CS_STR : TypeOf(c) = "str" /\ c \in CS_SIZE
    /\ \A c \in CS_BIN : TypeOf(c) = "bin" /\ c \in CS_SIZE
    /\ \A c \in CS_EXT : TypeOf(c) = "ext" /\ c \in CS_SIZE
    /\ TypeOf(ACS_STR_VALUE) = "str" /\ TypeOf(ACS_BIN_VALUE) = "bin" /\ TypeOf(ACS_EXT_VALUE) = "ext"
    /\ \A c \in ACS_VALUE : c \notin CS_SIZE \cup CS_CONTAINER
    /\ \A c \in CS_ARRAY : TypeOf(c) = "array" /\ c \in CS_CONTAINER /\ c \notin CS_SIZE
    /\ \A c \in CS_MAP : TypeOf(c) = "map" /\ c \in CS_CONTAINER /\ c \notin CS_SIZE
  BY SMT DEF TypeOf, CS_UINT, CS_INT, CS_FLOAT, CS_DOUBLE, CS_STR, CS_BIN, CS_EXT, CS_ARRAY, CS_MAP,
             ACS_VALUE, ACS_STR_VALUE, ACS_BIN_VALUE, ACS_EXT_VALUE, CS_SIZE, CS_CONTAINER

LEMMA BinHeader == \A b \in 196 .. 198 : NEXT_CS(b) \in CS_BIN /\ FixedTrail(b) = <<1, 2, 4>>[b - 195]
  BY SMT DEF NEXT_CS, CS_BIN, FixedTrail, Bit

LEMMA ExtHeader == \A b \in 199 .. 201 : NEXT_CS(b) \in CS_EXT /\ FixedTrail(b) = <<1, 2, 4>>[b - 198]
  BY SMT DEF NEXT_CS, CS_EXT, FixedTrail, Bit

LEMMA FloatHeader ==
    /\ NEXT_CS(202) = CS_FLOAT /\ FixedTrail(202) = 4
    /\ NEXT_CS(203) = CS_DOUBLE /\ FixedTrail(203) = 8
  BY SMT DEF NEXT_CS, CS_FLOAT, CS_DOUBLE, FixedTrail, Bit

LEMMA UintHeader == \A b \in 204 .. 207 : NEXT_CS(b) \in CS_UINT /\ FixedTrail(b) = <<1, 2, 4, 8>>[b - 203]
  BY SMT DEF NEXT_CS, CS_UINT, FixedTrail, Bit

LEMMA IntHeader == \A b \in 208 .. 211 : NEXT_CS(b) \in CS_INT /\ FixedTrail(b) = <<1, 2, 4, 8>>[b - 207]
  BY SMT DEF NEXT_CS, CS_INT, FixedTrail, Bit

LEMMA StrHeader == \A b \in 217 .. 219 : NEXT_CS(b) \in CS_STR /\ FixedTrail(b) = <<1, 2, 4>>[b - 216]
  BY SMT DEF NEXT_CS, CS_STR, FixedTrail, Bit

LEMMA ArrayHeader == \A b \in 220 .. 221 : NEXT_CS(b) \in CS_ARRAY /\ FixedTrail(b) = <<2, 4>>[b - 219]
  BY SMT DEF NEXT_CS, CS_ARRAY, FixedTrail, Bit

LEMMA MapHeader == \A b \in 222 .. 223 : NEXT_CS(b) \in CS_MAP /\ FixedTrail(b) = <<2, 4>>[b - 221]
  BY SMT DEF NEXT_CS, CS_MAP, FixedTrail, Bit

LEMMA FixExtHeader == \A b \in 212 .. 216 : FixExtTrail(b) = <<1, 2, 4, 8, 16>>[b - 211] + 1
  BY SMT DEF FixExtTrail, Bit
-----------------------------------------------------------------------------
(* Headers *)

LEMMA FixedAwaited ==
    ASSUME NEW c, c \notin CS_SIZE \cup CS_CONTAINER, NEW t, TypeOf(c) = t
    PROVE  \A s, e, n, i : Awaited(s, e, c, n, i) = Reader!Fixed(s, e, i, n, t)
  BY Zenon DEF Awaited

LEMMA SizedAwaited ==
    ASSUME NEW c, c \in CS_SIZE, NEW t, TypeOf(c) = t
    PROVE  \A s, e, n, i : Awaited(s, e, c, n, i) = Reader!Sized(s, e, i, n, t)
  BY Zenon DEF Awaited

LEMMA ContainerAwaited ==
    ASSUME NEW c, c \notin CS_SIZE, c \in CS_CONTAINER, NEW t, TypeOf(c) = t
    PROVE  \A s, e, n, i : Awaited(s, e, c, n, i) = Reader!SizedContainer(s, e, i, n, t)
  BY Zenon DEF Awaited

LEMMA VariableHeader ==
    ASSUME NEW s, NEW e, NEW i \in Nat, ~(i > e), s[i] \in Variable
    PROVE  Reader!Front(s, e, i) = Awaited(s, e, NEXT_CS(s[i]), FixedTrail(s[i]), i + 1)
  <1> DEFINE b == s[i]
             j == i + 1
             f == Reader!Front(s, e, i)
             g == Awaited(s, e, NEXT_CS(b), FixedTrail(b), j)
  <1>1. CASE b \in 196 .. 198
    <2>1. f = Reader!Sized(s, e, j, <<1, 2, 4>>[b - 195], "bin")
      BY <1>1, SMT DEF Reader!Front
    <2>2. g = Reader!Sized(s, e, j, FixedTrail(b), "bin")
      BY <1>1, BinHeader, Types, SizedAwaited
    <2> QED  BY <2>1, <2>2, <1>1, BinHeader
  <1>2. CASE b \in 199 .. 201
    <2>1. f = Reader!Sized(s, e, j, <<1, 2, 4>>[b - 198], "ext")
      BY <1>2, SMT DEF Reader!Front
    <2>2. g = Reader!Sized(s, e, j, FixedTrail(b), "ext")
      BY <1>2, ExtHeader, Types, SizedAwaited
    <2> QED  BY <2>1, <2>2, <1>2, ExtHeader
  <1>3. CASE b = 202
    <2>1. f = Reader!Fixed(s, e, j, 4, "float32")
      BY <1>3, SMT DEF Reader!Front
    <2>2. g = Reader!Fixed(s, e, j, 4, "float32")
      BY <1>3, FloatHeader, Types, FixedAwaited
    <2> QED  BY <2>1, <2>2
  <1>4. CASE b = 203
    <2>1. f = Reader!Fixed(s, e, j, 8, "float64")
      BY <1>4, SMT DEF Reader!Front
    <2>2. g = Reader!Fixed(s, e, j, 8, "float64")
      BY <1>4, FloatHeader, Types, FixedAwaited
    <2> QED  BY <2>1, <2>2
  <1>5. CASE b \in 204 .. 207
    <2>1. f = Reader!Fixed(s, e, j, <<1, 2, 4, 8>>[b - 203], "unsigned")
      BY <1>5, SMT DEF Reader!Front
    <2>2. g = Reader!Fixed(s, e, j, FixedTrail(b), "unsigned")
      BY <1>5, UintHeader, Types, FixedAwaited
    <2> QED  BY <2>1, <2>2, <1>5, UintHeader
  <1>6. CASE b \in 208 .. 211
    <2>1. f = Reader!Fixed(s, e, j, <<1, 2, 4, 8>>[b - 207], "signed")
      BY <1>6, SMT DEF Reader!Front
    <2>2. g = Reader!Fixed(s, e, j, FixedTrail(b), "signed")
      BY <1>6, IntHeader, Types, FixedAwaited
    <2> QED  BY <2>1, <2>2, <1>6, IntHeader
  <1>7. CASE b \in 217 .. 219
    <2>1. f = Reader!Sized(s, e, j, <<1, 2, 4>>[b - 216], "str")
      BY <1>7, SMT DEF Reader!Front
    <2>2. g = Reader!Sized(s, e, j, FixedTrail(b), "str")
      BY <1>7, StrHeader, Types, SizedAwaited
    <2> QED  BY <2>1, <2>2, <1>7, StrHeader
  <1>8. CASE b \in 220 .. 221
    <2>1. f = Reader!SizedContainer(s, e, j, <<2, 4>>[b - 219], "array")
      BY <1>8, SMT DEF Reader!Front
    <2>2. g = Reader!SizedContainer(s, e, j, FixedTrail(b), "array")
      BY <1>8, ArrayHeader, Types, ContainerAwaited
    <2> QED  BY <2>1, <2>2, <1>8, ArrayHeader
  <1>9. CASE b \in 222 .. 223
    <2>1. f = Reader!SizedContainer(s, e, j, <<2, 4>>[b - 221], "map")
      BY <1>9, SMT DEF Reader!Front
    <2>2. g = Reader!SizedContainer(s, e, j, FixedTrail(b), "map")
      BY <1>9, MapHeader, Types, ContainerAwaited
    <2> QED  BY <2>1, <2>2, <1>9, MapHeader
  <1>10. \/ b \in 196 .. 198 \/ b \in 199 .. 201 \/ b = 202 \/ b = 203 \/ b \in 204 .. 207
         \/ b \in 208 .. 211 \/ b \in 217 .. 219 \/ b \in 220 .. 221 \/ b \in 222 .. 223
    BY DEF Variable
  <1> QED  BY <1>1, <1>2, <1>3, <1>4, <1>5, <1>6, <1>7, <1>8, <1>9, <1>10, Zenon

LEMMA NumberHeader ==
    ASSUME NEW b \in Variable, NEXT_CS(b) \in CS_UINT \cup CS_INT
    PROVE  FixedTrail(b) \in {1, 2, 4, 8}
  BY SMT DEF Variable, NEXT_CS, CS_UINT, CS_INT, FixedTrail, Bit

LEMMA StateHeader == \A b \in Variable : NEXT_CS(b) # CS_HEADER
  BY SMT DEF Variable, NEXT_CS, CS_HEADER

LEMMA FixExtFront ==
    ASSUME NEW s, NEW e, NEW i \in Nat, ~(i > e), s[i] \in FixExt
    PROVE  Reader!Front(s, e, i) = Awaited(s, e, ACS_EXT_VALUE, FixExtTrail(s[i]), i + 1)
  <1>1. s[i] \in 212 .. 216
    BY DEF FixExt
  <1>2. Reader!Front(s, e, i) = Reader!Fixed(s, e, i + 1, <<1, 2, 4, 8, 16>>[s[i] - 211] + 1, "ext")
    BY <1>1, SMT DEF Reader!Front
  <1>3. Awaited(s, e, ACS_EXT_VALUE, FixExtTrail(s[i]), i + 1) = Reader!Fixed(s, e, i + 1, FixExtTrail(s[i]), "ext")
    BY Types, FixedAwaited DEF ACS_VALUE
  <1> QED  BY <1>1, <1>2, <1>3, FixExtHeader

LEMMA FixStrFront ==
    ASSUME NEW s, NEW e, NEW i \in Nat, ~(i > e), s[i] \in FixStr
    PROVE  /\ Reader!Front(s, e, i) = Awaited(s, e, ACS_STR_VALUE, s[i] - 160, i + 1)
           /\ Reader!Front(s, e, i) = Reader!Fixed(s, e, i + 1, s[i] - 160, "str")
  <1>1. s[i] \in 160 .. 191
    BY DEF FixStr
  <1>2. Reader!Front(s, e, i) = Reader!Fixed(s, e, i + 1, s[i] - 160, "str")
    BY <1>1, SMT DEF Reader!Front
  <1>3. Awaited(s, e, ACS_STR_VALUE, s[i] - 160, i + 1) = Reader!Fixed(s, e, i + 1, s[i] - 160, "str")
    BY Types, FixedAwaited DEF ACS_VALUE
  <1> QED  BY <1>2, <1>3

LEMMA ValueFront ==
    ASSUME NEW s, NEW e, NEW i \in Nat, ~(i > e)
    PROVE  /\ s[i] \in PositiveFixnum => Reader!Front(s, e, i) = Reader!Ok(<<"positive", s[i]>>, i + 1)
           /\ s[i] \in NegativeFixnum => Reader!Front(s, e, i) = Reader!Ok(<<"negative", s[i] - 256>>, i + 1)
           /\ s[i] = Nil => Reader!Front(s, e, i) = Reader!Ok(NIL, i + 1)
           /\ s[i] = False => Reader!Front(s, e, i) = Reader!Ok(<<"boolean", FALSE>>, i + 1)
           /\ s[i] = True => Reader!Front(s, e, i) = Reader!Ok(<<"boolean", TRUE>>, i + 1)
           /\ s[i] = 193 => Reader!Front(s, e, i) = Reader!Not("parse_error")
           /\ s[i] \in FixArray => Reader!Front(s, e, i) = Reader!Opens("array", s[i] - 144, i + 1)
           /\ s[i] \in FixMap => Reader!Front(s, e, i) = Reader!Opens("map", s[i] - 128, i + 1)
  <1> DEFINE f == Reader!Front(s, e, i)
             j == i + 1
  <1>1. ASSUME s[i] \in PositiveFixnum PROVE f = Reader!Ok(<<"positive", s[i]>>, j)
    <2>1. s[i] \in 0 .. 127
      BY <1>1 DEF PositiveFixnum
    <2>2. f = Reader!Ok(Reader!Integer(s[i]), j)
      BY <2>1, SMTT(30) DEF Reader!Front
    <2>3. ~(s[i] < 0)
      BY <2>1
    <2> HIDE DEF f
    <2> QED  BY <2>2, <2>3, Zenon DEF Reader!Integer
  <1>2. ASSUME s[i] \in NegativeFixnum PROVE f = Reader!Ok(<<"negative", s[i] - 256>>, j)
    <2>1. s[i] \in 224 .. 255
      BY <1>2 DEF NegativeFixnum
    <2>2. f = Reader!Ok(Reader!Integer(s[i] - 256), j)
      BY <2>1, SMTT(30) DEF Reader!Front
    <2>3. s[i] - 256 < 0
      BY <2>1
    <2> HIDE DEF f
    <2> QED  BY <2>2, <2>3, Zenon DEF Reader!Integer
  <1>3. ASSUME s[i] = Nil PROVE f = Reader!Ok(NIL, j)
    <2>1. f = Reader!Ok(Reader!NilObject, j)
      BY <1>3, SMT DEF Reader!Front, Nil
    <2> HIDE DEF f
    <2> QED  BY <2>1, Zenon DEF Reader!NilObject, NIL
  <1>4. ASSUME s[i] = False PROVE f = Reader!Ok(<<"boolean", FALSE>>, j)
    BY <1>4, SMT DEF Reader!Front, False
  <1>5. ASSUME s[i] = True PROVE f = Reader!Ok(<<"boolean", TRUE>>, j)
    BY <1>5, SMT DEF Reader!Front, True
  <1>6. ASSUME s[i] = 193 PROVE f = Reader!Not("parse_error")
    BY <1>6, SMT DEF Reader!Front
  <1>7. ASSUME s[i] \in FixArray PROVE f = Reader!Opens("array", s[i] - 144, j)
    BY <1>7, SMTT(30) DEF Reader!Front, FixArray
  <1>8. ASSUME s[i] \in FixMap PROVE f = Reader!Opens("map", s[i] - 128, j)
    BY <1>8, SMT DEF Reader!Front, FixMap
  <1> QED  BY <1>1, <1>2, <1>3, <1>4, <1>5, <1>6, <1>7, <1>8, Zenon

LEMMA NoFront == \A s, e, i : i > e => Reader!Front(s, e, i) = Reader!Not("more")
  BY DEF Reader!Front
-----------------------------------------------------------------------------
(* What trails a header *)

Limit == 65536 * 65536

\* A number that fits in 32 bits.
Small(n) == n \in Nat /\ n < Limit

LEMMA FewBytes ==
    /\ \A a \in 0 .. 255 : Small(a)
    /\ \A a \in 0 .. 255, b \in 0 .. 255 : Small(a * 256 + b)
  BY SMT DEF Small, Limit

Word(a, b, c, d) == ((a * 256 + b) * 256 + c) * 256 + d

LEMMA FourBytes ==
    ASSUME NEW a \in 0 .. 255, NEW b \in 0 .. 255, NEW c \in 0 .. 255, NEW d \in 0 .. 255
    PROVE  Small(Word(a, b, c, d))
  <1> DEFINE n == ((a * 256 + b) * 256 + c) * 256 + d
  <1>1. n <= 65536 * 65536 - 1
    BY SMT
  <1>2. n \in Nat
    BY SMT
  <1> HIDE DEF n
  <1>3. Small(n)
    BY <1>1, <1>2, SMT DEF Small, Limit
  <1> QED  BY <1>3, Zenon DEF n, Word

LEMMA SizeBound ==
    ASSUME NEW bs \in Seq(Byte), Len(bs) \in {1, 2, 4}
    PROVE  Small(LoadUnsigned(bs))
  <1>1. \A k \in 1 .. Len(bs) : bs[k] \in 0 .. 255
    BY BytesIn
  <1>2. CASE Len(bs) = 1
    <2>1. bs[1] \in 0 .. 255
      BY <1>1, <1>2
    <2>2. Small(bs[1])
      BY <2>1, FewBytes, Zenon
    <2>3. LoadUnsigned(bs) = bs[1]
      BY <1>2, SMT DEF LoadUnsigned, Load
    <2> QED  BY <2>2, <2>3, Zenon
  <1>3. CASE Len(bs) = 2
    <2>1. bs[1] \in 0 .. 255 /\ bs[2] \in 0 .. 255
      BY <1>1, <1>3
    <2>2. Small(bs[1] * 256 + bs[2])
      BY <2>1, FewBytes, ZenonT(60)
    <2>3. LoadUnsigned(bs) = bs[1] * 256 + bs[2]
      BY <1>3, SMT DEF LoadUnsigned, Load
    <2> QED  BY <2>2, <2>3, Zenon
  <1>4. CASE Len(bs) = 4
    <2>1. bs[1] \in 0 .. 255 /\ bs[2] \in 0 .. 255 /\ bs[3] \in 0 .. 255 /\ bs[4] \in 0 .. 255
      BY <1>1, <1>4
    <2>2. Small(Load32(bs[1], bs))
      <3>1. Small(Word(bs[1], bs[2], bs[3], bs[4]))
        BY <2>1, FourBytes, ZenonT(60)
      <3> QED  BY <3>1, Zenon DEF Load32, Word
    <2>3. LoadUnsigned(bs) = Load32(bs[1], bs)
      BY <1>4, SMT DEF LoadUnsigned, Load
    <2> QED  BY <2>2, <2>3, Zenon
  <1> QED  BY <1>2, <1>3, <1>4

\* An unsigned int has at least 32 bits.
Wide == UINT >= Limit

LEMMA UIntIs == ASSUME Wide, NEW n, Small(n) PROVE UInt(n) = n
  <1>1. UINT \in Nat /\ n < UINT /\ n \in Nat
    BY TemplateConstants, SMT DEF Wide, Small, Limit
  <1> QED  BY <1>1 DEF UInt

LEMMA UIntNext ==
    ASSUME Wide, NEW n, Small(n)
    PROVE  UInt(UInt(n) + 1) = IF n = UINT - 1 THEN 0 ELSE n + 1
  <1>1. UInt(n) = n
    BY UIntIs
  <1>2. UINT \in Nat /\ n < UINT /\ UINT > 0
    BY TemplateConstants, SMT DEF Wide, Small, Limit
  <1>3. (n + 1) % UINT = IF n = UINT - 1 THEN 0 ELSE n + 1
    <2>1. n \in Nat /\ \A u \in Nat : u > 0 => u % u = 0
      BY DEF Small
    <2>2. \A m \in Nat, u \in Nat : m < u => m % u = m
      OBVIOUS
    <2>3. CASE n = UINT - 1
      BY <1>2, <2>1, <2>3
    <2>4. CASE n # UINT - 1
      <3>1. n + 1 \in Nat /\ n + 1 < UINT
        BY <1>2, <2>1, <2>4
      <3> QED  BY <3>1, <1>2, <2>2, <2>4
    <2> QED  BY <2>3, <2>4
  <1> QED  BY <1>1, <1>3 DEF UInt

LEMMA MoreTrail ==
    ASSUME NEW s, NEW e \in Nat, NEW i \in Nat, NEW n \in Nat, i + n - 1 > e, NEW c
    PROVE  Awaited(s, e, c, n, i) = Reader!Not("more")
  BY Zenon DEF Awaited, Reader!Fixed, Reader!Sized, Reader!SizedContainer

LEMMA NumberIs ==
    ASSUME NEW bs, NEW c
    PROVE  /\ c = CS_FLOAT => Number(c, bs) = <<"float32", bs>>
           /\ c = CS_DOUBLE => Number(c, bs) = <<"float64", bs>>
           /\ c \in CS_UINT => Number(c, bs) = <<"positive", LoadUnsigned(bs)>>
           /\ c \in CS_INT => Number(c, bs) = <<IF LoadSigned(bs) >= 0 THEN "positive" ELSE "negative",
                                                LoadSigned(bs)>>
  BY SMT DEF Number, CS_FLOAT, CS_DOUBLE, CS_UINT, CS_INT

LEMMA NumberValue ==
    ASSUME NEW bs \in Seq(Byte), NEW c \in CS_NUMBER,
           c \in CS_UINT \cup CS_INT => Len(bs) \in {1, 2, 4, 8}
    PROVE  Reader!Value(TypeOf(c), bs) = Number(c, bs)
  <1>1. CASE c = CS_FLOAT
    <2>1. Number(c, bs) = <<"float32", bs>>
      BY <1>1, NumberIs
    <2>2. Reader!Value("float32", bs) = <<"float32", bs>>
      BY DEF Reader!Value
    <2> QED  BY <1>1, <2>1, <2>2, Types, Zenon
  <1>2. CASE c = CS_DOUBLE
    <2>1. c # CS_FLOAT
      BY <1>2 DEF CS_FLOAT, CS_DOUBLE
    <2>2. Number(c, bs) = <<"float64", bs>>
      BY <1>2, NumberIs
    <2>3. Reader!Value("float64", bs) = <<"float64", bs>>
      BY DEF Reader!Value
    <2> QED  BY <1>2, <2>2, <2>3, Types, Zenon
  <1>3. CASE c \in CS_UINT
    <2>1. c # CS_FLOAT /\ c # CS_DOUBLE
      BY <1>3 DEF CS_FLOAT, CS_DOUBLE, CS_UINT
    <2>2. Number(c, bs) = <<"positive", LoadUnsigned(bs)>>
      BY <1>3, NumberIs
    <2>3. LoadUnsigned(bs) = Reader!BigEndian(bs) /\ LoadUnsigned(bs) \in Nat
      BY <1>3, UnsignedIs
    <2>4. ~(LoadUnsigned(bs) < 0)
      BY <2>3
    <2>5. Reader!Value("unsigned", bs) = Reader!Integer(Reader!BigEndian(bs))
      BY DEF Reader!Value
    <2>6. TypeOf(c) = "unsigned"
      BY <1>3, Types
    <2> QED  BY <2>2, <2>3, <2>4, <2>5, <2>6, Zenon DEF Reader!Integer
  <1>4. CASE c \in CS_INT
    <2>1. c # CS_FLOAT /\ c # CS_DOUBLE /\ c \notin CS_UINT
      BY <1>4 DEF CS_FLOAT, CS_DOUBLE, CS_UINT, CS_INT
    <2>2. Number(c, bs) = <<IF LoadSigned(bs) >= 0 THEN "positive" ELSE "negative", LoadSigned(bs)>>
      BY <1>4, NumberIs
    <2>3. LoadSigned(bs) = Reader!TwosComplement(bs) /\ LoadSigned(bs) \in Int
      BY <1>4, SignedIs
    <2>4. LoadSigned(bs) >= 0 <=> ~(LoadSigned(bs) < 0)
      BY <2>3
    <2>5. Reader!Value("signed", bs) = Reader!Integer(Reader!TwosComplement(bs))
      BY DEF Reader!Value
    <2>6. TypeOf(c) = "signed"
      BY <1>4, Types
    <2>7. Reader!Integer(LoadSigned(bs)) = <<IF LoadSigned(bs) >= 0 THEN "positive" ELSE "negative", LoadSigned(bs)>>
      <3>1. CASE LoadSigned(bs) >= 0
        BY <3>1, <2>4, Zenon DEF Reader!Integer
      <3>2. CASE ~(LoadSigned(bs) >= 0)
        BY <3>2, <2>4, Zenon DEF Reader!Integer
      <3> QED  BY <3>1, <3>2
    <2> QED  BY <2>2, <2>3, <2>5, <2>6, <2>7, Zenon
  <1> QED  BY <1>1, <1>2, <1>3, <1>4 DEF CS_NUMBER

LEMMA RawValue ==
    ASSUME NEW bs \in Seq(Byte), NEW c \in ACS_VALUE, c = ACS_EXT_VALUE => Len(bs) > 0
    PROVE  Reader!Value(TypeOf(c), bs) = Raw(c, bs)
  <1>1. CASE c = ACS_STR_VALUE
    <2>1. Raw(c, bs) = <<"str", bs>>
      <3>1. \A u, v, w : (CASE c = ACS_STR_VALUE -> u [] c = ACS_BIN_VALUE -> v [] c = ACS_EXT_VALUE -> w) = u
        BY <1>1, SMT DEF ACS_STR_VALUE, ACS_BIN_VALUE, ACS_EXT_VALUE
      <3> QED  BY <3>1, Zenon DEF Raw
    <2>2. Reader!Value("str", bs) = <<"str", bs>>
      BY DEF Reader!Value
    <2> QED  BY <1>1, <2>1, <2>2, Types, Zenon
  <1>2. CASE c = ACS_BIN_VALUE
    <2>1. Raw(c, bs) = <<"bin", bs>>
      <3>1. \A u, v, w : (CASE c = ACS_STR_VALUE -> u [] c = ACS_BIN_VALUE -> v [] c = ACS_EXT_VALUE -> w) = v
        BY <1>2, SMT DEF ACS_STR_VALUE, ACS_BIN_VALUE, ACS_EXT_VALUE
      <3> QED  BY <3>1, Zenon DEF Raw
    <2>2. Reader!Value("bin", bs) = <<"bin", bs>>
      BY DEF Reader!Value
    <2> QED  BY <1>2, <2>1, <2>2, Types, Zenon
  <1>3. CASE c = ACS_EXT_VALUE
    <2>1. Raw(c, bs) = <<"ext", <<LoadSigned(<<bs[1]>>), Tail(bs)>> >>
      <3>1. \A u, v, w : (CASE c = ACS_STR_VALUE -> u [] c = ACS_BIN_VALUE -> v [] c = ACS_EXT_VALUE -> w) = w
        BY <1>3, SMT DEF ACS_STR_VALUE, ACS_BIN_VALUE, ACS_EXT_VALUE
      <3> QED  BY <3>1, Zenon DEF Raw
    <2>2. Reader!Value("ext", bs) = <<"ext", <<Reader!TwosComplement(<<bs[1]>>), Tail(bs)>> >>
      <3>1. \A u, v, w, x : (CASE "ext" = "unsigned" -> u [] "ext" = "signed" -> v [] "ext" = "ext" -> w
                              [] OTHER -> x) = w
        OBVIOUS
      <3> QED  BY <3>1, Zenon DEF Reader!Value
    <2>3. bs[1] \in Byte
      <3>1. 1 \in 1 .. Len(bs)
        BY <1>3
      <3> QED  BY <3>1, BytesIn DEF Byte
    <2>4. <<bs[1]>> \in Seq(Byte) /\ Len(<<bs[1]>>) \in {1, 2, 4, 8}
      <3>1. \A b \in Byte : <<b>> \in Seq(Byte) /\ Len(<<b>>) \in {1, 2, 4, 8}
        OBVIOUS
      <3> QED  BY <2>3, <3>1, Zenon
    <2>5. LoadSigned(<<bs[1]>>) = Reader!TwosComplement(<<bs[1]>>)
      BY <2>4, SignedIs, Zenon
    <2> QED  BY <1>3, <2>1, <2>2, <2>5, Types, Zenon
  <1> QED  BY <1>1, <1>2, <1>3 DEF ACS_VALUE

\* The bytes that the state waits for are there.
Here(s, e, i, n) ==
    /\ s \in Seq(Byte) /\ e \in Nat /\ e <= Len(s)
    /\ i \in Nat \ {0} /\ n \in Nat /\ i + n - 1 <= e

LEMMA HereIs ==
    ASSUME NEW s, NEW e, NEW i, NEW n, Here(s, e, i, n)
    PROVE  /\ SubSeq(s, i, i + n - 1) \in Seq(Byte) /\ Len(SubSeq(s, i, i + n - 1)) = n
           /\ ~(i + n - 1 > e) /\ i \in Nat /\ n \in Nat /\ e \in Nat
  <1>1. s \in Seq(Byte) /\ i \in Nat \ {0} /\ n \in Nat /\ i + n - 1 <= Len(s)
    BY DEF Here
  <1>2. ~(i + n - 1 > e) /\ i \in Nat /\ n \in Nat /\ e \in Nat
    BY DEF Here
  <1> QED  BY <1>1, <1>2, SomeBytes

LEMMA NumberTrail ==
    ASSUME NEW s, NEW e, NEW i, NEW n, Here(s, e, i, n), NEW c \in CS_NUMBER,
           c \in CS_UINT \cup CS_INT => n \in {1, 2, 4, 8}
    PROVE  Awaited(s, e, c, n, i) = Reader!Ok(Number(c, SubSeq(s, i, i + n - 1)), i + n)
  <1> DEFINE bs == SubSeq(s, i, i + n - 1)
  <1>1. bs \in Seq(Byte) /\ Len(bs) = n /\ ~(i + n - 1 > e)
    BY HereIs
  <1>2. c \notin CS_SIZE \cup CS_CONTAINER
    BY Types DEF CS_NUMBER
  <1>3. Awaited(s, e, c, n, i) = Reader!Fixed(s, e, i, n, TypeOf(c))
    BY <1>2, Zenon DEF Awaited
  <1>4. Reader!Fixed(s, e, i, n, TypeOf(c)) = Reader!Ok(Reader!Value(TypeOf(c), bs), i + n)
    BY <1>1, Zenon DEF Reader!Fixed
  <1> HIDE DEF bs
  <1>5. Reader!Value(TypeOf(c), bs) = Number(c, bs)
    BY <1>1, NumberValue
  <1> QED  BY <1>3, <1>4, <1>5 DEF bs

LEMMA ValueTrails ==
    ASSUME NEW s, NEW e, NEW i, NEW n, Here(s, e, i, n), n > 0, NEW c \in ACS_VALUE
    PROVE  Awaited(s, e, c, n, i) = Reader!Ok(Raw(c, SubSeq(s, i, i + n - 1)), i + n)
  <1> DEFINE bs == SubSeq(s, i, i + n - 1)
  <1>1. bs \in Seq(Byte) /\ Len(bs) = n /\ ~(i + n - 1 > e)
    BY HereIs
  <1>2. c \notin CS_SIZE \cup CS_CONTAINER
    BY Types
  <1>3. Awaited(s, e, c, n, i) = Reader!Fixed(s, e, i, n, TypeOf(c))
    BY <1>2, Zenon DEF Awaited
  <1>4. Reader!Fixed(s, e, i, n, TypeOf(c)) = Reader!Ok(Reader!Value(TypeOf(c), bs), i + n)
    BY <1>1, Zenon DEF Reader!Fixed
  <1> HIDE DEF bs
  <1>5. Reader!Value(TypeOf(c), bs) = Raw(c, bs)
    BY <1>1, RawValue
  <1> QED  BY <1>3, <1>4, <1>5 DEF bs

LEMMA ContainerTrail ==
    ASSUME Wide, NEW s, NEW e, NEW i, NEW n, Here(s, e, i, n), n \in {1, 2, 4}, NEW c \in CS_CONTAINER
    PROVE  LET bs == SubSeq(s, i, i + n - 1)
           IN  /\ Awaited(s, e, c, n, i) = Reader!Opens(TypeOf(c), UInt(LoadUnsigned(bs)), i + n)
               /\ UInt(LoadUnsigned(bs)) \in Nat
  <1> DEFINE bs == SubSeq(s, i, i + n - 1)
  <1>1. bs \in Seq(Byte) /\ Len(bs) = n /\ ~(i + n - 1 > e)
    BY HereIs
  <1>2. c \notin CS_SIZE
    BY Types DEF CS_CONTAINER
  <1>3. Awaited(s, e, c, n, i) = Reader!SizedContainer(s, e, i, n, TypeOf(c))
    BY <1>2, Zenon DEF Awaited
  <1>4. Reader!SizedContainer(s, e, i, n, TypeOf(c)) = Reader!Opens(TypeOf(c), Reader!BigEndian(bs), i + n)
    BY <1>1, Zenon DEF Reader!SizedContainer
  <1> HIDE DEF bs
  <1>5. LoadUnsigned(bs) = Reader!BigEndian(bs)
    <2>1. Len(bs) \in {1, 2, 4, 8}
      BY <1>1, Zenon
    <2> QED  BY <1>1, <2>1, UnsignedIs, Zenon
  <1>6. UInt(LoadUnsigned(bs)) = LoadUnsigned(bs) /\ Small(LoadUnsigned(bs))
    BY <1>1, SizeBound, UIntIs
  <1>7. UInt(LoadUnsigned(bs)) \in Nat
    BY <1>6 DEF Small
  <1> QED  BY <1>3, <1>4, <1>5, <1>6, <1>7, Zenon DEF bs

LEMMA States ==
    /\ \A c \in CS_STR : ValueState(c) = ACS_STR_VALUE
    /\ \A c \in CS_BIN : ValueState(c) = ACS_BIN_VALUE
    /\ \A c \in CS_EXT : ValueState(c) = ACS_EXT_VALUE
    /\ \A c \in CS_STR \cup CS_BIN : c \notin CS_EXT
  BY SMT DEF ValueState, CS_STR, CS_BIN, CS_EXT

\* The states that read what a size announces.
LEMMA ValueStateIs ==
    ASSUME NEW c \in CS_SIZE
    PROVE  /\ ValueState(c) \in ACS_VALUE /\ TypeOf(ValueState(c)) = TypeOf(c)
           /\ TypeOf(c) = "ext" <=> c \in CS_EXT
           /\ c \in CS_STR \cup CS_BIN => ValueState(c) # ACS_EXT_VALUE
  <1>1. CASE c \in CS_STR
    BY <1>1, States, Types DEF ACS_VALUE, ACS_STR_VALUE, ACS_EXT_VALUE
  <1>2. CASE c \in CS_BIN
    BY <1>2, States, Types DEF ACS_VALUE, ACS_BIN_VALUE, ACS_EXT_VALUE
  <1>3. CASE c \in CS_EXT
    BY <1>3, States, Types DEF ACS_VALUE
  <1> QED  BY <1>1, <1>2, <1>3 DEF CS_SIZE

LEMMA NothingBehind ==
    ASSUME NEW s, NEW e \in Nat, NEW j \in Nat \ {0}, j - 1 <= e, e <= Len(s), s \in Seq(Byte),
           NEW c \in ACS_VALUE, c # ACS_EXT_VALUE
    PROVE  Reader!Fixed(s, e, j, 0, TypeOf(c)) = Reader!Ok(Raw(c, << >>), j)
  <1>1. Here(s, e, j, 0) /\ j + 0 - 1 = j - 1 /\ j + 0 = j
    BY DEF Here
  <1>2. SubSeq(s, j, j + 0 - 1) \in Seq(Byte) /\ Len(SubSeq(s, j, j + 0 - 1)) = 0 /\ ~(j + 0 - 1 > e)
    BY <1>1, HereIs
  <1>3. SubSeq(s, j, j + 0 - 1) = << >>
    BY <1>2
  <1>4. << >> \in Seq(Byte)
    OBVIOUS
  <1>5. Reader!Value(TypeOf(c), << >>) = Raw(c, << >>)
    BY <1>4, RawValue
  <1>6. Reader!Fixed(s, e, j, 0, TypeOf(c)) = Reader!Ok(Reader!Value(TypeOf(c), SubSeq(s, j, j + 0 - 1)), j + 0)
    BY <1>2, Zenon DEF Reader!Fixed
  <1> QED  BY <1>1, <1>3, <1>5, <1>6, Zenon

LEMMA SizeTrails ==
    ASSUME Wide, NEW s, NEW e, NEW i, NEW n, Here(s, e, i, n), n \in {1, 2, 4}, NEW c \in CS_SIZE
    PROVE  LET v == ValueTrail(c, SubSeq(s, i, i + n - 1))
           IN  /\ v > 0 => Awaited(s, e, c, n, i) = Awaited(s, e, ValueState(c), v, i + n)
               /\ v = 0 /\ c \in CS_STR \cup CS_BIN =>
                    Awaited(s, e, c, n, i) = Reader!Ok(Raw(ValueState(c), << >>), i + n)
               /\ v = 0 /\ c \in CS_EXT => Awaited(s, e, c, n, i) = Reader!Not("parse_error")
  <1> DEFINE bs == SubSeq(s, i, i + n - 1)
             v == ValueTrail(c, bs)
             m == Reader!BigEndian(bs)
             t == TypeOf(c)
  <1>1. bs \in Seq(Byte) /\ Len(bs) = n /\ ~(i + n - 1 > e)
    BY HereIs
  <1>2. Awaited(s, e, c, n, i) = Reader!Sized(s, e, i, n, t)
    BY Zenon DEF Awaited
  <1>3. Reader!Sized(s, e, i, n, t) =
          IF t # "ext" THEN Reader!Fixed(s, e, i + n, m, t)
          ELSE IF m = UINT - 1 THEN Reader!Not("parse_error")
          ELSE Reader!Fixed(s, e, i + n, m + 1, t)
    BY <1>1, Zenon DEF Reader!Sized
  <1>4. LoadUnsigned(bs) = m /\ Small(m) /\ m \in Nat
    <2> HIDE DEF bs
    <2>1. Len(bs) \in {1, 2, 4, 8}
      BY <1>1, Zenon
    <2>2. LoadUnsigned(bs) = m
      BY <1>1, <2>1, UnsignedIs, Zenon
    <2>3. Small(LoadUnsigned(bs))
      BY <1>1, SizeBound
    <2> QED  BY <2>2, <2>3 DEF Small
  <1>5. \A x : Awaited(s, e, ValueState(c), x, i + n) = Reader!Fixed(s, e, i + n, x, t)
    <2>1. ValueState(c) \notin CS_SIZE \cup CS_CONTAINER /\ TypeOf(ValueState(c)) = t
      BY ValueStateIs, Types
    <2> QED  BY <2>1, Zenon DEF Awaited
  <1> HIDE DEF bs
  <1>6. CASE c \in CS_EXT
    <2>1. v = IF m = UINT - 1 THEN 0 ELSE m + 1
      <3>1. v = UInt(UInt(LoadUnsigned(bs)) + 1)
        BY <1>6, Zenon DEF ValueTrail
      <3> QED  BY <3>1, <1>4, UIntNext
    <2>2. t = "ext"
      BY <1>6, ValueStateIs
    <2>3. c \notin CS_STR \cup CS_BIN
      BY <1>6, States
    <2> HIDE DEF v, t, m
    <2>4. v = 0 <=> m = UINT - 1
      BY <2>1, <1>4
    <2>5. v > 0 => v = m + 1 /\ m # UINT - 1
      BY <2>1
    <2> QED  BY <1>2, <1>3, <1>5, <2>2, <2>3, <2>4, <2>5, Zenon DEF v, bs
  <1>7. CASE c \notin CS_EXT
    <2>1. v = m
      <3>1. v = UInt(LoadUnsigned(bs))
        BY <1>7, Zenon DEF ValueTrail
      <3> QED  BY <3>1, <1>4, UIntIs
    <2>2. t # "ext"
      BY <1>7, ValueStateIs
    <2>3. Reader!Fixed(s, e, i + n, 0, t) = Reader!Ok(Raw(ValueState(c), << >>), i + n)
      <3>1. ValueState(c) \in ACS_VALUE /\ ValueState(c) # ACS_EXT_VALUE /\ TypeOf(ValueState(c)) = t
        BY <1>7, ValueStateIs DEF CS_SIZE
      <3>2. e \in Nat /\ i + n \in Nat \ {0} /\ (i + n) - 1 <= e /\ e <= Len(s) /\ s \in Seq(Byte)
        BY DEF Here
      <3> HIDE DEF t
      <3>4. PICK k : k = ValueState(c)
        OBVIOUS
      <3>5. PICK j : j = i + n
        OBVIOUS
      <3>6. k \in ACS_VALUE /\ k # ACS_EXT_VALUE
        BY <3>1, <3>4
      <3>7. e \in Nat /\ j \in Nat \ {0} /\ j - 1 <= e /\ e <= Len(s) /\ s \in Seq(Byte)
        BY <3>2, <3>5
      <3>3. Reader!Fixed(s, e, j, 0, TypeOf(k)) = Reader!Ok(Raw(k, << >>), j)
        BY <3>6, <3>7, NothingBehind, Zenon
      <3> QED  BY <3>1, <3>3, <3>4, <3>5, Zenon
    <2> HIDE DEF v, t, m
    <2> QED  BY <1>2, <1>3, <1>5, <1>7, <2>1, <2>2, <2>3, Zenon DEF v, bs
  <1> QED  BY <1>6, <1>7
-----------------------------------------------------------------------------
(* Containers that are open *)

\* How many objects a container of this frame waits for behind the one that is read.
Need(fr) == CASE fr.ct = "ARRAY_ITEM" -> fr.count - 1
              [] fr.ct = "MAP_KEY"    -> 2 * fr.count - 1
              [] fr.ct = "MAP_VALUE"  -> 2 * (fr.count - 1)

\* What these, the first of which is o, add to the container's items.
Content(ct, key, o, l) == CASE ct = "ARRAY_ITEM" -> Cons(o, l)
                            [] ct = "MAP_KEY"    -> Reader!Pairs(Cons(o, l))
                            [] ct = "MAP_VALUE"  -> Reader!Pairs(Cons(key, Cons(o, l)))

\* What a container at depth t - 1 is when the object that it waits for is r.
Combined(s, e, fr, it, t, r) ==
    LET rest == Many(s, e, r.next, t, Need(fr))
    IN  IF r.is # "ok" THEN r
        ELSE IF rest.is # "ok" THEN rest
        ELSE Reader!Ok(<<Empty(fr.ct)[1], Join(it.values, Content(fr.ct, it.key, r.obj, rest.obj))>>, rest.next)

LEMMA EmptyIs ==
    /\ Empty("ARRAY_ITEM")[1] = "array"
    /\ Empty("MAP_KEY")[1] = "map" /\ Empty("MAP_VALUE")[1] = "map"
  BY DEF Empty

LEMMA NeedIs ==
    ASSUME NEW fr
    PROVE  /\ fr.ct = "ARRAY_ITEM" => Need(fr) = fr.count - 1
           /\ fr.ct = "MAP_KEY" => Need(fr) = 2 * fr.count - 1
           /\ fr.ct = "MAP_VALUE" => Need(fr) = 2 * (fr.count - 1)
  BY SMT DEF Need

LEMMA ContentIs ==
    ASSUME NEW key, NEW o, NEW l
    PROVE  /\ Content("ARRAY_ITEM", key, o, l) = Cons(o, l)
           /\ Content("MAP_KEY", key, o, l) = Reader!Pairs(Cons(o, l))
           /\ Content("MAP_VALUE", key, o, l) = Reader!Pairs(Cons(key, Cons(o, l)))
  BY SMT DEF Content

LEMMA CombinedOut ==
    ASSUME NEW s, NEW e, NEW fr, NEW it, NEW t, NEW r, r.is # "ok"
    PROVE  Combined(s, e, fr, it, t, r) = r
  BY Zenon DEF Combined

\* The last item.
LEMMA LastItem ==
    ASSUME NEW s \in Seq(Byte), NEW e \in 0 .. Len(s), NEW i \in Nat \ {0}, NEW t \in Nat,
           NEW fr, fr.ct \in {"ARRAY_ITEM", "MAP_VALUE"}, fr.count = 1,
           NEW it, NEW n \in Nat, IsList(it.values, n), NEW o
    PROVE  Combined(s, e, fr, it, t, Reader!Ok(o, i)) =
             Reader!Ok(<<Empty(fr.ct)[1], Append(it.values, IF fr.ct = "ARRAY_ITEM" THEN o ELSE <<it.key, o>>)>>, i)
  <1> DEFINE r == Reader!Ok(o, i)
             v == IF fr.ct = "ARRAY_ITEM" THEN o ELSE <<it.key, o>>
  <1>1. r.is = "ok" /\ r.obj = o /\ r.next = i
    BY OutcomeIs
  <1> HIDE DEF r
  <1>2. Need(fr) = 0
    BY NeedIs
  <1>3. Many(s, e, i, t, 0) = Reader!Ok(<< >>, i)
    BY ManyNone
  <1>4. Content(fr.ct, it.key, o, << >>) = Cons(v, << >>)
    <2>1. CASE fr.ct = "ARRAY_ITEM"
      BY <2>1, ContentIs
    <2>2. CASE fr.ct = "MAP_VALUE"
      <3>1. Reader!Pairs(Cons(it.key, Cons(o, << >>))) = Cons(<<it.key, o>>, Reader!Pairs(<< >>))
        BY NoneIs, PairsBehind, 0 \in Nat
      <3>2. v = <<it.key, o>>
        BY <2>2
      <3> HIDE DEF v
      <3> QED  BY <2>2, <3>1, <3>2, PairsNone, ContentIs
    <2> QED  BY <2>1, <2>2
  <1> HIDE DEF v
  <1>5. Join(it.values, Cons(v, << >>)) = Append(it.values, v)
    <2>1. Join(Append(it.values, v), << >>) = Join(it.values, Cons(v, << >>))
      BY NoneIs, JoinAgain, 0 \in Nat
    <2>2. IsList(Append(it.values, v), n + 1)
      BY AppendIs, Zenon
    <2>4. n + 1 \in Nat
      OBVIOUS
    <2>3. Join(Append(it.values, v), << >>) = Append(it.values, v)
      BY <2>2, <2>4, JoinNone, Zenon
    <2> QED  BY <2>1, <2>3
  <1> DEFINE rest == Reader!Ok(<< >>, i)
  <1>6. rest.is = "ok" /\ rest.obj = << >> /\ rest.next = i
    BY OutcomeIs
  <1> HIDE DEF rest
  <1>7. Many(s, e, r.next, t, Need(fr)) = rest
    BY <1>1, <1>2, <1>3 DEF rest
  <1>8. Combined(s, e, fr, it, t, r) =
          Reader!Ok(<<Empty(fr.ct)[1], Join(it.values, Content(fr.ct, it.key, o, << >>))>>, i)
    BY <1>1, <1>6, <1>7, Zenon DEF Combined
  <1> QED  BY <1>4, <1>5, <1>8, Zenon DEF r, v

\* With o in front, or stored, what follows is added to the same items.
Follows(fr, it, gr, jt, o) ==
    \A q, l : IsList(l, Need(gr)) =>
        Join(it.values, Content(fr.ct, it.key, o, Cons(q, l))) =
        Join(jt.values, Content(gr.ct, jt.key, q, l))

\* What is behind an item: one more, and those behind it.
LEMMA NextItem ==
    ASSUME NEW s \in Seq(Byte), NEW e \in 0 .. Len(s), NEW i \in Nat \ {0}, NEW t \in Nat,
           NEW fr, NEW gr, NEW it, NEW jt, NEW o, Need(gr) \in Nat, Need(fr) = Need(gr) + 1,
           Empty(fr.ct)[1] = Empty(gr.ct)[1], Follows(fr, it, gr, jt, o)
    PROVE  Combined(s, e, fr, it, t, Reader!Ok(o, i)) = Combined(s, e, gr, jt, t, One(s, e, i, t))
  <1> DEFINE r == Reader!Ok(o, i)
             q == One(s, e, i, t)
             x == Many(s, e, q.next, t, Need(gr))
             rest == Many(s, e, r.next, t, Need(fr))
  <1>1. r.is = "ok" /\ r.obj = o /\ r.next = i
    BY OutcomeIs
  <1> HIDE DEF r
  <1>2. rest = IF q.is # "ok" THEN q ELSE IF x.is = "ok" THEN Reader!Ok(Cons(q.obj, x.obj), x.next) ELSE x
    <2>1. Many(s, e, i, t, Need(gr) + 1) = IF q.is # "ok" THEN q ELSE IF x.is = "ok" THEN Reader!Ok(Cons(q.obj, x.obj), x.next) ELSE x
      BY ManyNext, ZenonT(60)
    <2> QED  BY <1>1, <2>1
  <1>3. q.is = "ok" /\ x.is = "ok" => IsList(x.obj, Need(gr))
    <2>1. q.is = "ok" => q.next \in Nat /\ i < q.next
      BY ManyGood
    <2> HIDE DEF q, x
    <2>2. ASSUME q.is = "ok" PROVE Good(x, q.next, Need(gr))
      <3>1. q.next \in Nat \ {0}
        BY <2>1, <2>2
      <3> QED  BY <3>1, ManyGood DEF x
    <2> QED  BY <2>2 DEF Good
  <1>4. Combined(s, e, fr, it, t, r) =
          IF rest.is # "ok" THEN rest
          ELSE Reader!Ok(<<Empty(fr.ct)[1], Join(it.values, Content(fr.ct, it.key, o, rest.obj))>>, rest.next)
    BY <1>1, Zenon DEF Combined
  <1>5. Combined(s, e, gr, jt, t, q) =
          IF q.is # "ok" THEN q
          ELSE IF x.is # "ok" THEN x
          ELSE Reader!Ok(<<Empty(gr.ct)[1], Join(jt.values, Content(gr.ct, jt.key, q.obj, x.obj))>>, x.next)
    BY Zenon DEF Combined
  <1> HIDE DEF q, x, rest
  <1>6. CASE q.is # "ok"
    BY <1>2, <1>4, <1>5, <1>6, Zenon DEF r, q
  <1>7. CASE q.is = "ok" /\ x.is # "ok"
    BY <1>2, <1>4, <1>5, <1>7, Zenon DEF r, q
  <1>8. CASE q.is = "ok" /\ x.is = "ok"
    <2>1. rest = Reader!Ok(Cons(q.obj, x.obj), x.next)
      BY <1>2, <1>8
    <2>2. rest.is = "ok" /\ rest.obj = Cons(q.obj, x.obj) /\ rest.next = x.next
      BY <2>1, OutcomeIs
    <2>3. Join(it.values, Content(fr.ct, it.key, o, Cons(q.obj, x.obj))) =
          Join(jt.values, Content(gr.ct, jt.key, q.obj, x.obj))
      BY <1>3, <1>8 DEF Follows
    <2> QED  BY <1>4, <1>5, <1>8, <2>2, <2>3, Zenon DEF r, q
  <1> QED  BY <1>6, <1>7, <1>8

\* What q and those behind it, x, are.
Together(q, x) ==
    IF q.is # "ok" THEN q ELSE IF x.is = "ok" THEN Reader!Ok(Cons(q.obj, x.obj), x.next) ELSE x

LEMMA ManyBehind ==
    ASSUME NEW s \in Seq(Byte), NEW e \in 0 .. Len(s), NEW i \in Nat \ {0}, NEW d \in Nat, NEW n \in Nat
    PROVE  Many(s, e, i, d, n + 1) = Together(One(s, e, i, d), Many(s, e, One(s, e, i, d).next, d, n))
  BY ManyNext, ZenonT(60) DEF Together

\* Frame fr and its n items it become gr and jt when o is stored.
Grows(fr, gr, it, jt, o, n) ==
    /\ fr.count \in Nat /\ fr.count > 1 /\ gr.count = fr.count - 1
    /\ n \in Nat /\ IsList(it.values, n) /\ jt.values = Append(it.values, o)

LEMMA NextArrayItem ==
    ASSUME NEW s \in Seq(Byte), NEW e \in 0 .. Len(s), NEW i \in Nat \ {0}, NEW t \in Nat,
           NEW fr, fr.ct = "ARRAY_ITEM", NEW gr, gr.ct = "ARRAY_ITEM",
           NEW it, NEW jt, NEW o, NEW n, Grows(fr, gr, it, jt, o, n)
    PROVE  Combined(s, e, fr, it, t, Reader!Ok(o, i)) = Combined(s, e, gr, jt, t, One(s, e, i, t))
  <1>0. /\ fr.count \in Nat /\ fr.count > 1 /\ gr.count = fr.count - 1
        /\ n \in Nat /\ IsList(it.values, n) /\ jt.values = Append(it.values, o)
    BY DEF Grows
  <1> USE <1>0
  <1>1. Need(fr) = fr.count - 1 /\ Need(gr) = gr.count - 1
    BY NeedIs
  <1>2. Need(gr) \in Nat /\ Need(fr) = Need(gr) + 1
    BY <1>1
  <1>3. ASSUME NEW p1, NEW l, IsList(l, Need(gr))
        PROVE  Join(it.values, Content(fr.ct, it.key, o, Cons(p1, l))) =
               Join(jt.values, Content(gr.ct, jt.key, p1, l))
    <2>1. IsList(Cons(p1, l), 1 + Need(gr)) /\ 1 + Need(gr) \in Nat
      BY <1>2, <1>3, ConsIs
    <2>2. Join(Append(it.values, o), Cons(p1, l)) = Join(it.values, Cons(o, Cons(p1, l)))
      BY <2>1, JoinAgain
    <2> QED  BY <2>2, ContentIs
  <1>4. Empty(fr.ct)[1] = Empty(gr.ct)[1]
    OBVIOUS
  <1>5. Follows(fr, it, gr, jt, o)
    BY <1>3, Zenon DEF Follows
  <1> QED  BY <1>2, <1>4, <1>5, NextItem

LEMMA NextMapKey ==
    ASSUME NEW s \in Seq(Byte), NEW e \in 0 .. Len(s), NEW i \in Nat \ {0}, NEW t \in Nat,
           NEW fr, fr.ct = "MAP_KEY", fr.count \in Nat, fr.count > 0,
           NEW gr, gr.ct = "MAP_VALUE", gr.count = fr.count,
           NEW it, NEW jt, NEW o, jt.values = it.values, jt.key = o
    PROVE  Combined(s, e, fr, it, t, Reader!Ok(o, i)) = Combined(s, e, gr, jt, t, One(s, e, i, t))
  <1>1. Need(fr) = 2 * fr.count - 1 /\ Need(gr) = 2 * (gr.count - 1)
    BY NeedIs
  <1>2. Need(gr) \in Nat /\ Need(fr) = Need(gr) + 1
    BY <1>1
  <1>3. ASSUME NEW p1, NEW l, IsList(l, Need(gr))
        PROVE  Join(it.values, Content(fr.ct, it.key, o, Cons(p1, l))) =
               Join(jt.values, Content(gr.ct, jt.key, p1, l))
    BY ContentIs
  <1>4. Empty(fr.ct)[1] = Empty(gr.ct)[1]
    BY EmptyIs
  <1>5. Follows(fr, it, gr, jt, o)
    BY <1>3, Zenon DEF Follows
  <1> QED  BY <1>2, <1>4, <1>5, NextItem

LEMMA NextMapValue ==
    ASSUME NEW s \in Seq(Byte), NEW e \in 0 .. Len(s), NEW i \in Nat \ {0}, NEW t \in Nat,
           NEW fr, fr.ct = "MAP_VALUE", NEW gr, gr.ct = "MAP_KEY",
           NEW it, NEW jt, NEW o, NEW n, Grows(fr, gr, it, jt, <<it.key, o>>, n)
    PROVE  Combined(s, e, fr, it, t, Reader!Ok(o, i)) = Combined(s, e, gr, jt, t, One(s, e, i, t))
  <1>0. /\ fr.count \in Nat /\ fr.count > 1 /\ gr.count = fr.count - 1
        /\ n \in Nat /\ IsList(it.values, n) /\ jt.values = Append(it.values, <<it.key, o>>)
    BY DEF Grows
  <1> USE <1>0
  <1>1. Need(fr) = 2 * (fr.count - 1) /\ Need(gr) = 2 * gr.count - 1
    BY NeedIs
  <1>2. Need(gr) \in Nat /\ Need(fr) = Need(gr) + 1
    BY <1>1
  <1>3. ASSUME NEW p1, NEW l, IsList(l, Need(gr))
        PROVE  Join(it.values, Content(fr.ct, it.key, o, Cons(p1, l))) =
               Join(jt.values, Content(gr.ct, jt.key, p1, l))
    <2>1. IsList(Cons(p1, l), 1 + Need(gr)) /\ 1 + Need(gr) \in Nat
      BY <1>2, <1>3, ConsIs
    <2>2. Reader!Pairs(Cons(it.key, Cons(o, Cons(p1, l)))) = Cons(<<it.key, o>>, Reader!Pairs(Cons(p1, l)))
      BY <2>1, PairsBehind, Zenon
    <2>3. PICK h \in Nat : IsList(Reader!Pairs(Cons(p1, l)), h)
      BY <2>1, PairsAre
    <2>4. Join(Append(it.values, <<it.key, o>>), Reader!Pairs(Cons(p1, l))) =
          Join(it.values, Cons(<<it.key, o>>, Reader!Pairs(Cons(p1, l))))
      BY <2>3, JoinAgain
    <2>5. Content(fr.ct, it.key, o, Cons(p1, l)) = Reader!Pairs(Cons(it.key, Cons(o, Cons(p1, l))))
      BY ContentIs
    <2>6. Content(gr.ct, jt.key, p1, l) = Reader!Pairs(Cons(p1, l))
      BY ContentIs
    <2> QED  BY <2>2, <2>4, <2>5, <2>6, Zenon
  <1>4. Empty(fr.ct)[1] = Empty(gr.ct)[1]
    BY EmptyIs
  <1>5. Follows(fr, it, gr, jt, o)
    BY <1>3, Zenon DEF Follows
  <1> QED  BY <1>2, <1>4, <1>5, NextItem

\* A container that opens.
LEMMA OpensEmpty ==
    ASSUME NEW s \in Seq(Byte), NEW e \in 0 .. Len(s), NEW i \in Nat \ {0}, NEW t \in Nat, t < STACK_SIZE,
           NEW ct \in {"ARRAY_ITEM", "MAP_KEY"}
    PROVE  Reader!Whole(Reader!Opens(Empty(ct)[1], 0, i), t, Reader!Series(s, e)[e]) = Reader!Ok(Empty(ct), i)
  <1> DEFINE f == Reader!Opens(Empty(ct)[1], 0, i)
             F == Reader!Series(s, e)[e]
  <1>1. f.is = "open" /\ f.type = Empty(ct)[1] /\ f.n = 0 /\ f.next = i
    BY OutcomeIs
  <1> HIDE DEF f
  <1>2. ~(t >= STACK_SIZE) /\ (IF f.type = "map" THEN 2 * f.n ELSE f.n) = 0
    BY <1>1, TemplateConstants
  <1>3. t + 1 \in Nat
    OBVIOUS
  <1>4. F[i][t + 1][0] = Reader!Ok(<< >>, i)
    BY <1>3, ManyNone, Zenon DEF Many
  <1>5. Reader!Whole(f, t, F) = Reader!Made(Empty(ct)[1], Reader!Ok(<< >>, i))
    BY <1>1, <1>2, <1>4, Zenon DEF Reader!Whole
  <1> DEFINE r == Reader!Ok(<< >>, i)
  <1>6. r.is = "ok" /\ r.obj = << >> /\ r.next = i
    BY OutcomeIs
  <1> HIDE DEF r
  <1>7. Reader!Made(Empty(ct)[1], r) = Reader!Ok(<<Empty(ct)[1], << >> >>, i)
    BY <1>6, PairsNone, Zenon DEF Reader!Made
  <1>8. <<Empty(ct)[1], << >> >> = Empty(ct)
    BY DEF Empty
  <1> QED  BY <1>5, <1>7, <1>8, Zenon DEF f, r

LEMMA OpensSome ==
    ASSUME NEW s \in Seq(Byte), NEW e \in 0 .. Len(s), NEW i \in Nat \ {0}, NEW t \in Nat, t < STACK_SIZE,
           NEW ct \in {"ARRAY_ITEM", "MAP_KEY"}, NEW n \in Nat \ {0},
           NEW fr, fr.ct = ct, fr.count = n, NEW it, it.values = << >>
    PROVE  Reader!Whole(Reader!Opens(Empty(ct)[1], n, i), t, Reader!Series(s, e)[e]) =
             Combined(s, e, fr, it, t + 1, One(s, e, i, t + 1))
  <1> DEFINE f == Reader!Opens(Empty(ct)[1], n, i)
             F == Reader!Series(s, e)[e]
             q == One(s, e, i, t + 1)
             x == Many(s, e, q.next, t + 1, Need(fr))
             m == IF f.type = "map" THEN 2 * f.n ELSE f.n
  <1>1. f.is = "open" /\ f.type = Empty(ct)[1] /\ f.n = n /\ f.next = i
    BY OutcomeIs
  <1> HIDE DEF f
  <1>2. m = Need(fr) + 1 /\ Need(fr) \in Nat
    <2>1. CASE ct = "ARRAY_ITEM"
      <3>1. m = n /\ Need(fr) = n - 1
        BY <1>1, <2>1, EmptyIs, NeedIs
      <3> QED  BY <3>1
    <2>2. CASE ct = "MAP_KEY"
      <3>1. m = 2 * n /\ Need(fr) = 2 * n - 1
        BY <1>1, <2>2, EmptyIs, NeedIs
      <3> QED  BY <3>1
    <2> QED  BY <2>1, <2>2
  <1>3. t + 1 \in Nat /\ ~(t >= STACK_SIZE)
    BY TemplateConstants
  <1>4. F[i][t + 1][m] = IF q.is # "ok" THEN q ELSE IF x.is = "ok" THEN Reader!Ok(Cons(q.obj, x.obj), x.next) ELSE x
    <2>1. F[i][t + 1][m] = Many(s, e, i, t + 1, Need(fr) + 1)
      BY <1>2, Zenon DEF Many
    <2>2. Many(s, e, i, t + 1, Need(fr) + 1) =
            IF q.is # "ok" THEN q ELSE IF x.is = "ok" THEN Reader!Ok(Cons(q.obj, x.obj), x.next) ELSE x
      <3>1. Need(fr) \in Nat /\ t + 1 \in Nat
        BY <1>2, <1>3
      <3>2. Many(s, e, i, t + 1, Need(fr) + 1) = Together(q, x)
        <4>1. PICK d \in Nat, k \in Nat : d = t + 1 /\ k = Need(fr)
          BY <3>1
        <4>2. Many(s, e, i, d, k + 1) = Together(One(s, e, i, d), Many(s, e, One(s, e, i, d).next, d, k))
          <5>1. s \in Seq(Byte) /\ e \in 0 .. Len(s) /\ i \in Nat \ {0} /\ d \in Nat /\ k \in Nat
            BY <4>1
          <5> QED  BY ONLY <5>1, ManyBehind
        <4> QED  BY <4>1, <4>2, Zenon
      <3> QED  BY <3>2, Zenon DEF Together
    <2> QED  BY <2>1, <2>2
  <1>5. Reader!Whole(f, t, F) = Reader!Made(Empty(ct)[1], F[i][t + 1][m])
    BY <1>1, <1>3, Zenon DEF Reader!Whole
  <1>6. q.is = "ok" /\ x.is = "ok" => IsList(x.obj, Need(fr))
    <2>1. q.is = "ok" => q.next \in Nat /\ i < q.next
      BY <1>3, ManyGood
    <2> HIDE DEF q, x
    <2>2. ASSUME q.is = "ok" PROVE Good(x, q.next, Need(fr))
      <3>1. q.next \in Nat \ {0}
        BY <2>1, <2>2
      <3> QED  BY <1>2, <1>3, <3>1, ManyGood DEF x
    <2> QED  BY <2>2 DEF Good
  <1>7. Combined(s, e, fr, it, t + 1, q) =
          IF q.is # "ok" THEN q
          ELSE IF x.is # "ok" THEN x
          ELSE Reader!Ok(<<Empty(ct)[1], Join(<< >>, Content(ct, it.key, q.obj, x.obj))>>, x.next)
    BY Zenon DEF Combined
  <1> HIDE DEF q, x, F, m
  <1>8. CASE q.is # "ok"
    <2>1. Reader!Made(Empty(ct)[1], q) = q
      BY <1>8, Zenon DEF Reader!Made
    <2> QED  BY <1>4, <1>5, <1>7, <1>8, <2>1, Zenon DEF f, q, F
  <1>9. CASE q.is = "ok" /\ x.is # "ok"
    <2>1. Reader!Made(Empty(ct)[1], x) = x
      BY <1>9, Zenon DEF Reader!Made
    <2> QED  BY <1>4, <1>5, <1>7, <1>9, <2>1, Zenon DEF f, q, F
  <1>10. CASE q.is = "ok" /\ x.is = "ok"
    <2>1. IsList(Cons(q.obj, x.obj), 1 + Need(fr)) /\ 1 + Need(fr) \in Nat
      BY <1>2, <1>6, <1>10, ConsIs
    <2> DEFINE r == Reader!Ok(Cons(q.obj, x.obj), x.next)
    <2>2. r.is = "ok" /\ r.obj = Cons(q.obj, x.obj) /\ r.next = x.next
      BY OutcomeIs
    <2>3. F[i][t + 1][m] = r
      BY <1>4, <1>10
    <2> HIDE DEF r
    <2>4. Reader!Made(Empty(ct)[1], r) = Reader!Ok(<<Empty(ct)[1], Join(<< >>, Content(ct, it.key, q.obj, x.obj))>>, x.next)
      <3>1. CASE ct = "ARRAY_ITEM"
        <4>1. Join(<< >>, Cons(q.obj, x.obj)) = Cons(q.obj, x.obj)
          BY <2>1, JoinNone, Zenon
        <4>2. Content(ct, it.key, q.obj, x.obj) = Cons(q.obj, x.obj)
          BY <3>1, ContentIs
        <4>3. Empty(ct)[1] # "map"
          BY <3>1, EmptyIs
        <4> QED  BY <2>2, <4>1, <4>2, <4>3, Zenon DEF Reader!Made
      <3>2. CASE ct = "MAP_KEY"
        <4>1. PICK h \in Nat : IsList(Reader!Pairs(Cons(q.obj, x.obj)), h)
          BY <2>1, PairsAre
        <4>2. Join(<< >>, Reader!Pairs(Cons(q.obj, x.obj))) = Reader!Pairs(Cons(q.obj, x.obj))
          BY <4>1, JoinNone, Zenon
        <4>3. Content(ct, it.key, q.obj, x.obj) = Reader!Pairs(Cons(q.obj, x.obj))
          BY <3>2, ContentIs
        <4>4. Empty(ct)[1] = "map"
          BY <3>2, EmptyIs
        <4> QED  BY <2>2, <4>2, <4>3, <4>4, Zenon DEF Reader!Made
      <3> QED  BY <3>1, <3>2
    <2> QED  BY <1>5, <1>7, <1>10, <2>3, <2>4, Zenon DEF f, q, F
  <1> QED  BY <1>8, <1>9, <1>10
-----------------------------------------------------------------------------
(* The message, while containers are open *)

\* c[t] is what begins at the place where the container at depth t is read: the message is
\* c[0], and each container is what it is when its item is what is read above it.
Chain(c, s, e, b, st, it, r) ==
    /\ c[0] = One(s, e, b, 0)
    /\ c[Len(st)] = r
    /\ \A t \in 1 .. Len(st) : c[t - 1] = Combined(s, e, st[t], it[t], t, c[t])

\* The message at index b is what it is when the object that is read next is r.
Reads(s, e, b, st, it, r) == \E c : Chain(c, s, e, b, st, it, r)

\* Frames and items are the same below depth n.
Below(st, it, sf, jt, n) == \A t \in 1 .. n : sf[t] = st[t] /\ jt[t] = it[t]

LEMMA ReadsFirst ==
    ASSUME NEW s, NEW e, NEW b, NEW st, Len(st) = 0, NEW it
    PROVE  Reads(s, e, b, st, it, One(s, e, b, 0))
  <1> DEFINE c == [t \in {0} |-> One(s, e, b, 0)]
  <1>1. c[0] = One(s, e, b, 0)
    OBVIOUS
  <1> HIDE DEF c
  <1>2. Chain(c, s, e, b, st, it, One(s, e, b, 0))
    BY <1>1 DEF Chain
  <1> QED  BY <1>2 DEF Reads

LEMMA ReadsAll ==
    ASSUME NEW s, NEW e, NEW b, NEW st, Len(st) = 0, NEW it, NEW r, Reads(s, e, b, st, it, r)
    PROVE  One(s, e, b, 0) = r
  BY DEF Reads, Chain

\* What is no object makes no container, and no message.
LEMMA ReadsOut ==
    ASSUME NEW s, NEW e, NEW b, NEW st, Len(st) \in Nat, NEW it, NEW r, r.is # "ok",
           Reads(s, e, b, st, it, r)
    PROVE  One(s, e, b, 0) = r
  <1> DEFINE n == Len(st)
  <1>1. PICK c : Chain(c, s, e, b, st, it, r)
    BY DEF Reads
  <1> DEFINE S == {k \in Nat : k <= n => c[n - k] = r}
  <1>2. c[n] = r /\ c[0] = One(s, e, b, 0)
    BY <1>1 DEF Chain
  <1>3. \A t \in 1 .. n : c[t - 1] = Combined(s, e, st[t], it[t], t, c[t])
    BY <1>1 DEF Chain
  <1>4. n \in Nat
    OBVIOUS
  <1> HIDE DEF n
  <1>5. 0 \in S
    BY <1>2, <1>4
  <1>6. ASSUME NEW k \in Nat, k \in S PROVE k + 1 \in S
    <2> SUFFICES ASSUME k + 1 <= n PROVE c[n - (k + 1)] = r
      OBVIOUS
    <2>1. n - k \in 1 .. n /\ (n - k) - 1 = n - (k + 1) /\ k <= n
      BY <1>4
    <2>2. c[n - k] = r
      BY <1>6, <2>1
    <2> DEFINE t == n - k
    <2>3. c[t - 1] = Combined(s, e, st[t], it[t], t, c[t])
      BY <1>3, <2>1
    <2>4. Combined(s, e, st[t], it[t], t, r) = r
      BY CombinedOut
    <2> QED  BY <2>1, <2>2, <2>3, <2>4
  <1> HIDE DEF S
  <1>7. n \in S
    BY <1>4, <1>5, <1>6, Induction
  <1>8. c[n - n] = r /\ n - n = 0
    BY <1>4, <1>7 DEF S
  <1> QED  BY <1>2, <1>8

\* A container opens.
LEMMA ReadsDeeper ==
    ASSUME NEW s, NEW e, NEW b, NEW st, NEW it, NEW r, Reads(s, e, b, st, it, r),
           NEW n \in Nat, Len(st) = n, NEW sf, NEW jt, Len(sf) = n + 1, Below(st, it, sf, jt, n),
           NEW q, r = Combined(s, e, sf[n + 1], jt[n + 1], n + 1, q)
    PROVE  Reads(s, e, b, sf, jt, q)
  <1>1. PICK c : Chain(c, s, e, b, st, it, r)
    BY DEF Reads
  <1> DEFINE d == [t \in 0 .. n + 1 |-> IF t = n + 1 THEN q ELSE c[t]]
  <1>2. d[n + 1] = q /\ \A t \in 0 .. n : d[t] = c[t]
    OBVIOUS
  <1> HIDE DEF d
  <1>3. d[0] = One(s, e, b, 0)
    BY <1>1, <1>2 DEF Chain
  <1>4. ASSUME NEW t \in 1 .. n + 1 PROVE d[t - 1] = Combined(s, e, sf[t], jt[t], t, d[t])
    <2>1. CASE t = n + 1
      <3>1. t - 1 = n /\ n \in 0 .. n
        BY <2>1
      <3>2. d[t - 1] = r
        BY <1>1, <1>2, <3>1 DEF Chain
      <3> QED  BY <1>2, <2>1, <3>2
    <2>2. CASE t # n + 1
      <3>1. t \in 1 .. n /\ t \in 0 .. n /\ t - 1 \in 0 .. n
        BY <2>2
      <3>2. c[t - 1] = Combined(s, e, st[t], it[t], t, c[t])
        BY <1>1, <3>1 DEF Chain
      <3> QED  BY <1>2, <3>1, <3>2 DEF Below
    <2> QED  BY <2>1, <2>2
  <1>5. Chain(d, s, e, b, sf, jt, q)
    BY <1>2, <1>3, <1>4 DEF Chain
  <1> QED  BY <1>5 DEF Reads

\* A container is complete.
LEMMA ReadsUp ==
    ASSUME NEW s, NEW e, NEW b, NEW st, NEW it, NEW r, Reads(s, e, b, st, it, r),
           NEW n \in Nat, Len(st) = n + 1, NEW sf, NEW jt, Len(sf) = n, Below(st, it, sf, jt, n),
           NEW q, q = Combined(s, e, st[n + 1], it[n + 1], n + 1, r)
    PROVE  Reads(s, e, b, sf, jt, q)
  <1>1. PICK c : Chain(c, s, e, b, st, it, r)
    BY DEF Reads
  <1>2. c[n] = q
    <2>1. n + 1 \in 1 .. n + 1 /\ (n + 1) - 1 = n
      OBVIOUS
    <2>2. c[(n + 1) - 1] = Combined(s, e, st[n + 1], it[n + 1], n + 1, c[n + 1])
      BY <1>1, <2>1 DEF Chain
    <2>3. c[n + 1] = r
      BY <1>1 DEF Chain
    <2> QED  BY <2>1, <2>2, <2>3
  <1>3. ASSUME NEW t \in 1 .. n PROVE c[t - 1] = Combined(s, e, sf[t], jt[t], t, c[t])
    <2>1. t \in 1 .. n + 1
      OBVIOUS
    <2>2. c[t - 1] = Combined(s, e, st[t], it[t], t, c[t])
      BY <1>1, <2>1 DEF Chain
    <2> QED  BY <2>2 DEF Below
  <1>4. Chain(c, s, e, b, sf, jt, q)
    BY <1>1, <1>2, <1>3 DEF Chain
  <1> QED  BY <1>4 DEF Reads

\* An item is stored, and the next one is read.
LEMMA ReadsOn ==
    ASSUME NEW s, NEW e, NEW b, NEW st, NEW it, NEW r, Reads(s, e, b, st, it, r),
           NEW n \in Nat, Len(st) = n + 1, NEW sf, NEW jt, Len(sf) = n + 1, Below(st, it, sf, jt, n),
           NEW q, Combined(s, e, st[n + 1], it[n + 1], n + 1, r) =
                  Combined(s, e, sf[n + 1], jt[n + 1], n + 1, q)
    PROVE  Reads(s, e, b, sf, jt, q)
  <1>1. PICK m : m = Combined(s, e, st[n + 1], it[n + 1], n + 1, r)
    OBVIOUS
  <1>2. PICK c : Chain(c, s, e, b, st, it, r)
    BY DEF Reads
  <1> DEFINE d == [t \in 0 .. n + 1 |-> IF t = n + 1 THEN q ELSE c[t]]
  <1>3. d[n + 1] = q /\ \A t \in 0 .. n : d[t] = c[t]
    OBVIOUS
  <1> HIDE DEF d
  <1>4. c[n] = m
    <2>1. n + 1 \in 1 .. n + 1 /\ (n + 1) - 1 = n
      OBVIOUS
    <2>2. c[(n + 1) - 1] = Combined(s, e, st[n + 1], it[n + 1], n + 1, c[n + 1])
      BY <1>2, <2>1 DEF Chain
    <2>3. c[n + 1] = r
      BY <1>2 DEF Chain
    <2> QED  BY <1>1, <2>1, <2>2, <2>3
  <1>5. d[0] = One(s, e, b, 0)
    BY <1>2, <1>3 DEF Chain
  <1>6. ASSUME NEW t \in 1 .. n + 1 PROVE d[t - 1] = Combined(s, e, sf[t], jt[t], t, d[t])
    <2>1. CASE t = n + 1
      <3>1. t - 1 = n /\ n \in 0 .. n
        BY <2>1
      <3>2. d[t - 1] = m
        BY <1>3, <1>4, <3>1
      <3> QED  BY <1>1, <1>3, <2>1, <3>2
    <2>2. CASE t # n + 1
      <3>1. t \in 1 .. n /\ t \in 0 .. n /\ t - 1 \in 0 .. n /\ t \in 1 .. n + 1
        BY <2>2
      <3>2. c[t - 1] = Combined(s, e, st[t], it[t], t, c[t])
        BY <1>2, <3>1 DEF Chain
      <3> QED  BY <1>3, <3>1, <3>2 DEF Below
    <2> QED  BY <2>1, <2>2
  <1>7. Chain(d, s, e, b, sf, jt, q)
    BY <1>3, <1>5, <1>6 DEF Chain
  <1> QED  BY <1>7 DEF Reads
-----------------------------------------------------------------------------
(* The parser's place in the message *)

\* What is read when the trail that state c waits for begins at index i, in t containers.
Resumed(s, e, c, n, i, t) == Reader!Whole(Awaited(s, e, c, n, i), t, Reader!Series(s, e)[e])

Place == IF pc = "idle" THEN off ELSE p

\* The object that the parser reads next, when the bytes up to a are there; or has read.
Current(a) ==
    IF pc = "push" THEN Reader!Ok(obj, p + 2)
    ELSE IF pc = "done" THEN Reader!Ok(obj, off + 1)
    ELSE IF pc = "header" \/ (pc = "idle" /\ cs = CS_HEADER) THEN One(stream, a, Place + 1, top)
    ELSE Resumed(stream, a, cs, trail, Place + 1, top)

InMessage == \A a \in arrived .. Len(stream) : Reads(stream, a, start + 1, stack, items, Current(a))

ItemsAre ==
    /\ IsList(items, top)
    /\ \A t \in 1 .. top : /\ items[t] = [values |-> items[t].values, key |-> items[t].key]
                           /\ IsList(items[t].values, stack[t].size)

Widths ==
    /\ Waits /\ cs \in CS_UINT \cup CS_INT => trail \in {1, 2, 4, 8}
    /\ pc = "trail" => cs # CS_HEADER

ReaderNow == InMessage /\ ItemsAre /\ Widths

\* A call runs, or can be followed by one that goes on.
Alive == pc # "idle" \/ ret \in {"success", "continue"}

StepReads ==
    /\ Alive' => ReaderNow'
    /\ pc' = "idle" => /\ ret' # "success"
                       /\ ret' = "continue" => Reader!Reading.is = "more"
                       /\ ret' = "parse_error" => Reader!Reading.is = "parse_error"
    /\ pc' = "done" => Len(stack') = 0 /\ ret' = "success"

LEMMA Ground ==
    ASSUME IInv
    PROVE  /\ stream \in Seq(Byte) /\ Len(stream) \in Nat
           /\ arrived \in Nat /\ arrived <= Len(stream) /\ arrived \in arrived .. Len(stream)
           /\ start \in Nat /\ off \in Nat /\ p \in Nat
           /\ stack \in Seq(Frame) /\ top \in Nat /\ Len(stack) = top
           /\ \A a \in arrived .. Len(stream) : a \in Nat /\ a \in 0 .. Len(stream) /\ arrived <= a
  <1>1. stream \in Seq(Byte) /\ arrived \in 0 .. Len(stream) /\ stack \in Seq(Frame)
        /\ start \in Nat /\ off \in Nat /\ p \in Nat
    BY TemplateConstants DEF IInv, TypeOK
  <1> QED  BY <1>1 DEF top

LEMMA ReadingIs == Reader!Reading = One(stream, arrived, start + 1, 0)
  BY ReadIs DEF Reader!Reading

LEMMA NothingThere ==
    ASSUME NEW s, NEW e, NEW i, i > e, NEW t
    PROVE  One(s, e, i, t).is = "more"
  <1> DEFINE m == Reader!Not("more")
  <1>1. m.is = "more"
    BY OutcomeIs
  <1>2. Reader!Front(s, e, i) = m
    BY NoFront
  <1> HIDE DEF m
  <1>3. Reader!Whole(m, t, Reader!Series(s, e)[e]) = m
    BY <1>1, Zenon DEF Reader!Whole
  <1> QED  BY <1>1, <1>2, <1>3, Zenon DEF One

LEMMA OutReading ==
    ASSUME IInv, NEW st, Len(st) \in Nat, NEW it, NEW r, r.is # "ok",
           Reads(stream, arrived, start + 1, st, it, r)
    PROVE  Reader!Reading.is = r.is
  BY ReadsOut, ReadingIs

\* The parser goes on to another header.
LEMMA HeaderAgainReads ==
    ASSUME IInv, UNCHANGED <<stream, arrived, start>>, NEW q \in Nat, HeaderAgain(q),
           Len(stack') \in Nat, ItemsAre',
           \A a \in arrived .. Len(stream) :
              Reads(stream, a, start + 1, stack', items', One(stream, a, q + 2, Len(stack')))
    PROVE  StepReads
  <1>1. \/ pc' = "header" /\ p' = q + 1 /\ cs' = CS_HEADER
        \/ pc' = "idle" /\ off' = q + 1 /\ ret' = "continue" /\ q + 1 = arrived /\ cs' = CS_HEADER
    BY DEF HeaderAgain, End, Goto
  <1>2. (q + 1) + 1 = q + 2
    OBVIOUS
  <1>3. Widths'
    BY <1>1 DEF Widths, Waits
  <1>4. \A a : Current(a)' = One(stream', a, q + 2, Len(stack'))
    BY <1>1, <1>2, Zenon DEF Current, Place, top
  <1>5. InMessage'
    BY <1>4 DEF InMessage
  <1>6. ASSUME pc' = "idle" PROVE ret' = "continue" /\ Reader!Reading.is = "more"
    <2>1. q + 1 = arrived /\ ret' = "continue"
      BY <1>1, <1>6
    <2>2. q + 2 > arrived
      BY <2>1
    <2> DEFINE r == One(stream, arrived, q + 2, Len(stack'))
    <2>3. r.is = "more"
      BY <2>2, NothingThere
    <2>4. Reads(stream, arrived, start + 1, stack', items', r)
      BY Ground
    <2> HIDE DEF r
    <2>5. Reader!Reading.is = r.is
      BY <2>3, <2>4, ReadsOut, ReadingIs
    <2> QED  BY <2>1, <2>3, <2>5
  <1> QED  BY <1>1, <1>3, <1>5, <1>6 DEF StepReads, ReaderNow

\* An object is read.
LEMMA ValueReads ==
    ASSUME IInv, UNCHANGED <<stream, arrived, start, stack, items>>, NEW q \in Nat, ItemsAre,
           NEW o, Goto("push", q), obj' = o,
           \A a \in arrived .. Len(stream) : Reads(stream, a, start + 1, stack, items, Reader!Ok(o, q + 2))
    PROVE  StepReads
  <1>1. pc' = "push" /\ p' = q
    BY DEF Goto
  <1>2. Widths' /\ ItemsAre'
    BY <1>1 DEF Widths, Waits, ItemsAre, top
  <1>3. \A a : Current(a)' = Reader!Ok(o, q + 2)
    BY <1>1, Zenon DEF Current
  <1>4. InMessage'
    BY <1>3 DEF InMessage
  <1> QED  BY <1>1, <1>2, <1>4 DEF StepReads, ReaderNow

\* What trails a header is awaited.
LEMMA AwaitReads ==
    ASSUME IInv, UNCHANGED <<stream, arrived, start>>, NEW q \in Nat, ItemsAre,
           NEW c, NEW n, Await(c, n, q), c # CS_HEADER, c \in CS_UINT \cup CS_INT => n \in {1, 2, 4, 8},
           \A a \in arrived .. Len(stream) :
              Reads(stream, a, start + 1, stack, items, Resumed(stream, a, c, n, q + 2, top))
    PROVE  StepReads
  <1>1. pc' = "trail" /\ p' = q + 1 /\ cs' = c /\ trail' = n /\ UNCHANGED <<stack, items>>
    BY DEF Await, Goto, open
  <1>2. (q + 1) + 1 = q + 2
    OBVIOUS
  <1>3. Widths' /\ ItemsAre'
    BY <1>1 DEF Widths, Waits, ItemsAre, top
  <1>4. \A a : Current(a)' = Resumed(stream, a, c, n, q + 2, top)
    BY <1>1, <1>2, Zenon DEF Current, Place, top
  <1>5. InMessage'
    BY <1>1, <1>4 DEF InMessage
  <1> QED  BY <1>1, <1>3, <1>5 DEF StepReads, ReaderNow

LEMMA FailReads ==
    ASSUME IInv, NEW r \in {"parse_error", "nomem"}, NEW q, Fail(r, q),
           r = "parse_error" => Reads(stream, arrived, start + 1, stack, items, Reader!Not("parse_error"))
    PROVE  StepReads
  <1>1. pc' = "idle" /\ ret' = r
    BY DEF Fail, End
  <1>2. ASSUME r = "parse_error" PROVE Reader!Reading.is = "parse_error"
    <2> DEFINE m == Reader!Not("parse_error")
    <2>1. m.is = "parse_error"
      BY OutcomeIs
    <2>2. Reads(stream, arrived, start + 1, stack, items, m)
      BY <1>2
    <2> HIDE DEF m
    <2>3. Len(stack) \in Nat
      BY Ground
    <2>4. Reader!Reading.is = m.is
      BY <2>1, <2>2, <2>3, ReadsOut, ReadingIs
    <2> QED  BY <2>1, <2>4
  <1> QED  BY <1>1, <1>2 DEF StepReads, Alive
-----------------------------------------------------------------------------
(* The steps of the parser *)

\* Item x is behind the n of list a.
Behind(b, a, n, x) == b[n + 1] = x /\ \A j \in 1 .. n : b[j] = a[j]

LEMMA AppendAt ==
    ASSUME NEW n \in Nat, NEW a, IsList(a, n), NEW x
    PROVE  Behind(Append(a, x), a, n, x)
  <1> DEFINE U == {a[j] : j \in 1 .. n} \cup {x}
  <1>1. a \in Seq(U) /\ Len(a) = n
    BY ListIn, \A j \in 1 .. n : a[j] \in U
  <1>2. x \in U
    OBVIOUS
  <1> HIDE DEF U
  <1> QED  BY <1>1, <1>2 DEF Behind

\* A frame and its items are added.
LEMMA ItemsMore ==
    ASSUME IInv, ItemsAre, NEW fr \in Frame, fr.size = 0, stack' = Append(stack, fr),
           NEW it, it = [values |-> << >>, key |-> NIL], items' = Append(items, it)
    PROVE  /\ ItemsAre' /\ Len(stack') = top + 1 /\ stack'[top + 1] = fr /\ items'[top + 1] = it
           /\ Below(stack, items, stack', items', top)
  <1>1. stack \in Seq(Frame) /\ top \in Nat /\ Len(stack) = top
    BY Ground
  <1>2. /\ stack' \in Seq(Frame) /\ Len(stack') = top + 1 /\ stack'[top + 1] = fr
        /\ \A t \in 1 .. top : stack'[t] = stack[t]
    BY <1>1
  <1>3. /\ IsList(items', top + 1) /\ items'[top + 1] = it
        /\ \A t \in 1 .. top : items'[t] = items[t]
    <2>1. IsList(items, top) /\ top \in Nat
      BY <1>1 DEF ItemsAre
    <2>2. IsList(Append(items, it), top + 1)
      BY <2>1, AppendIs, Zenon
    <2>3. items'[top + 1] = it /\ \A t \in 1 .. top : items'[t] = items[t]
      <3>1. Behind(Append(items, it), items, top, it)
        BY <2>1, AppendAt
      <3> QED  BY <3>1, Zenon DEF Behind
    <2> QED  BY <2>2, <2>3
  <1>4. it.values = << >> /\ it.key = NIL
    OBVIOUS
  <1>5. ASSUME NEW t \in 1 .. top + 1
        PROVE  /\ items'[t] = [values |-> items'[t].values, key |-> items'[t].key]
               /\ IsList(items'[t].values, stack'[t].size)
    <2>1. CASE t = top + 1
      BY <2>1, <1>2, <1>3, <1>4, NoneIs
    <2>2. CASE t # top + 1
      <3>1. t \in 1 .. top
        BY <1>1, <2>2
      <3> QED  BY <3>1, <1>2, <1>3 DEF ItemsAre
    <2> QED  BY <2>1, <2>2
  <1>6. top' = top + 1
    BY <1>2 DEF top
  <1> QED  BY <1>2, <1>3, <1>5, <1>6 DEF ItemsAre, Below

LEMMA StartReads ==
    ASSUME IInv, UNCHANGED <<stream, arrived, start>>, NEW q \in Nat, ItemsAre,
           NEW ct \in {"ARRAY_ITEM", "MAP_KEY"}, NEW n \in Nat, Start(ct, n, q),
           \A a \in arrived .. Len(stream) :
              Reads(stream, a, start + 1, stack, items,
                    Reader!Whole(Reader!Opens(Empty(ct)[1], n, q + 2), top, Reader!Series(stream, a)[a]))
    PROVE  StepReads
  <1>1. stream \in Seq(Byte) /\ top \in Nat /\ q + 2 \in Nat \ {0} /\ n \in Nat
        /\ Len(stack) = top /\ \A a \in arrived .. Len(stream) : a \in 0 .. Len(stream)
    BY Ground
  <1>2. CASE n = 0 /\ top < STACK_SIZE /\ Goto("push", q) /\ obj' = Empty(ct) /\ UNCHANGED open
    <2>1. UNCHANGED <<stack, items>>
      BY <1>2 DEF open
    <2>2. ASSUME NEW a \in arrived .. Len(stream)
          PROVE  Reads(stream, a, start + 1, stack, items, Reader!Ok(Empty(ct), q + 2))
      <3>1. Reader!Whole(Reader!Opens(Empty(ct)[1], 0, q + 2), top, Reader!Series(stream, a)[a])
              = Reader!Ok(Empty(ct), q + 2)
        BY <1>1, <1>2, OpensEmpty, ZenonT(60)
      <3> QED  BY <1>2, <3>1
    <2>3. \E o : Goto("push", q) /\ obj' = o /\ o = Empty(ct)
      BY <1>2
    <2>4. PICK o : o = Empty(ct)
      OBVIOUS
    <2>5. \A a \in arrived .. Len(stream) : Reads(stream, a, start + 1, stack, items, Reader!Ok(o, q + 2))
      BY <2>2, <2>4
    <2>6. Goto("push", q) /\ obj' = o
      BY <1>2, <2>4
    <2> QED  BY <2>1, <2>5, <2>6, ValueReads
  <1>3. CASE /\ n > 0 /\ top < STACK_SIZE /\ HeaderAgain(q)
             /\ stack' = Append(stack, [count |-> n, ct |-> ct, size |-> 0, slots |-> n])
             /\ items' = Append(items, [values |-> << >>, key |-> NIL])
    <2>1. PICK fr : fr = [count |-> n, ct |-> ct, size |-> 0, slots |-> n]
      OBVIOUS
    <2>2. PICK it : it = [values |-> << >>, key |-> NIL]
      OBVIOUS
    <2>3. fr \in Frame /\ fr.size = 0 /\ fr.ct = ct /\ fr.count = n /\ it.values = << >>
      BY <2>1, <2>2 DEF Frame, ContainerType
    <2>4. /\ ItemsAre' /\ Len(stack') = top + 1 /\ stack'[top + 1] = fr /\ items'[top + 1] = it
          /\ Below(stack, items, stack', items', top)
      BY <1>3, <2>1, <2>2, <2>3, ItemsMore
    <2>5. ASSUME NEW a \in arrived .. Len(stream)
          PROVE  Reads(stream, a, start + 1, stack', items', One(stream, a, q + 2, Len(stack')))
      <3>1. PICK r : r = Reader!Whole(Reader!Opens(Empty(ct)[1], n, q + 2), top, Reader!Series(stream, a)[a])
        OBVIOUS
      <3>2. Reads(stream, a, start + 1, stack, items, r)
        BY <3>1
      <3>3. PICK m : m = One(stream, a, q + 2, top + 1)
        OBVIOUS
      <3>4. r = Combined(stream, a, fr, it, top + 1, m)
        <4>1. /\ stream \in Seq(Byte) /\ a \in 0 .. Len(stream) /\ q + 2 \in Nat \ {0}
              /\ top \in Nat /\ top < STACK_SIZE /\ n \in Nat \ {0}
          BY <1>1, <1>3
        <4>2. Reader!Whole(Reader!Opens(Empty(ct)[1], n, q + 2), top, Reader!Series(stream, a)[a])
                = Combined(stream, a, fr, it, top + 1, One(stream, a, q + 2, top + 1))
          BY <4>1, <2>3, OpensSome
        <4> QED  BY <3>1, <3>3, <4>2
      <3>5. Reads(stream, a, start + 1, stack', items', m)
        BY <1>1, <2>4, <3>2, <3>4, ReadsDeeper
      <3> QED  BY <2>4, <3>3, <3>5
    <2>6. Len(stack') \in Nat
      BY <1>1, <2>4
    <2> QED  BY <1>3, <2>4, <2>5, <2>6, HeaderAgainReads
  <1>4. CASE Fail("nomem", q)
    BY <1>4, FailReads
  <1> QED  BY <1>2, <1>3, <1>4, n = 0 \/ n > 0 DEF Start

\* An object that needs a zone is read, or there is none.
LEMMA ValueInZoneReads ==
    ASSUME IInv, UNCHANGED <<stream, arrived, start>>, NEW q \in Nat, ItemsAre,
           NEW o, ValueInZone(o, q),
           \A a \in arrived .. Len(stream) : Reads(stream, a, start + 1, stack, items, Reader!Ok(o, q + 2))
    PROVE  StepReads
  <1>1. CASE Goto("push", q) /\ obj' = o /\ UNCHANGED open
    <2>1. UNCHANGED <<stack, items>>
      BY <1>1 DEF open
    <2> QED  BY <1>1, <2>1, ValueReads
  <1>2. CASE Fail("nomem", q)
    BY <1>2, FailReads
  <1> QED  BY <1>1, <1>2 DEF ValueInZone
-----------------------------------------------------------------------------
(* A header *)

LEMMA WholeClosed ==
    ASSUME NEW f, f.is # "open", NEW d, NEW F
    PROVE  Reader!Whole(f, d, F) = f
  BY Zenon DEF Reader!Whole

\* The byte at p begins the object that is read next.
LEMMA HeaderHere ==
    ASSUME IInv, InMessage, pc = "header", NEW a \in arrived .. Len(stream)
    PROVE  /\ p + 1 \in Nat /\ ~(p + 1 > a) /\ (p + 1) + 1 = p + 2 /\ stream[p + 1] = At(p)
           /\ Reads(stream, a, start + 1, stack, items,
                    Reader!Whole(Reader!Front(stream, a, p + 1), top, Reader!Series(stream, a)[a]))
  <1>1. p \in Nat /\ p < arrived /\ arrived <= a /\ a \in Nat /\ arrived \in Nat
    BY Ground DEF IInv, ReadsReceived
  <1>2. p + 1 \in Nat /\ ~(p + 1 > a) /\ (p + 1) + 1 = p + 2
    BY <1>1
  <1>3. Current(a) = One(stream, a, p + 1, top)
    BY DEF Current, Place
  <1>4. Reads(stream, a, start + 1, stack, items, One(stream, a, p + 1, top))
    BY <1>3 DEF InMessage
  <1> QED  BY <1>2, <1>4 DEF One, At

LEMMA HeaderValue ==
    ASSUME IInv, InMessage, pc = "header", NEW r, r.is # "open",
           \A a \in arrived .. Len(stream) : Reader!Front(stream, a, p + 1) = r
    PROVE  \A a \in arrived .. Len(stream) : Reads(stream, a, start + 1, stack, items, r)
  <1> SUFFICES ASSUME NEW a \in arrived .. Len(stream)
               PROVE  Reads(stream, a, start + 1, stack, items, r)
    OBVIOUS
  <1>1. Reader!Whole(Reader!Front(stream, a, p + 1), top, Reader!Series(stream, a)[a]) = r
    <2>1. Reader!Whole(r, top, Reader!Series(stream, a)[a]) = r
      BY WholeClosed
    <2> QED  BY <2>1
  <1>2. Reads(stream, a, start + 1, stack, items,
              Reader!Whole(Reader!Front(stream, a, p + 1), top, Reader!Series(stream, a)[a]))
    BY HeaderHere
  <1> QED  BY <1>1, <1>2

LEMMA HeaderAwait ==
    ASSUME IInv, InMessage, pc = "header", NEW c, NEW n,
           \A a \in arrived .. Len(stream) :
              Reader!Front(stream, a, p + 1) = Awaited(stream, a, c, n, p + 2)
    PROVE  \A a \in arrived .. Len(stream) :
              Reads(stream, a, start + 1, stack, items, Resumed(stream, a, c, n, p + 2, top))
  <1> SUFFICES ASSUME NEW a \in arrived .. Len(stream)
               PROVE  Reads(stream, a, start + 1, stack, items, Resumed(stream, a, c, n, p + 2, top))
    OBVIOUS
  <1>2. Reads(stream, a, start + 1, stack, items,
              Reader!Whole(Reader!Front(stream, a, p + 1), top, Reader!Series(stream, a)[a]))
    BY HeaderHere
  <1> QED  BY <1>2 DEF Resumed

LEMMA StrIs == Raw(ACS_STR_VALUE, << >>) = <<"str", << >> >>
  <1>1. \A u, v, w : (CASE ACS_STR_VALUE = ACS_STR_VALUE -> u [] ACS_STR_VALUE = ACS_BIN_VALUE -> v
                        [] ACS_STR_VALUE = ACS_EXT_VALUE -> w) = u
    BY SMT DEF ACS_STR_VALUE, ACS_BIN_VALUE, ACS_EXT_VALUE
  <1> QED  BY <1>1, Zenon DEF Raw

\* The shortest string.
LEMMA NoStr ==
    ASSUME IInv, NEW a \in arrived .. Len(stream), pc = "header", At(p) = 160, InMessage
    PROVE  Reader!Front(stream, a, p + 1) = Reader!Ok(<<"str", << >> >>, p + 2)
  <1>1. p + 1 \in Nat /\ ~(p + 1 > a) /\ (p + 1) + 1 = p + 2 /\ stream[p + 1] = 160
    BY HeaderHere
  <1>2. Reader!Front(stream, a, p + 1) = Reader!Fixed(stream, a, (p + 1) + 1, stream[p + 1] - 160, "str")
    <2>1. stream[p + 1] \in FixStr
      BY <1>1 DEF FixStr
    <2> QED  BY <1>1, <2>1, FixStrFront
  <1>3. stream[p + 1] - 160 = 0
    BY <1>1
  <1>4. PICK j : j = p + 2
    OBVIOUS
  <1>5. /\ a \in Nat /\ j \in Nat \ {0} /\ j - 1 <= a /\ a <= Len(stream) /\ stream \in Seq(Byte)
    BY <1>1, <1>4, Ground, SMTT(30)
  <1>6. PICK c : c = ACS_STR_VALUE
    OBVIOUS
  <1>7. c \in ACS_VALUE /\ c # ACS_EXT_VALUE /\ TypeOf(c) = "str"
    BY <1>6, Types DEF ACS_VALUE, ACS_STR_VALUE, ACS_EXT_VALUE
  <1>8. Reader!Fixed(stream, a, j, 0, TypeOf(c)) = Reader!Ok(Raw(c, << >>), j)
    BY <1>5, <1>7, NothingBehind, Zenon
  <1> QED  BY <1>1, <1>2, <1>3, <1>4, <1>6, <1>7, <1>8, StrIs, Zenon

\* What a header byte b that awaits nothing is.
AtOnce(f, b, j) ==
    /\ b \in PositiveFixnum => f = Reader!Ok(<<"positive", b>>, j)
    /\ b \in NegativeFixnum => f = Reader!Ok(<<"negative", b - 256>>, j)
    /\ b = Nil => f = Reader!Ok(NIL, j)
    /\ b = False => f = Reader!Ok(<<"boolean", FALSE>>, j)
    /\ b = True => f = Reader!Ok(<<"boolean", TRUE>>, j)
    /\ b = 193 => f = Reader!Not("parse_error")
    /\ b \in FixArray => f = Reader!Opens("array", b - 144, j)
    /\ b \in FixMap => f = Reader!Opens("map", b - 128, j)

LEMMA FrontAtOnce ==
    ASSUME NEW s, NEW e, NEW i \in Nat, ~(i > e)
    PROVE  AtOnce(Reader!Front(s, e, i), s[i], i + 1)
  BY ValueFront DEF AtOnce

LEMMA HeaderReads ==
    ASSUME IInv, ReaderNow, NEW b \in Byte, Header(b)
    PROVE  StepReads
  <1> DEFINE There == arrived .. Len(stream)
             F(a) == Reader!Front(stream, a, p + 1)
             R(a, r) == Reads(stream, a, start + 1, stack, items, r)
  <1>1. /\ pc = "header" /\ b = At(p) /\ UNCHANGED <<stream, arrived, start>>
        /\ InMessage /\ ItemsAre /\ p \in Nat
    BY Ground DEF Header, data, past, ReaderNow
  <1>2. \A a \in There : /\ p + 1 \in Nat /\ ~(p + 1 > a) /\ stream[p + 1] = b
                         /\ (p + 1) + 1 = p + 2
    BY <1>1, HeaderHere
  <1> HIDE DEF F, R
  <1>0. ASSUME NEW a \in There PROVE AtOnce(F(a), b, p + 2)
    <2>1. PICK i : i = p + 1
      OBVIOUS
    <2>2. i \in Nat /\ ~(i > a) /\ stream[i] = b /\ i + 1 = p + 2 /\ F(a) = Reader!Front(stream, a, i)
      BY <1>2, <2>1 DEF F
    <2>3. AtOnce(Reader!Front(stream, a, i), stream[i], i + 1)
      BY <2>2, FrontAtOnce
    <2> QED  BY <2>2, <2>3
  <1>3. ASSUME NEW o, Value(o, p), \A a \in There : F(a) = Reader!Ok(o, p + 2)
        PROVE  StepReads
    <2>1. Goto("push", p) /\ obj' = o /\ UNCHANGED <<stack, items>>
      BY <1>3 DEF Value, open
    <2>2. PICK r : r = Reader!Ok(o, p + 2)
      OBVIOUS
    <2>3. r.is # "open"
      BY <2>2, OutcomeIs
    <2>4. \A a \in There : Reader!Front(stream, a, p + 1) = r
      BY <1>3, <2>2 DEF F
    <2>5. \A a \in There : Reads(stream, a, start + 1, stack, items, r)
      BY <1>1, <2>3, <2>4, HeaderValue
    <2> QED  BY <1>1, <2>1, <2>2, <2>5, ValueReads
  <1>4. ASSUME NEW c, NEW n, Await(c, n, p), c # CS_HEADER,
               c \in CS_UINT \cup CS_INT => n \in {1, 2, 4, 8},
               \A a \in There : F(a) = Awaited(stream, a, c, n, p + 2)
        PROVE  StepReads
    <2>1. \A a \in There : Reads(stream, a, start + 1, stack, items, Resumed(stream, a, c, n, p + 2, top))
      BY <1>1, <1>4, HeaderAwait DEF F
    <2> QED  BY <1>1, <1>4, <2>1, AwaitReads
  <1>5. ASSUME NEW ct \in {"ARRAY_ITEM", "MAP_KEY"}, NEW n \in Nat, Start(ct, n, p),
               \A a \in There : F(a) = Reader!Opens(Empty(ct)[1], n, p + 2)
        PROVE  StepReads
    <2>1. ASSUME NEW a \in There
          PROVE  Reads(stream, a, start + 1, stack, items,
                       Reader!Whole(Reader!Opens(Empty(ct)[1], n, p + 2), top, Reader!Series(stream, a)[a]))
      <3>1. Reads(stream, a, start + 1, stack, items,
                  Reader!Whole(Reader!Front(stream, a, p + 1), top, Reader!Series(stream, a)[a]))
        BY <1>1, HeaderHere
      <3> QED  BY <1>5, <3>1 DEF F
    <2> QED  BY <1>1, <1>5, <2>1, StartReads
  <1>6. CASE b \in PositiveFixnum /\ Value(<<"positive", b>>, p)
    <2>1. \A a \in There : F(a) = Reader!Ok(<<"positive", b>>, p + 2)
      BY <1>0, <1>6, Zenon DEF AtOnce
    <2> QED  BY <1>3, <1>6, <2>1
  <1>7. CASE b \in NegativeFixnum /\ Value(<<"negative", b - 256>>, p)
    <2>1. \A a \in There : F(a) = Reader!Ok(<<"negative", b - 256>>, p + 2)
      BY <1>0, <1>7, Zenon DEF AtOnce
    <2> QED  BY <1>3, <1>7, <2>1
  <1>8. CASE b = Nil /\ Value(NIL, p)
    <2>1. \A a \in There : F(a) = Reader!Ok(NIL, p + 2)
      BY <1>0, <1>8, Zenon DEF AtOnce
    <2> QED  BY <1>3, <1>8, <2>1
  <1>9. CASE b = False /\ Value(<<"boolean", FALSE>>, p)
    <2>1. \A a \in There : F(a) = Reader!Ok(<<"boolean", FALSE>>, p + 2)
      BY <1>0, <1>9, Zenon DEF AtOnce
    <2> QED  BY <1>3, <1>9, <2>1
  <1>10. CASE b = True /\ Value(<<"boolean", TRUE>>, p)
    <2>1. \A a \in There : F(a) = Reader!Ok(<<"boolean", TRUE>>, p + 2)
      BY <1>0, <1>10, Zenon DEF AtOnce
    <2> QED  BY <1>3, <1>10, <2>1
  <1>11. CASE b \in Variable /\ Await(NEXT_CS(b), FixedTrail(b), p)
    <2>1. \A a \in There : F(a) = Awaited(stream, a, NEXT_CS(b), FixedTrail(b), p + 2)
      BY <1>2, <1>11, VariableHeader DEF F
    <2>2. NEXT_CS(b) # CS_HEADER /\ (NEXT_CS(b) \in CS_UINT \cup CS_INT => FixedTrail(b) \in {1, 2, 4, 8})
      BY <1>11, StateHeader, NumberHeader
    <2> QED  BY <1>4, <1>11, <2>1, <2>2
  <1>12. CASE b \in FixExt /\ Await(ACS_EXT_VALUE, FixExtTrail(b), p)
    <2>1. \A a \in There : F(a) = Awaited(stream, a, ACS_EXT_VALUE, FixExtTrail(b), p + 2)
      BY <1>2, <1>12, FixExtFront DEF F
    <2>2. ACS_EXT_VALUE # CS_HEADER /\ ACS_EXT_VALUE \notin CS_UINT \cup CS_INT
      BY DEF ACS_EXT_VALUE, CS_HEADER, CS_UINT, CS_INT
    <2> QED  BY <1>4, <1>12, <2>1, <2>2
  <1>13. CASE b = 160 /\ ValueInZone(<<"str", << >> >>, p)
    <2>1. PICK o : o = <<"str", << >> >>
      OBVIOUS
    <2>2. PICK r : r = Reader!Ok(o, p + 2)
      OBVIOUS
    <2>3. r.is # "open"
      BY <2>2, OutcomeIs
    <2>4. \A a \in There : Reader!Front(stream, a, p + 1) = r
      BY <1>1, <1>13, <2>1, <2>2, NoStr
    <2>5. \A a \in There : Reads(stream, a, start + 1, stack, items, r)
      BY <1>1, <2>3, <2>4, HeaderValue
    <2>6. ValueInZone(o, p)
      BY <1>13, <2>1
    <2> QED  BY <1>1, <2>2, <2>5, <2>6, ValueInZoneReads
  <1>14. CASE b \in FixStr \ {160} /\ Await(ACS_STR_VALUE, b - 160, p)
    <2>1. \A a \in There : F(a) = Awaited(stream, a, ACS_STR_VALUE, b - 160, p + 2)
      BY <1>2, <1>14, FixStrFront DEF F
    <2>2. ACS_STR_VALUE # CS_HEADER /\ ACS_STR_VALUE \notin CS_UINT \cup CS_INT
      BY DEF ACS_STR_VALUE, CS_HEADER, CS_UINT, CS_INT
    <2> QED  BY <1>4, <1>14, <2>1, <2>2
  <1>15. CASE b \in FixArray /\ Start("ARRAY_ITEM", b - 144, p)
    <2>1. \A a \in There : F(a) = Reader!Opens(Empty("ARRAY_ITEM")[1], b - 144, p + 2)
      BY <1>0, <1>15, EmptyIs, ZenonT(60) DEF AtOnce
    <2>2. b - 144 \in Nat
      BY <1>15 DEF FixArray
    <2> QED  BY <1>5, <1>15, <2>1, <2>2
  <1>16. CASE b \in FixMap /\ Start("MAP_KEY", b - 128, p)
    <2>1. \A a \in There : F(a) = Reader!Opens(Empty("MAP_KEY")[1], b - 128, p + 2)
      BY <1>0, <1>16, EmptyIs, Zenon DEF AtOnce
    <2>2. b - 128 \in Nat
      BY <1>16 DEF FixMap
    <2> QED  BY <1>5, <1>16, <2>1, <2>2
  <1>17. CASE b = 193 /\ Fail("parse_error", p)
    <2>1. PICK r : r = Reader!Not("parse_error")
      OBVIOUS
    <2>2. r.is # "open"
      BY <2>1, OutcomeIs
    <2>3. \A a \in There : Reader!Front(stream, a, p + 1) = r
      BY <1>0, <1>17, <2>1, Zenon DEF AtOnce, F
    <2>4. Reads(stream, arrived, start + 1, stack, items, r)
      BY <1>1, <2>2, <2>3, HeaderValue, Ground
    <2> QED  BY <1>17, <2>1, <2>4, FailReads
  <1> QED  BY <1>6, <1>7, <1>8, <1>9, <1>10, <1>11, <1>12, <1>13, <1>14, <1>15, <1>16, <1>17 DEF Header
-----------------------------------------------------------------------------
(* What trails a header *)

\* The bytes at p are those the parser waits for.
LEMMA TrailHere ==
    ASSUME IInv, ReaderNow, pc = "trail", NEW a \in arrived .. Len(stream)
    PROVE  /\ p \in Nat /\ p + 1 \in Nat \ {0} /\ trail \in Nat /\ trail > 0
           /\ stream \in Seq(Byte) /\ a \in Nat /\ a <= Len(stream) /\ arrived <= a /\ arrived \in Nat
           /\ cs # CS_HEADER /\ (cs \in CS_UINT \cup CS_INT => trail \in {1, 2, 4, 8})
           /\ cs \in CS_SIZE \cup CS_CONTAINER => trail \in {1, 2, 4}
           /\ Reads(stream, a, start + 1, stack, items,
                    Reader!Whole(Awaited(stream, a, cs, trail, p + 1), top, Reader!Series(stream, a)[a]))
  <1>1. p \in Nat /\ stream \in Seq(Byte) /\ a \in Nat /\ a <= Len(stream) /\ arrived <= a /\ arrived \in Nat
    BY Ground
  <1>2. trail \in Nat /\ trail > 0 /\ (cs \in CS_SIZE \cup CS_CONTAINER => trail \in {1, 2, 4})
    BY TemplateConstants DEF IInv, TypeOK, PlaceInv, Waits
  <1>3. cs # CS_HEADER /\ (cs \in CS_UINT \cup CS_INT => trail \in {1, 2, 4, 8})
    BY DEF ReaderNow, Widths, Waits
  <1>4. Current(a) = Resumed(stream, a, cs, trail, p + 1, top)
    BY DEF Current, Place
  <1>5. Reads(stream, a, start + 1, stack, items, Resumed(stream, a, cs, trail, p + 1, top))
    BY <1>4 DEF ReaderNow, InMessage
  <1> QED  BY <1>1, <1>2, <1>3, <1>5 DEF Resumed

LEMMA TrailBytes ==
    ASSUME IInv, ReaderNow, pc = "trail", arrived - p >= trail, NEW a \in arrived .. Len(stream)
    PROVE  /\ Here(stream, a, p + 1, trail)
           /\ SubSeq(stream, p + 1, p + 1 + trail - 1) = Bytes(p, trail)
           /\ p + 1 + trail = p + trail - 1 + 2
  <1>1. /\ p \in Nat /\ p + 1 \in Nat \ {0} /\ trail \in Nat /\ stream \in Seq(Byte) /\ a \in Nat
        /\ a <= Len(stream) /\ arrived <= a /\ arrived \in Nat
    BY TrailHere
  <1>2. p + 1 + trail - 1 = p + trail /\ p + 1 + trail - 1 <= a /\ p + 1 + trail = p + trail - 1 + 2
    BY <1>1
  <1>3. Here(stream, a, p + 1, trail)
    BY <1>1, <1>2 DEF Here
  <1> QED  BY <1>2, <1>3 DEF Bytes

LEMMA TrailValue ==
    ASSUME IInv, ReaderNow, pc = "trail", NEW r, r.is # "open",
           \A a \in arrived .. Len(stream) : Awaited(stream, a, cs, trail, p + 1) = r
    PROVE  \A a \in arrived .. Len(stream) : Reads(stream, a, start + 1, stack, items, r)
  <1> SUFFICES ASSUME NEW a \in arrived .. Len(stream)
               PROVE  Reads(stream, a, start + 1, stack, items, r)
    OBVIOUS
  <1>1. Reader!Whole(r, top, Reader!Series(stream, a)[a]) = r
    BY WholeClosed
  <1>2. Reads(stream, a, start + 1, stack, items,
              Reader!Whole(Awaited(stream, a, cs, trail, p + 1), top, Reader!Series(stream, a)[a]))
    BY TrailHere
  <1> QED  BY <1>1, <1>2

LEMMA TrailAwait ==
    ASSUME IInv, ReaderNow, pc = "trail", NEW c, NEW n, NEW i,
           \A a \in arrived .. Len(stream) :
              Awaited(stream, a, cs, trail, p + 1) = Awaited(stream, a, c, n, i)
    PROVE  \A a \in arrived .. Len(stream) :
              Reads(stream, a, start + 1, stack, items, Resumed(stream, a, c, n, i, top))
  <1> SUFFICES ASSUME NEW a \in arrived .. Len(stream)
               PROVE  Reads(stream, a, start + 1, stack, items, Resumed(stream, a, c, n, i, top))
    OBVIOUS
  <1>2. Reads(stream, a, start + 1, stack, items,
              Reader!Whole(Awaited(stream, a, cs, trail, p + 1), top, Reader!Series(stream, a)[a]))
    BY TrailHere
  <1> QED  BY <1>2 DEF Resumed

\* What the bytes are, each in the state that reads them.
LEMMA NumberHere ==
    ASSUME IInv, ReaderNow, pc = "trail", arrived - p >= trail, NEW a \in arrived .. Len(stream),
           cs \in CS_NUMBER
    PROVE  Awaited(stream, a, cs, trail, p + 1) = Reader!Ok(Number(cs, Bytes(p, trail)), p + trail - 1 + 2)
  <1>1. Here(stream, a, p + 1, trail) /\ (cs \in CS_UINT \cup CS_INT => trail \in {1, 2, 4, 8})
    BY TrailHere, TrailBytes
  <1>2. PICK i : i = p + 1
    OBVIOUS
  <1>3. Awaited(stream, a, cs, trail, i) = Reader!Ok(Number(cs, SubSeq(stream, i, i + trail - 1)), i + trail)
    BY <1>1, <1>2, NumberTrail
  <1> QED  BY <1>2, <1>3, TrailBytes

LEMMA RawHere ==
    ASSUME IInv, ReaderNow, pc = "trail", arrived - p >= trail, NEW a \in arrived .. Len(stream),
           cs \in ACS_VALUE
    PROVE  Awaited(stream, a, cs, trail, p + 1) = Reader!Ok(Raw(cs, Bytes(p, trail)), p + trail - 1 + 2)
  <1>1. Here(stream, a, p + 1, trail) /\ trail > 0
    BY TrailHere, TrailBytes
  <1>2. PICK i : i = p + 1
    OBVIOUS
  <1>3. Awaited(stream, a, cs, trail, i) = Reader!Ok(Raw(cs, SubSeq(stream, i, i + trail - 1)), i + trail)
    BY <1>1, <1>2, ValueTrails
  <1> QED  BY <1>2, <1>3, TrailBytes

LEMMA OpensHere ==
    ASSUME Wide, IInv, ReaderNow, pc = "trail", arrived - p >= trail, NEW a \in arrived .. Len(stream),
           cs \in CS_CONTAINER
    PROVE  /\ UInt(LoadUnsigned(Bytes(p, trail))) \in Nat
           /\ Awaited(stream, a, cs, trail, p + 1) =
                Reader!Opens(TypeOf(cs), UInt(LoadUnsigned(Bytes(p, trail))), p + trail - 1 + 2)
  <1>1. Here(stream, a, p + 1, trail) /\ trail \in {1, 2, 4}
    BY TrailHere, TrailBytes
  <1>2. PICK i : i = p + 1
    OBVIOUS
  <1>3. PICK bs : bs = SubSeq(stream, i, i + trail - 1)
    OBVIOUS
  <1>4. /\ Awaited(stream, a, cs, trail, i) = Reader!Opens(TypeOf(cs), UInt(LoadUnsigned(bs)), i + trail)
        /\ UInt(LoadUnsigned(bs)) \in Nat
    BY <1>1, <1>2, <1>3, ContainerTrail
  <1> QED  BY <1>2, <1>3, <1>4, TrailBytes

\* What the v bytes behind a size are, from index j.
Announced(s, e, c, v, f, j) ==
    /\ v > 0 => f = Awaited(s, e, ValueState(c), v, j)
    /\ v = 0 /\ c \in CS_STR \cup CS_BIN => f = Reader!Ok(Raw(ValueState(c), << >>), j)
    /\ v = 0 /\ c \in CS_EXT => f = Reader!Not("parse_error")

LEMMA SizeAnnounces ==
    ASSUME Wide, NEW s, NEW e, NEW i, NEW n, Here(s, e, i, n), n \in {1, 2, 4}, NEW c \in CS_SIZE
    PROVE  Announced(s, e, c, ValueTrail(c, SubSeq(s, i, i + n - 1)), Awaited(s, e, c, n, i), i + n)
  BY SizeTrails DEF Announced

LEMMA SizeHere ==
    ASSUME Wide, IInv, ReaderNow, pc = "trail", arrived - p >= trail, NEW a \in arrived .. Len(stream),
           cs \in CS_SIZE
    PROVE  Announced(stream, a, cs, ValueTrail(cs, Bytes(p, trail)),
                     Awaited(stream, a, cs, trail, p + 1), p + trail - 1 + 2)
  <1>1. Here(stream, a, p + 1, trail) /\ trail \in {1, 2, 4}
    BY TrailHere, TrailBytes
  <1>2. PICK i : i = p + 1
    OBVIOUS
  <1>3. Announced(stream, a, cs, ValueTrail(cs, SubSeq(stream, i, i + trail - 1)),
                  Awaited(stream, a, cs, trail, i), i + trail)
    BY <1>1, <1>2, SizeAnnounces
  <1>4. SubSeq(stream, i, i + trail - 1) = Bytes(p, trail) /\ i + trail = p + trail - 1 + 2
    BY <1>2, TrailBytes
  <1> QED  BY <1>2, <1>3, <1>4

LEMMA TrailReads ==
    ASSUME Wide, IInv, ReaderNow, Trail
    PROVE  StepReads
  <1> DEFINE There == arrived .. Len(stream)
             bs == Bytes(p, trail)
             q == p + trail - 1
             F(a) == Awaited(stream, a, cs, trail, p + 1)
             v == ValueTrail(cs, bs)
             n == UInt(LoadUnsigned(bs))
  <1>1. /\ pc = "trail" /\ arrived - p >= trail /\ Read(cs, bs, q)
        /\ UNCHANGED <<stream, arrived, start>> /\ ItemsAre
    BY DEF Trail, data, past, ReaderNow
  <1>2. arrived \in There /\ q \in Nat
    <2>1. arrived \in There
      BY Ground
    <2>2. p \in Nat /\ trail \in Nat /\ trail > 0
      BY <1>1, <2>1, TrailHere
    <2> QED  BY <2>1, <2>2
  <1>3. cs \in CS_NUMBER => \A a \in There : F(a) = Reader!Ok(Number(cs, bs), q + 2)
    BY <1>1, NumberHere
  <1>4. cs \in ACS_VALUE => \A a \in There : F(a) = Reader!Ok(Raw(cs, bs), q + 2)
    BY <1>1, RawHere
  <1>5. cs \in CS_CONTAINER => n \in Nat /\ \A a \in There : F(a) = Reader!Opens(TypeOf(cs), n, q + 2)
    BY <1>1, <1>2, OpensHere
  <1>6. cs \in CS_SIZE => \A a \in There : Announced(stream, a, cs, v, F(a), q + 2)
    BY <1>1, SizeHere
  <1> HIDE DEF bs, q, F, v, n
  <1>7. ASSUME NEW r, r.is # "open", \A a \in There : F(a) = r
        PROVE  \A a \in There : Reads(stream, a, start + 1, stack, items, r)
    BY <1>1, <1>7, TrailValue DEF F
  <1>8. ASSUME NEW o, \A a \in There : F(a) = Reader!Ok(o, q + 2)
        PROVE  \A a \in There : Reads(stream, a, start + 1, stack, items, Reader!Ok(o, q + 2))
    <2>1. PICK r : r = Reader!Ok(o, q + 2)
      OBVIOUS
    <2>2. r.is # "open"
      BY <2>1, OutcomeIs
    <2> QED  BY <1>7, <1>8, <2>1, <2>2
  <1>9. ASSUME NEW o, ValueInZone(o, q), \A a \in There : F(a) = Reader!Ok(o, q + 2)
        PROVE  StepReads
    <2>1. \A a \in There : Reads(stream, a, start + 1, stack, items, Reader!Ok(o, q + 2))
      BY <1>8, <1>9
    <2> QED  BY <1>1, <1>2, <1>9, <2>1, ValueInZoneReads
  <1>10. ASSUME NEW ct \in {"ARRAY_ITEM", "MAP_KEY"}, n \in Nat, Start(ct, n, q),
                \A a \in There : F(a) = Reader!Opens(Empty(ct)[1], n, q + 2)
         PROVE  StepReads
    <2>1. ASSUME NEW a \in There
          PROVE  Reads(stream, a, start + 1, stack, items,
                       Reader!Whole(Reader!Opens(Empty(ct)[1], n, q + 2), top, Reader!Series(stream, a)[a]))
      <3>1. Reads(stream, a, start + 1, stack, items,
                  Reader!Whole(F(a), top, Reader!Series(stream, a)[a]))
        BY <1>1, TrailHere DEF F
      <3> QED  BY <1>10, <3>1
    <2>2. PICK m : m = n
      OBVIOUS
    <2> QED  BY <1>1, <1>2, <1>10, <2>1, <2>2, StartReads
  <1>11. CASE cs \in CS_NUMBER /\ Value(Number(cs, bs), q)
    <2>1. PICK o : o = Number(cs, bs)
      OBVIOUS
    <2>2. Goto("push", q) /\ obj' = o /\ UNCHANGED <<stack, items>>
      BY <1>11, <2>1 DEF Value, open
    <2>3. \A a \in There : Reads(stream, a, start + 1, stack, items, Reader!Ok(o, q + 2))
      BY <1>3, <1>8, <1>11, <2>1
    <2> QED  BY <1>1, <1>2, <2>2, <2>3, ValueReads
  <1>12. CASE cs \in CS_SIZE /\ v > 0 /\ Await(ValueState(cs), v, q)
    <2>1. \A a \in There : F(a) = Awaited(stream, a, ValueState(cs), v, q + 2)
      BY <1>6, <1>12 DEF Announced
    <2>2. PICK c : c = ValueState(cs)
      OBVIOUS
    <2>3. PICK i : i = q + 2
      OBVIOUS
    <2>4. \A a \in There : Reads(stream, a, start + 1, stack, items, Resumed(stream, a, c, v, i, top))
      BY <1>1, <2>1, <2>2, <2>3, TrailAwait DEF F
    <2>5. c # CS_HEADER /\ c \notin CS_UINT \cup CS_INT
      BY <2>2 DEF ValueState, ACS_STR_VALUE, ACS_BIN_VALUE, ACS_EXT_VALUE, CS_HEADER, CS_UINT, CS_INT
    <2>6. Await(c, v, q)
      BY <1>12, <2>2
    <2>7. PICK k : k = v
      OBVIOUS
    <2> QED  BY <1>1, <1>2, <2>3, <2>4, <2>5, <2>6, <2>7, AwaitReads
  <1>13. CASE cs \in CS_STR \cup CS_BIN /\ v = 0 /\ ValueInZone(Raw(ValueState(cs), << >>), q)
    <2>1. \A a \in There : F(a) = Reader!Ok(Raw(ValueState(cs), << >>), q + 2)
      BY <1>6, <1>13 DEF Announced, CS_SIZE
    <2> QED  BY <1>9, <1>13, <2>1
  <1>14. CASE cs \in CS_EXT /\ v = 0 /\ Fail("parse_error", q)
    <2>1. PICK r : r = Reader!Not("parse_error")
      OBVIOUS
    <2>2. r.is # "open"
      BY <2>1, OutcomeIs
    <2>3. \A a \in There : F(a) = r
      BY <1>6, <1>14, <2>1 DEF Announced, CS_SIZE
    <2>4. Reads(stream, arrived, start + 1, stack, items, r)
      BY <1>2, <1>7, <2>2, <2>3
    <2> QED  BY <1>14, <2>1, <2>4, FailReads
  <1>15. CASE cs \in ACS_VALUE /\ ValueInZone(Raw(cs, bs), q)
    BY <1>4, <1>9, <1>15
  <1>16. CASE cs \in CS_ARRAY /\ Start("ARRAY_ITEM", n, q)
    BY <1>5, <1>10, <1>16, Types, EmptyIs
  <1>17. CASE cs \in CS_MAP /\ Start("MAP_KEY", n, q)
    BY <1>5, <1>10, <1>17, Types, EmptyIs
  <1> QED  BY <1>1, <1>11, <1>12, <1>13, <1>14, <1>15, <1>16, <1>17 DEF Read, v, n

\* The bytes have not all arrived.
LEMMA OutReads ==
    ASSUME IInv, ReaderNow, Out
    PROVE  StepReads
  <1>1. /\ pc = "trail" /\ arrived - p < trail /\ pc' = "idle" /\ ret' = "continue" /\ off' = p
        /\ UNCHANGED <<stream, arrived, start, cs, trail, stack, items>>
    BY DEF Out, End, data, state, open, past
  <1>2. ReaderNow'
    <2>1. Widths' /\ ItemsAre'
      BY <1>1 DEF ReaderNow, Widths, Waits, ItemsAre, top
    <2>2. cs # CS_HEADER
      BY <1>1 DEF ReaderNow, Widths
    <2>3. \A a : Current(a)' = Current(a)
      BY <1>1, <2>2, Zenon DEF Current, Place, top
    <2>4. InMessage'
      BY <1>1, <2>3 DEF ReaderNow, InMessage
    <2> QED  BY <2>1, <2>4 DEF ReaderNow
  <1>3. Reader!Reading.is = "more"
    <2>1. arrived \in arrived .. Len(stream)
      BY Ground
    <2>2. p \in Nat /\ trail \in Nat /\ arrived \in Nat
      BY <1>1, <2>1, TrailHere
    <2>3. PICK m : m = Reader!Not("more")
      OBVIOUS
    <2>4. m.is = "more"
      BY <2>3, OutcomeIs
    <2>5. PICK i : i = p + 1
      OBVIOUS
    <2>6. Awaited(stream, arrived, cs, trail, i) = m
      <3>1. i \in Nat /\ i + trail - 1 > arrived
        BY <1>1, <2>2, <2>5
      <3> QED  BY <2>2, <2>3, <3>1, MoreTrail
    <2>7. Reads(stream, arrived, start + 1, stack, items,
                Reader!Whole(Awaited(stream, arrived, cs, trail, i), top, Reader!Series(stream, arrived)[arrived]))
      BY <1>1, <2>1, <2>5, TrailHere
    <2>8. Reader!Whole(m, top, Reader!Series(stream, arrived)[arrived]) = m
      BY <2>4, WholeClosed
    <2>9. Reads(stream, arrived, start + 1, stack, items, m)
      BY <2>6, <2>7, <2>8
    <2> QED  BY <2>4, <2>9, OutReading, Ground
  <1> QED  BY <1>1, <1>2, <1>3 DEF StepReads
-----------------------------------------------------------------------------
(* The climb *)

\* The first n of list b are those of a; but for x at place k.
Same(b, a, n) == \A j \in 1 .. n : b[j] = a[j]
Differs(b, a, n, k, x) == b[k] = x /\ \A j \in 1 .. n : j # k => b[j] = a[j]

LEMMA ListReplace ==
    ASSUME NEW n \in Nat, NEW a, IsList(a, n), NEW k \in 1 .. n, NEW x,
           NEW b, b = [a EXCEPT ![k] = x]
    PROVE  IsList(b, n) /\ Differs(b, a, n, k, x)
  <1> DEFINE U == {a[j] : j \in 1 .. n} \cup {x}
  <1>1. a \in Seq(U) /\ Len(a) = n
    BY ListIn, \A j \in 1 .. n : a[j] \in U
  <1>2. x \in U
    OBVIOUS
  <1> HIDE DEF U
  <1>3. b \in Seq(U) /\ Len(b) = n /\ b[k] = x /\ \A j \in 1 .. n : j # k => b[j] = a[j]
    BY <1>1, <1>2
  <1> QED  BY <1>3, InList DEF Differs

LEMMA ListFront ==
    ASSUME NEW n \in Nat, NEW a, IsList(a, n + 1), NEW b, b = SubSeq(a, 1, n)
    PROVE  IsList(b, n) /\ Same(b, a, n)
  <1> DEFINE U == {a[j] : j \in 1 .. n + 1}
  <1>0. n + 1 \in Nat /\ \A j \in 1 .. n + 1 : a[j] \in U
    OBVIOUS
  <1>1. a \in Seq(U) /\ Len(a) = n + 1
    BY <1>0, ListIn
  <1> HIDE DEF U
  <1>3. b \in Seq(U) /\ Len(b) = n /\ \A j \in 1 .. n : b[j] = a[j]
    BY <1>1
  <1> QED  BY <1>3, InList DEF Same

\* The innermost frame and its items are others.
LEMMA ItemsReplace ==
    ASSUME IInv, ItemsAre, top > 0, NEW gr \in Frame, stack' = [stack EXCEPT ![top] = gr],
           NEW jt, items' = [items EXCEPT ![top] = jt],
           jt = [values |-> jt.values, key |-> jt.key], IsList(jt.values, gr.size)
    PROVE  /\ ItemsAre' /\ Len(stack') = top /\ stack'[top] = gr /\ items'[top] = jt
           /\ Below(stack, items, stack', items', top - 1)
  <1>1. stack \in Seq(Frame) /\ top \in Nat /\ Len(stack) = top /\ top \in 1 .. top
    BY Ground
  <1>2. /\ Len(stack') = top /\ stack'[top] = gr
        /\ \A t \in 1 .. top : t # top => stack'[t] = stack[t]
    BY <1>1
  <1>3. /\ IsList(items', top) /\ items'[top] = jt
        /\ \A t \in 1 .. top : t # top => items'[t] = items[t]
    <2>1. IsList(items, top)
      BY DEF ItemsAre
    <2>2. PICK n : n = top
      OBVIOUS
    <2>3. IsList(items', n) /\ Differs(items', items, n, n, jt)
      BY <1>1, <2>1, <2>2, ListReplace
    <2> QED  BY <2>2, <2>3 DEF Differs
  <1>4. ASSUME NEW t \in 1 .. top
        PROVE  /\ items'[t] = [values |-> items'[t].values, key |-> items'[t].key]
               /\ IsList(items'[t].values, stack'[t].size)
    <2>1. CASE t = top
      BY <2>1, <1>2, <1>3
    <2>2. CASE t # top
      BY <2>2, <1>2, <1>3 DEF ItemsAre
    <2> QED  BY <2>1, <2>2
  <1>5. top' = top
    BY <1>2 DEF top
  <1>6. ItemsAre'
    BY <1>3, <1>4, <1>5 DEF ItemsAre
  <1>7. \A t \in 1 .. top - 1 : t \in 1 .. top /\ t # top
    BY <1>1
  <1> QED  BY <1>2, <1>3, <1>6, <1>7 DEF Below

\* They are gone.
LEMMA ItemsLess ==
    ASSUME IInv, ItemsAre, top > 0, stack' = SubSeq(stack, 1, top - 1), items' = SubSeq(items, 1, top - 1)
    PROVE  ItemsAre' /\ Len(stack') = top - 1 /\ Below(stack, items, stack', items', top - 1)
  <1>1. stack \in Seq(Frame) /\ top \in Nat /\ Len(stack) = top
    BY Ground
  <1>2. PICK n \in Nat : n = top - 1 /\ n + 1 = top
    BY <1>1
  <1>3. Len(stack') = n /\ \A t \in 1 .. n : stack'[t] = stack[t]
    BY <1>1, <1>2
  <1>4. IsList(items', n) /\ \A t \in 1 .. n : items'[t] = items[t]
    <2>1. IsList(items, n + 1) /\ items' = SubSeq(items, 1, n)
      BY <1>2 DEF ItemsAre
    <2>2. IsList(items', n) /\ Same(items', items, n)
      BY <2>1, ListFront
    <2> QED  BY <2>2 DEF Same
  <1>5. \A t \in 1 .. n : t \in 1 .. top
    BY <1>1, <1>2
  <1>6. top' = n
    BY <1>3 DEF top
  <1>7. ItemsAre'
    BY <1>3, <1>4, <1>5, <1>6, ZenonT(60) DEF ItemsAre
  <1> QED  BY <1>2, <1>3, <1>4, <1>7 DEF Below

\* The object that is read is one of the innermost container.
LEMMA PushHere ==
    ASSUME IInv, ReaderNow, pc = "push", NEW a \in arrived .. Len(stream)
    PROVE  /\ p \in Nat /\ p + 2 \in Nat \ {0} /\ stream \in Seq(Byte) /\ a \in 0 .. Len(stream)
           /\ Reads(stream, a, start + 1, stack, items, Reader!Ok(obj, p + 2))
  <1>1. Current(a) = Reader!Ok(obj, p + 2)
    BY DEF Current
  <1>2. Reads(stream, a, start + 1, stack, items, Reader!Ok(obj, p + 2))
    BY <1>1 DEF ReaderNow, InMessage
  <1> QED  BY <1>2, Ground

LEMMA TopItems ==
    ASSUME IInv, ReaderNow, top > 0
    PROVE  /\ top \in Nat \ {0} /\ stack[top] \in Frame /\ stack[top].count > 0
           /\ stack[top].count \in Nat /\ stack[top].size \in Nat /\ stack[top].slots \in Nat
           /\ items[top] = [values |-> items[top].values, key |-> items[top].key]
           /\ IsList(items[top].values, stack[top].size)
  <1>1. stack[top] \in Frame /\ stack[top].count > 0
    BY TopFrame DEF IInv, TypeOK, Frames
  <1>2. top \in 1 .. top /\ top \in Nat \ {0}
    BY Ground
  <1> QED  BY <1>1, <1>2 DEF ReaderNow, ItemsAre, Frame

\* What is stored for the object that was read, and what the container waits for next.
Stores(ct, v, dt) ==
    \/ ct = "ARRAY_ITEM" /\ v = obj /\ dt = "ARRAY_ITEM"
    \/ ct = "MAP_VALUE" /\ v = <<items[top].key, obj>> /\ dt = "MAP_KEY"

\* The last item: the container is an object of the one around it.
LEMMA StoreLast ==
    ASSUME IInv, ReaderNow, pc = "push", top > 0, NEW v, NEW dt, Stores(stack[top].ct, v, dt),
           UNCHANGED <<stream, arrived, start>>, Store(v, dt), stack[top].count = 1
    PROVE  StepReads
  <1>1. /\ obj' = <<Empty(stack[top].ct)[1], Append(items[top].values, v)>>
        /\ stack' = SubSeq(stack, 1, top - 1) /\ items' = SubSeq(items, 1, top - 1)
        /\ pc' = "push" /\ p' = p
    BY DEF Store, call
  <1>2. /\ top \in Nat \ {0} /\ IsList(items[top].values, stack[top].size) /\ stack[top].size \in Nat
        /\ stack[top].ct \in {"ARRAY_ITEM", "MAP_VALUE"}
        /\ v = IF stack[top].ct = "ARRAY_ITEM" THEN obj ELSE <<items[top].key, obj>>
    BY TopItems DEF Stores
  <1>3. ItemsAre' /\ Len(stack') = top - 1 /\ Below(stack, items, stack', items', top - 1)
    BY <1>1, ItemsLess DEF ReaderNow
  <1>4. ASSUME NEW a \in arrived .. Len(stream)
        PROVE  Reads(stream, a, start + 1, stack', items', Reader!Ok(obj', p + 2))
    <2>1. /\ p + 2 \in Nat \ {0} /\ stream \in Seq(Byte) /\ a \in 0 .. Len(stream)
          /\ Reads(stream, a, start + 1, stack, items, Reader!Ok(obj, p + 2))
      BY PushHere
    <2>2. PICK fr : fr = stack[top]
      OBVIOUS
    <2>3. PICK it : it = items[top]
      OBVIOUS
    <2>4. PICK i : i = p + 2
      OBVIOUS
    <2>5. PICK n : n = fr.size
      OBVIOUS
    <2>6. PICK t : t = top
      OBVIOUS
    <2>7. /\ fr.ct \in {"ARRAY_ITEM", "MAP_VALUE"} /\ fr.count = 1 /\ n \in Nat /\ IsList(it.values, n)
          /\ i \in Nat \ {0} /\ t \in Nat /\ v = IF fr.ct = "ARRAY_ITEM" THEN obj ELSE <<it.key, obj>>
      BY <1>2, <2>1, <2>2, <2>3, <2>4, <2>5, <2>6
    <2>8. Combined(stream, a, fr, it, t, Reader!Ok(obj, i)) =
            Reader!Ok(<<Empty(fr.ct)[1], Append(it.values, IF fr.ct = "ARRAY_ITEM" THEN obj ELSE <<it.key, obj>>)>>, i)
      BY <2>1, <2>7, LastItem
    <2>9. PICK r : r = Reader!Ok(obj, i)
      OBVIOUS
    <2>10. PICK q : q = Reader!Ok(obj', i)
      OBVIOUS
    <2>11. q = Combined(stream, a, fr, it, t, r)
      <3>1. obj' = <<Empty(fr.ct)[1], Append(it.values, v)>>
        BY <1>1, <2>2, <2>3
      <3> QED  BY <2>7, <2>8, <2>9, <2>10, <3>1, Zenon
    <2>12. PICK k \in Nat : k = top - 1 /\ k + 1 = top
      BY <1>2
    <2>13. Reads(stream, a, start + 1, stack, items, r)
      BY <2>1, <2>4, <2>9
    <2>14. /\ Len(stack) = k + 1 /\ Len(stack') = k /\ Below(stack, items, stack', items', k)
           /\ q = Combined(stream, a, stack[k + 1], items[k + 1], k + 1, r)
      BY <1>3, <2>2, <2>3, <2>6, <2>11, <2>12 DEF top
    <2>15. Reads(stream, a, start + 1, stack', items', q)
      BY <2>13, <2>14, ReadsUp
    <2> QED  BY <2>4, <2>10, <2>15
  <1>5. \A a : Current(a)' = Reader!Ok(obj', p + 2)
    BY <1>1, Zenon DEF Current
  <1>6. InMessage'
    BY <1>4, <1>5 DEF InMessage
  <1>7. Widths'
    BY <1>1 DEF Widths, Waits
  <1> QED  BY <1>1, <1>3, <1>6, <1>7 DEF StepReads, ReaderNow

\* Another frame and other items, which are what they are when the next object is read.
LEMMA OnReads ==
    ASSUME IInv, ReaderNow, pc = "push", top > 0, UNCHANGED <<stream, arrived, start>>,
           HeaderAgain(p), NEW gr \in Frame, stack' = [stack EXCEPT ![top] = gr],
           NEW jt, items' = [items EXCEPT ![top] = jt],
           jt = [values |-> jt.values, key |-> jt.key], IsList(jt.values, gr.size),
           \A a \in arrived .. Len(stream) :
              Combined(stream, a, stack[top], items[top], top, Reader!Ok(obj, p + 2)) =
              Combined(stream, a, gr, jt, top, One(stream, a, p + 2, top))
    PROVE  StepReads
  <1>1. /\ ItemsAre' /\ Len(stack') = top /\ stack'[top] = gr /\ items'[top] = jt
        /\ Below(stack, items, stack', items', top - 1)
    BY ItemsReplace DEF ReaderNow
  <1>2. top \in Nat /\ p \in Nat
    BY Ground
  <1>3. ASSUME NEW a \in arrived .. Len(stream)
        PROVE  Reads(stream, a, start + 1, stack', items', One(stream, a, p + 2, Len(stack')))
    <2>1. PICK r : r = Reader!Ok(obj, p + 2)
      OBVIOUS
    <2>2. PICK q : q = One(stream, a, p + 2, top)
      OBVIOUS
    <2>3. Reads(stream, a, start + 1, stack, items, r)
      BY <2>1, PushHere
    <2>4. PICK k \in Nat : k = top - 1 /\ k + 1 = top
      BY <1>2
    <2>5. PICK sf : sf = stack'
      OBVIOUS
    <2>6. PICK lt : lt = items'
      OBVIOUS
    <2>7. Len(stack) = k + 1 /\ Len(sf) = k + 1 /\ Below(stack, items, sf, lt, k)
      BY <1>1, <2>4, <2>5, <2>6 DEF top
    <2>8. Combined(stream, a, stack[k + 1], items[k + 1], k + 1, r) =
          Combined(stream, a, sf[k + 1], lt[k + 1], k + 1, q)
      BY <1>1, <2>1, <2>2, <2>4, <2>5, <2>6
    <2>9. PICK b : b = start + 1
      OBVIOUS
    <2>10. Reads(stream, a, b, sf, lt, q)
      BY <2>3, <2>7, <2>8, <2>9, ReadsOn, Zenon
    <2> QED  BY <1>1, <2>2, <2>5, <2>6, <2>9, <2>10
  <1>4. Len(stack') \in Nat
    BY <1>1, <1>2
  <1> QED  BY <1>1, <1>2, <1>3, <1>4, HeaderAgainReads

LEMMA StoreNext ==
    ASSUME IInv, ReaderNow, pc = "push", top > 0, NEW v, NEW dt, Stores(stack[top].ct, v, dt),
           UNCHANGED <<stream, arrived, start>>, Store(v, dt), stack[top].count # 1
    PROVE  StepReads
  <1>1. PICK fr : fr = stack[top]
    OBVIOUS
  <1>2. PICK it : it = items[top]
    OBVIOUS
  <1>3. PICK gr : gr = [count |-> fr.count - 1, ct |-> dt, size |-> fr.size + 1, slots |-> fr.slots]
    OBVIOUS
  <1>4. PICK jt : jt = [values |-> Append(it.values, v), key |-> it.key]
    OBVIOUS
  <1>5. /\ fr.count \in Nat /\ fr.count > 1 /\ fr.size \in Nat /\ fr.slots \in Nat
        /\ it = [values |-> it.values, key |-> it.key] /\ IsList(it.values, fr.size) /\ top \in Nat
    BY <1>1, <1>2, TopItems
  <1>6. /\ gr \in Frame /\ gr.ct = dt /\ gr.count = fr.count - 1 /\ gr.size = fr.size + 1
        /\ jt.values = Append(it.values, v) /\ jt.key = it.key
    BY <1>3, <1>4, <1>5 DEF Frame, ContainerType, Stores
  <1>7. stack' = [stack EXCEPT ![top] = gr] /\ HeaderAgain(p)
    BY <1>1, <1>3 DEF Store
  <1>8. items' = [items EXCEPT ![top] = jt]
    <2>1. items' = [items EXCEPT ![top] = [items[top] EXCEPT !.values = Append(items[top].values, v)]]
      BY DEF Store
    <2>2. PICK u : u = Append(it.values, v)
      OBVIOUS
    <2>4. [it EXCEPT !.values = u] = [values |-> u, key |-> it.key]
      BY <1>5
    <2>3. [it EXCEPT !.values = Append(it.values, v)] = jt
      BY <1>4, <2>2, <2>4
    <2> QED  BY <1>2, <2>1, <2>3
  <1>9. IsList(jt.values, gr.size)
    <2>1. PICK l : l = it.values
      OBVIOUS
    <2>2. PICK n : n = fr.size
      OBVIOUS
    <2>3. IsList(Append(l, v), n + 1)
      BY <1>5, <2>1, <2>2, AppendIs, Zenon
    <2> QED  BY <1>6, <2>1, <2>2, <2>3
  <1>10. ASSUME NEW a \in arrived .. Len(stream)
         PROVE  Combined(stream, a, fr, it, top, Reader!Ok(obj, p + 2)) =
                Combined(stream, a, gr, jt, top, One(stream, a, p + 2, top))
    <2>1. /\ p + 2 \in Nat \ {0} /\ stream \in Seq(Byte) /\ a \in 0 .. Len(stream)
      BY PushHere
    <2>2. PICK i : i = p + 2
      OBVIOUS
    <2>3. PICK t : t = top
      OBVIOUS
    <2>4. PICK n : n = fr.size
      OBVIOUS
    <2>5. i \in Nat \ {0} /\ t \in Nat /\ n \in Nat /\ IsList(it.values, n)
      BY <1>5, <2>1, <2>2, <2>3, <2>4
    <2>6. CASE fr.ct = "ARRAY_ITEM"
      <3>1. v = obj /\ gr.ct = "ARRAY_ITEM"
        BY <1>1, <1>6, <2>6 DEF Stores
      <3>2. jt.values = Append(it.values, obj)
        BY <1>6, <3>1
      <3>3. Combined(stream, a, fr, it, t, Reader!Ok(obj, i)) = Combined(stream, a, gr, jt, t, One(stream, a, i, t))
        <4>1. Grows(fr, gr, it, jt, obj, n)
          BY <1>5, <1>6, <2>5, <3>2 DEF Grows
        <4> QED  BY <2>1, <2>5, <2>6, <3>1, <4>1, NextArrayItem
      <3> QED  BY <2>2, <2>3, <3>3
    <2>7. CASE fr.ct = "MAP_VALUE"
      <3>1. v = <<it.key, obj>> /\ gr.ct = "MAP_KEY"
        BY <1>1, <1>2, <1>6, <2>7 DEF Stores
      <3>2. jt.values = Append(it.values, <<it.key, obj>>)
        BY <1>6, <3>1
      <3>3. Combined(stream, a, fr, it, t, Reader!Ok(obj, i)) = Combined(stream, a, gr, jt, t, One(stream, a, i, t))
        <4>1. Grows(fr, gr, it, jt, <<it.key, obj>>, n)
          BY <1>5, <1>6, <2>5, <3>2 DEF Grows
        <4> QED  BY <2>1, <2>5, <2>7, <3>1, <4>1, NextMapValue
      <3> QED  BY <2>2, <2>3, <3>3
    <2> QED  BY <1>1, <2>6, <2>7 DEF Stores
  <1>11. jt = [values |-> jt.values, key |-> jt.key]
    BY <1>4
  <1> QED  BY <1>1, <1>2, <1>6, <1>7, <1>8, <1>9, <1>10, <1>11, OnReads

LEMMA PushReads ==
    ASSUME IInv, ReaderNow, Push_ArrayItem \/ Push_MapValue
    PROVE  StepReads
  <1>1. CASE Push_ArrayItem
    <2>1. /\ pc = "push" /\ top > 0 /\ Store(obj, "ARRAY_ITEM") /\ UNCHANGED <<stream, arrived, start>>
          /\ Stores(stack[top].ct, obj, "ARRAY_ITEM")
      BY <1>1 DEF Push_ArrayItem, data, past, Stores
    <2> QED  BY <2>1, StoreLast, StoreNext
  <1>2. CASE Push_MapValue
    <2>1. PICK v : v = <<items[top].key, obj>>
      OBVIOUS
    <2>2. /\ pc = "push" /\ top > 0 /\ Store(v, "MAP_KEY") /\ UNCHANGED <<stream, arrived, start>>
          /\ Stores(stack[top].ct, v, "MAP_KEY")
      BY <1>2, <2>1 DEF Push_MapValue, data, past, Stores
    <2> QED  BY <2>2, StoreLast, StoreNext
  <1> QED  BY <1>1, <1>2

LEMMA KeyReads ==
    ASSUME IInv, ReaderNow, Push_MapKey
    PROVE  StepReads
  <1>1. PICK fr : fr = stack[top]
    OBVIOUS
  <1>2. PICK it : it = items[top]
    OBVIOUS
  <1>3. PICK gr : gr = [fr EXCEPT !.ct = "MAP_VALUE"]
    OBVIOUS
  <1>4. PICK jt : jt = [values |-> it.values, key |-> obj]
    OBVIOUS
  <1>5. pc = "push" /\ top > 0 /\ fr.ct = "MAP_KEY" /\ HeaderAgain(p) /\ UNCHANGED <<stream, arrived, start>>
    BY <1>1 DEF Push_MapKey, data, past
  <1>6. /\ fr \in Frame /\ fr.count \in Nat /\ fr.count > 0 /\ fr.size \in Nat
        /\ it = [values |-> it.values, key |-> it.key] /\ IsList(it.values, fr.size) /\ top \in Nat
    BY <1>1, <1>2, <1>5, TopItems
  <1>7. /\ gr \in Frame /\ gr.ct = "MAP_VALUE" /\ gr.count = fr.count /\ gr.size = fr.size
        /\ jt.values = it.values /\ jt.key = obj
    BY <1>3, <1>4, <1>6 DEF Frame, ContainerType
  <1>8. stack' = [stack EXCEPT ![top] = gr]
    BY <1>1, <1>3 DEF Push_MapKey
  <1>9. items' = [items EXCEPT ![top] = jt]
    <2>1. items' = [items EXCEPT ![top] = [items[top] EXCEPT !.key = obj]]
      BY DEF Push_MapKey
    <2>2. [it EXCEPT !.key = obj] = jt
      BY <1>4, <1>6
    <2> QED  BY <1>2, <2>1, <2>2
  <1>10. ASSUME NEW a \in arrived .. Len(stream)
         PROVE  Combined(stream, a, fr, it, top, Reader!Ok(obj, p + 2)) =
                Combined(stream, a, gr, jt, top, One(stream, a, p + 2, top))
    <2>1. /\ p + 2 \in Nat \ {0} /\ stream \in Seq(Byte) /\ a \in 0 .. Len(stream)
      BY <1>5, PushHere
    <2>2. PICK i : i = p + 2
      OBVIOUS
    <2>3. PICK t : t = top
      OBVIOUS
    <2>4. i \in Nat \ {0} /\ t \in Nat
      BY <1>6, <2>1, <2>2, <2>3
    <2>5. Combined(stream, a, fr, it, t, Reader!Ok(obj, i)) = Combined(stream, a, gr, jt, t, One(stream, a, i, t))
      BY <1>5, <1>6, <1>7, <2>1, <2>4, NextMapKey
    <2> QED  BY <2>2, <2>3, <2>5
  <1>11. jt = [values |-> jt.values, key |-> jt.key] /\ IsList(jt.values, gr.size)
    BY <1>4, <1>6, <1>7
  <1> QED  BY <1>1, <1>2, <1>5, <1>7, <1>8, <1>9, <1>10, <1>11, OnReads

LEMMA FinishReads ==
    ASSUME IInv, ReaderNow, Finish
    PROVE  StepReads
  <1>1. /\ pc = "push" /\ top = 0 /\ pc' = "done" /\ ret' = "success" /\ off' = p + 1
        /\ UNCHANGED <<stream, arrived, start, stack, items, obj>>
    BY DEF Finish, End, data, past, open
  <1>2. (p + 1) + 1 = p + 2
    BY Ground
  <1>3. \A a : Current(a)' = Current(a)
    BY <1>1, <1>2, Zenon DEF Current
  <1>4. InMessage'
    BY <1>1, <1>3 DEF ReaderNow, InMessage
  <1>5. ItemsAre' /\ Widths'
    BY <1>1 DEF ReaderNow, ItemsAre, Widths, Waits, top
  <1> QED  BY <1>1, <1>4, <1>5 DEF StepReads, ReaderNow, top

LEMMA ContinueReads ==
    ASSUME Wide, IInv, ReaderNow, Continue, pc # "done"
    PROVE  StepReads
  <1>1. ASSUME NEW b \in Byte, Header(b) PROVE StepReads
    BY <1>1, HeaderReads
  <1> QED  BY <1>1, TrailReads, OutReads, PushReads, KeyReads, FinishReads DEF Continue, Next_Done
-----------------------------------------------------------------------------
(* Every function *)

\* The context is that of a call that runs, or of one that the unpacker goes on from.
Live == pc # "idle" \/ (function = "unpacker" /\ ret \in {"success", "continue"})

ReaderInv ==
    /\ Live => ReaderNow
    /\ pc = "done" => Len(stack) = 0 /\ ret = "success"
    /\ Running /\ pc = "idle" => /\ ret # "success"
                                 /\ ret = "continue" => Reader!Reading.is = "more"
                                 /\ ret = "parse_error" => Reader!Reading.is = "parse_error"

\* A message begins.
Fresh == /\ stack = << >> /\ items = << >> /\ cs = CS_HEADER
         /\ pc \in {"idle", "header"} /\ Place = start

LEMMA FreshNow == Fresh => ReaderNow
  <1> SUFFICES ASSUME Fresh PROVE ReaderNow
    OBVIOUS
  <1>1. Len(stack) = 0 /\ top = 0
    BY DEF Fresh, top
  <1>2. \A a : Current(a) = One(stream, a, start + 1, 0)
    BY <1>1, Zenon DEF Fresh, Current
  <1>3. InMessage
    BY <1>1, <1>2, ReadsFirst DEF InMessage
  <1>4. ItemsAre
    BY <1>1, NoneIs DEF ItemsAre, Fresh
  <1>5. Widths
    BY DEF Widths, Waits, Fresh
  <1> QED  BY <1>3, <1>4, <1>5 DEF ReaderNow

LEMMA FreshNext == Fresh' => ReaderNow'
  BY FreshNow, PTL

LEMMA FirstReads == Once_Init => ReaderInv
  <1> SUFFICES ASSUME Once_Init PROVE ReaderInv
    OBVIOUS
  <1>1. Fresh /\ pc = "idle" /\ ~Running
    BY DEF Once_Init, Init, Fresh, Place, Running
  <1> QED  BY <1>1, FreshNow DEF ReaderInv

\* More bytes arrive.
LEMMA ArriveReads ==
    ASSUME OnceInv, IInv, ReaderNow, NEW n \in 1 .. Len(stream), Arrive(n)
    PROVE  ReaderNow'
  <1>1. /\ UNCHANGED <<stream, start, off, pc, ret, cs, trail, stack, items, p, obj>>
        /\ arrived' = arrived + n
    BY DEF Arrive, call, state, open, past
  <1>2. \A a \in arrived' .. Len(stream) : a \in arrived .. Len(stream)
    BY <1>1, Ground
  <1>3. \A a : Current(a)' = Current(a)
    BY <1>1, Zenon DEF Current, Place, top
  <1>4. InMessage'
    BY <1>1, <1>2, <1>3 DEF ReaderNow, InMessage
  <1>5. ItemsAre' /\ Widths'
    BY <1>1 DEF ReaderNow, ItemsAre, Widths, Waits, top
  <1> QED  BY <1>4, <1>5 DEF ReaderNow

\* The call goes on at the place that was kept.
LEMMA ExecuteReads ==
    ASSUME ReaderNow, Execute
    PROVE  ReaderNow'
  <1>1. /\ UNCHANGED <<stream, arrived, start, off, ret, cs, trail, stack, items, obj>>
        /\ pc = "idle" /\ p' = off /\ ret \in {"success", "continue"}
        /\ pc' = IF cs = CS_HEADER THEN "header" ELSE "trail"
    BY DEF Execute, data, state, open, past
  <1>2. \A a : Current(a)' = Current(a)
    <2>1. CASE cs = CS_HEADER
      BY <1>1, <2>1, Zenon DEF Current, Place, top
    <2>2. CASE cs # CS_HEADER
      BY <1>1, <2>2, Zenon DEF Current, Place, top
    <2> QED  BY <2>1, <2>2
  <1>3. InMessage'
    BY <1>1, <1>2 DEF ReaderNow, InMessage
  <1>4. ItemsAre' /\ Widths'
    BY <1>1 DEF ReaderNow, ItemsAre, Widths, Waits, top
  <1> QED  BY <1>3, <1>4 DEF ReaderNow

LEMMA Continues ==
    ASSUME Wide, OnceInv, ReaderInv, function # "none", Continue, pc # "done"
    PROVE  StepReads /\ pc # "idle" /\ UNCHANGED <<stream, arrived, start>>
  <1>1. IInv
    BY OnceIsIInv
  <1>2. pc # "idle"
    BY DEF Continue, Header, Trail, Out, Push_ArrayItem, Push_MapKey, Push_MapValue, Finish, Next_Done
  <1>3. ReaderNow
    BY <1>2 DEF ReaderInv, Live
  <1>4. UNCHANGED <<stream, arrived, start>>
    BY MessageStays DEF Continue, Header, Trail, Out, Push_ArrayItem, Push_MapKey, Push_MapValue,
                        Finish, Next_Done, data
  <1> QED  BY <1>1, <1>2, <1>3, <1>4, ContinueReads

LEMMA ReaderStep == Wide /\ OnceInv /\ ReaderInv /\ [Once_Next]_once_vars => ReaderInv'
  <1> SUFFICES ASSUME Wide, OnceInv, ReaderInv, [Once_Next]_once_vars PROVE ReaderInv'
    OBVIOUS
  <1>1. CASE Streaming(Next)
    <2>1. function = "unpacker" /\ function' = "unpacker" /\ Next /\ ~Running /\ ~Running' /\ IInv
      BY <1>1, OnceIsIInv DEF Streaming, once, Running
    <2>2. ASSUME NEW n \in 1 .. Len(stream), Arrive(n) PROVE ReaderInv'
      <3>1. pc' = "idle" /\ pc = "idle" /\ ret' = ret
        BY <2>2 DEF Arrive, call
      <3>2. Live' => Live
        BY <2>1, <3>1 DEF Live
      <3>3. Live' => ReaderNow'
        BY <2>1, <2>2, <3>2, ArriveReads DEF ReaderInv
      <3> QED  BY <2>1, <3>1, <3>3 DEF ReaderInv
    <2>3. CASE Execute
      <3>1. pc = "idle" /\ ret \in {"success", "continue"} /\ pc' # "done"
        BY <2>3 DEF Execute
      <3>2. ReaderNow'
        BY <2>1, <2>3, <3>1, ExecuteReads DEF ReaderInv, Live
      <3> QED  BY <2>1, <3>1, <3>2 DEF ReaderInv
    <2>4. CASE Continue /\ pc # "done"
      <3>1. StepReads
        BY <2>1, <2>4, Continues
      <3> QED  BY <2>1, <3>1 DEF StepReads, ReaderInv, Live, Alive
    <2>5. CASE Continue /\ pc = "done"
      <3>1. Next_Done
        BY <2>5 DEF Continue, Header, Trail, Out, Push_ArrayItem, Push_MapKey, Push_MapValue, Finish
      <3>2. Fresh' /\ pc' = "idle"
        BY <3>1 DEF Next_Done, Fresh, Place
      <3> QED  BY <2>1, <3>2, FreshNext DEF ReaderInv
    <2> QED  BY <2>1, <2>2, <2>3, <2>4, <2>5 DEF Next
  <1>2. ASSUME NEW n \in 1 .. Len(stream), Once_Arrive(n) PROVE ReaderInv'
    <2>1. function' = "none" /\ pc' = "idle"
      BY <1>2 DEF Once_Arrive, Arrive, once, call
    <2> QED  BY <2>1 DEF ReaderInv, Live, Running
  <1>3. ASSUME NEW f \in {"unpack", "unpack_next"}, Call_Empty(f) PROVE ReaderInv'
    <2>1. function' = "none" /\ pc' = "idle"
      BY <1>3 DEF Call_Empty, call, OnceInv
    <2> QED  BY <2>1 DEF ReaderInv, Live, Running
  <1>4. ASSUME NEW f \in {"unpack", "unpack_next"}, Call(f) PROVE ReaderInv'
    <2>1. Fresh' /\ pc' = "header"
      BY <1>4 DEF Call, Fresh, Place, past
    <2> QED  BY <2>1, FreshNext DEF ReaderInv
  <1>5. CASE Once_Continue
    <2>1. Running /\ Continue /\ pc # "done" /\ UNCHANGED function /\ function # "none"
      BY <1>5 DEF Once_Continue, once, Running
    <2>2. StepReads /\ UNCHANGED <<stream, arrived, start>>
      BY <2>1, Continues
    <2>3. Reader!Reading' = Reader!Reading
      BY <2>2 DEF Reader!Reading
    <2>4. ASSUME pc' = "idle"
          PROVE  /\ ret' # "success" /\ (ret' = "continue" => Reader!Reading'.is = "more")
                 /\ ret' = "parse_error" => Reader!Reading'.is = "parse_error"
      BY <2>2, <2>3, <2>4, Zenon DEF StepReads
    <2>5. (Live => ReaderNow)'
      BY <2>1, <2>2 DEF StepReads, Live, Alive, Running
    <2>6. (pc = "done" => Len(stack) = 0 /\ ret = "success")'
      BY <2>2 DEF StepReads
    <2> QED  BY <2>4, <2>5, <2>6, Zenon DEF ReaderInv
  <1>6. CASE Once_Return
    <2>1. function' = "none" /\ pc' = "idle"
      BY <1>6 DEF Once_Return
    <2> QED  BY <2>1 DEF ReaderInv, Live, Running
  <1>7. CASE UNCHANGED once_vars
    <2>1. /\ UNCHANGED <<stream, arrived, off, cs, trail, stack, items, p, obj, pc, ret, start>>
          /\ UNCHANGED function
      BY <1>7 DEF once_vars, vars, once
    <2>2. \A a : Current(a)' = Current(a)
      BY <2>1, Zenon DEF Current, Place, top
    <2>3. ReaderNow' <=> ReaderNow
      BY <2>1, <2>2 DEF ReaderNow, InMessage, ItemsAre, Widths, Waits, top
    <2>4. Reader!Reading' = Reader!Reading
      BY <2>1 DEF Reader!Reading
    <2> QED  BY <2>1, <2>3, <2>4, Zenon DEF ReaderInv, Live, Running
  <1> QED  BY <1>1, <1>2, <1>3, <1>4, <1>5, <1>6, <1>7 DEF Once_Next

\* Whatever function runs, the message that it reads is what it is when the rest of it, from
\* the parser's place on, is read at once; and an outcome is what such a reading says.
THEOREM ReaderInvariance ==
    ASSUME Wide PROVE Once_Spec => []ReaderInv
  <1>1. OnceInv /\ ReaderInv /\ [Once_Next]_once_vars => ReaderInv'
    BY ReaderStep
  <1> QED  BY <1>1, FirstReads, OnceInvariance, PTL DEF Once_Spec

\* What is read when the parser is done.
LEMMA DoneReads ==
    ASSUME OnceInv, ReaderInv, function # "none", pc = "done"
    PROVE  /\ Reader!Reading.is = "ok" /\ Reader!Reading.obj = obj /\ Reader!Reading.next = off + 1
           /\ ret = "success" /\ off \in Nat /\ arrived \in Nat
  <1>1. IInv
    BY OnceIsIInv
  <1>2. Len(stack) = 0 /\ ret = "success" /\ InMessage
    BY DEF ReaderInv, Live, ReaderNow
  <1>3. PICK r : r = Reader!Ok(obj, off + 1)
    OBVIOUS
  <1>4. Current(arrived) = r
    BY <1>3, Zenon DEF Current
  <1>5. Reads(stream, arrived, start + 1, stack, items, r)
    BY <1>1, <1>2, <1>4, Ground DEF InMessage
  <1>6. Reader!Reading = r
    BY <1>2, <1>5, ReadsAll, ReadingIs
  <1> QED  BY <1>1, <1>2, <1>3, <1>6, Ground, OutcomeIs

\* Only the end of a call moves on to another message.
LEMMA Delivers ==
    ASSUME OnceInv, ReaderInv, [Once_Next]_once_vars
    PROVE  \/ UNCHANGED <<stream, start, out>> /\ arrived' \in arrived .. Len(stream)
           \/ /\ Reader!Reading.is = "ok" /\ out' = Append(out, Reader!Reading.obj)
              /\ start' = Reader!Reading.next - 1 /\ UNCHANGED <<stream, arrived>>
  <1> DEFINE Stays == UNCHANGED <<stream, arrived, start, out>>
             Goal == \/ UNCHANGED <<stream, start, out>> /\ arrived' \in arrived .. Len(stream)
                     \/ /\ Reader!Reading.is = "ok" /\ out' = Append(out, Reader!Reading.obj)
                        /\ start' = Reader!Reading.next - 1 /\ UNCHANGED <<stream, arrived>>
  <1>1. stream \in Seq(Byte) /\ arrived \in 0 .. Len(stream) /\ Len(stream) \in Nat
    BY TemplateConstants DEF OnceInv, TypeOK
  <1>2. Stays => Goal
    BY <1>1
  <1>3. ASSUME NEW n \in 1 .. Len(stream), Arrive(n) PROVE Goal
    <2>1. /\ UNCHANGED <<stream, start, out>> /\ arrived' = arrived + n /\ arrived + n <= Len(stream)
      BY <1>3 DEF Arrive, past
    <2> QED  BY <1>1, <2>1
  <1>4. ASSUME pc = "done", function # "none", out' = Append(out, obj), start' = off,
               UNCHANGED <<stream, arrived>>
        PROVE  Goal
    <2>1. /\ Reader!Reading.is = "ok" /\ Reader!Reading.obj = obj /\ Reader!Reading.next = off + 1
          /\ off \in Nat
      BY <1>4, DoneReads
    <2>2. Reader!Reading.next - 1 = off
      BY <2>1
    <2> QED  BY <1>4, <2>1, <2>2
  <1>5. Continue /\ ~Next_Done => Stays
    BY DEF Continue, Header, Trail, Out, Push_ArrayItem, Push_MapKey, Push_MapValue, Finish, data, past
  <1>6. CASE Streaming(Next)
    <2>1. function # "none" /\ Next
      BY <1>6 DEF Streaming
    <2>2. CASE Execute
      BY <1>2, <2>2 DEF Execute, data, past
    <2>3. CASE Next_Done
      BY <1>4, <2>1, <2>3 DEF Next_Done, data
    <2> QED  BY <1>2, <1>3, <1>5, <2>1, <2>2, <2>3 DEF Next
  <1>7. ASSUME NEW n \in 1 .. Len(stream), Once_Arrive(n) PROVE Goal
    BY <1>3, <1>7 DEF Once_Arrive
  <1>8. ASSUME NEW f \in {"unpack", "unpack_next"}, Call_Empty(f) \/ Call(f) PROVE Goal
    BY <1>2, <1>8 DEF Call_Empty, Call, data, past
  <1>9. CASE Once_Continue
    BY <1>2, <1>5, <1>9 DEF Once_Continue, Next_Done
  <1>10. CASE Once_Return
    <2>1. /\ Running /\ pc \in {"idle", "done"} /\ function # "none" /\ UNCHANGED <<stream, arrived>>
          /\ IF ret = "success" THEN out' = Append(out, obj) /\ start' = off ELSE UNCHANGED <<start, out>>
      BY <1>10 DEF Once_Return, data, past, Running
    <2>2. CASE pc = "done"
      BY <1>4, <2>1, <2>2, DoneReads
    <2>3. CASE pc = "idle"
      BY <1>2, <2>1, <2>3 DEF ReaderInv
    <2> QED  BY <2>1, <2>2, <2>3
  <1>11. CASE UNCHANGED once_vars
    BY <1>2, <1>11 DEF once_vars, vars
  <1> QED  BY <1>6, <1>7, <1>8, <1>9, <1>10, <1>11 DEF Once_Next

\* Chunking is invisible: whatever function unpacks, in calls of whatever bytes, the objects
\* delivered are those that reading the stream at once finds, and the next one begins right
\* behind; for every stream, when a size of 32 bits fits in an unsigned int.
THEOREM OnceRefines ==
    ASSUME Wide PROVE Once_Spec => RefinesMessageReader
  <1>1. Once_Init => Reader!Init
    BY DEF Once_Init, Init, Reader!Init
  <1>2. OnceInv /\ ReaderInv /\ [Once_Next]_once_vars => [Reader!Next]_(Reader!vars)
    <2> SUFFICES ASSUME OnceInv, ReaderInv, [Once_Next]_once_vars
                 PROVE  Reader!Next
      OBVIOUS
    <2>1. CASE UNCHANGED <<stream, start, out>> /\ arrived' \in arrived .. Len(stream)
      BY <2>1 DEF Reader!Next, Reader!Arrive
    <2>2. CASE /\ Reader!Reading.is = "ok" /\ out' = Append(out, Reader!Reading.obj)
               /\ start' = Reader!Reading.next - 1 /\ UNCHANGED <<stream, arrived>>
      BY <2>2, Zenon DEF Reader!Next, Reader!Deliver
    <2> QED  BY <2>1, <2>2, Delivers
  <1> QED  BY <1>1, <1>2, OnceInvariance, ReaderInvariance, PTL
              DEF Once_Spec, RefinesMessageReader, Reader!Spec

\* A call of template_execute ends.
LEMMA ExecuteHonest ==
    ASSUME Wide, OnceInv, ReaderInv, [Once_Next]_once_vars
    PROVE  /\ Returns("continue") => Reader!Reading.is = "more"
           /\ Returns("parse_error") => Reader!Reading.is = "parse_error"
  <1> SUFFICES ASSUME NEW r, Returns(r)
               PROVE  /\ r = "continue" => Reader!Reading.is = "more"
                      /\ r = "parse_error" => Reader!Reading.is = "parse_error"
    OBVIOUS
  <1>1. pc \in {"header", "trail", "push"} /\ pc' = "idle" /\ ret' = r
    BY DEF Returns
  <1>2. function # "none" /\ Continue /\ pc # "done"
    <2>1. function # "none"
      BY <1>1 DEF OnceInv
    <2>2. CASE Streaming(Next)
      BY <1>1, <2>1, <2>2 DEF Streaming, Next, Arrive, Execute
    <2>3. CASE Once_Continue
      BY <2>1, <2>3 DEF Once_Continue
    <2>4. CASE Once_Return
      BY <1>1, <2>4 DEF Once_Return
    <2>5. CASE UNCHANGED once_vars
      BY <1>1, <2>5 DEF once_vars, vars
    <2> QED  BY <2>1, <2>2, <2>3, <2>4, <2>5 DEF Once_Next, Once_Arrive, Call_Empty, Call
  <1>3. StepReads
    BY <1>2, Continues
  <1> QED  BY <1>1, <1>3 DEF StepReads

\* A function of one object returns.
LEMMA ReturnHonest ==
    ASSUME OnceInv, ReaderInv, [Once_Next]_once_vars, Running, function' = "none"
    PROVE  LET r == Reader!Reading
               more == r.next <= arrived
           IN  /\ returned' = "continue" => r.is = "more"
               /\ returned' = "parse_error" => r.is = "parse_error"
               /\ returned' = "extra_bytes" => r.is = "ok" /\ more
               /\ returned' = "success" => r.is = "ok" /\ (function = "unpack" => ~more)
  <1>1. Once_Return /\ function # "none"
    BY DEF Once_Next, Streaming, Once_Arrive, Call_Empty, Call, Once_Continue, Running, once, once_vars
  <1>2. returned' = (IF Extra THEN "extra_bytes" ELSE ret) /\ pc \in {"idle", "done"}
    BY <1>1 DEF Once_Return
  <1>3. CASE pc = "idle"
    <2>1. /\ ret # "success"
          /\ ret = "continue" => Reader!Reading.is = "more"
          /\ ret = "parse_error" => Reader!Reading.is = "parse_error"
      BY <1>3 DEF ReaderInv
    <2>2. returned' = ret /\ ret # "extra_bytes"
      BY <1>2, <2>1 DEF Extra, OnceInv, TypeOK
    <2> QED  BY <2>1, <2>2
  <1>4. CASE pc = "done"
    <2>1. /\ Reader!Reading.is = "ok" /\ Reader!Reading.next = off + 1
          /\ ret = "success" /\ off \in Nat /\ arrived \in Nat
      BY <1>1, <1>4, DoneReads
    <2>2. Reader!Reading.next <= arrived <=> off < arrived
      BY <2>1
    <2> QED  BY <1>2, <2>1, <2>2 DEF Extra
  <1> QED  BY <1>2, <1>3, <1>4

\* MSGPACK_UNPACK_CONTINUE is only returned for a message that is not complete, and
\* MSGPACK_UNPACK_PARSE_ERROR only for bytes that begin none; extra bytes are bytes behind
\* the object.
THEOREM OnceHonest ==
    ASSUME Wide PROVE Once_Spec => Once_OutcomeHonest
  <1> DEFINE A == /\ Returns("continue") => Reader!Reading.is = "more"
                  /\ Returns("parse_error") => Reader!Reading.is = "parse_error"
             B == Running /\ function' = "none" =>
                    LET r == Reader!Reading
                        more == r.next <= arrived
                    IN  /\ returned' = "continue" => r.is = "more"
                        /\ returned' = "parse_error" => r.is = "parse_error"
                        /\ returned' = "extra_bytes" => r.is = "ok" /\ more
                        /\ returned' = "success" => r.is = "ok" /\ (function = "unpack" => ~more)
  <1>1. OnceInv /\ ReaderInv /\ [Once_Next]_once_vars => [A]_vars
    BY ExecuteHonest
  <1>2. OnceInv /\ ReaderInv /\ [Once_Next]_once_vars => [B]_once_vars
    BY ReturnHonest
  <1> HIDE DEF A, B
  <1>3. Once_Spec => [][A]_vars /\ [][B]_once_vars
    BY <1>1, <1>2, OnceInvariance, ReaderInvariance, PTL DEF Once_Spec
  <1> QED  BY <1>3 DEF Once_OutcomeHonest, OutcomeHonest, A, B
=============================================================================
