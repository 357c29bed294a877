--------------------------- MODULE TemplateContext ---------------------------
(***************************************************************************)
(* The resumable parser of the C library, template_execute                   *)
(* (unpack_template.h) with the callbacks of unpack.c, as driven by          *)
(* msgpack_unpacker_next.                                                    *)
(*                                                                           *)
(* The bytes of a stream arrive in chunks of any size.  Each call parses what *)
(* has arrived; when that ends in the middle of an object, the call saves its *)
(* place (the state cs, the trail it waits for, the stack of open containers) *)
(* in the context and the next call goes on from there.  A step is one        *)
(* passage of the parser's loop: a header byte, what trails it, or one level  *)
(* of the climb from a finished object to the container that wants it.        *)
(*                                                                           *)
(* Offsets are positions in the stream; that the bytes in the buffer are the  *)
(* stream is Unpacker's StreamIntact.  An object is <<type, value>>.          *)
(***************************************************************************)
EXTENDS WireFormat

CONSTANTS
    Streams,    \* the streams of bytes considered
    STACK_SIZE, \* MSGPACK_EMBED_STACK_SIZE
    UINT        \* the number of values of an unsigned int

ASSUME TemplateConstants ==
    /\ Streams \subseteq Seq(Byte)
    /\ STACK_SIZE \in Nat \ {0}
    /\ UINT \in Nat /\ UINT > 65536

VARIABLES
    stream, arrived,    \* the stream, and how much of it has been received
    off, parsed,        \* mpac->off, mpac->parsed
    cs, trail,          \* of the context
    stack,              \* the frames below top: count, ct, and of the frame's
                        \* object its size and the slots allocated for its items
    items,              \* what those slots hold: values, and the key in map_key
    z,                  \* *user->z: is there a zone?
    p, obj,             \* locals of template_execute
    pc,                 \* where the call is: "idle" when there is none
    ret,                \* what the last call returned
    start, out          \* (history) where the current message begins, and the
                        \* objects that next delivered

data  == <<stream, arrived>>
state == <<cs, trail>>
open  == <<stack, items>>
call  == <<off, parsed, pc, ret>>
past  == <<start, out>>
vars == <<stream, arrived, off, parsed, cs, trail, stack, items, z, p, obj, pc,
          ret, start, out>>

top == Len(stack)
At(i) == stream[i + 1]
Bytes(i, n) == SubSeq(stream, i + 1, i + n)
UInt(n) == n % UINT

NIL == <<"nil", << >> >>

Frame == [count : Nat, ct : ContainerType, size : Nat, slots : Nat]

TypeOK ==
    /\ stream \in Streams
    /\ arrived \in 0 .. Len(stream)
    /\ off \in Nat
    /\ parsed \in Nat
    /\ cs \in 0 .. ACS_EXT_VALUE
    /\ trail \in 0 .. UINT - 1
    /\ stack \in Seq(Frame)
    /\ z \in BOOLEAN
    /\ p \in Nat
    /\ pc \in {"idle", "header", "trail", "push", "done"}
    /\ ret \in {"success", "continue", "parse_error", "nomem"}
    /\ start \in Nat

\* template_init, and the first message.
Init ==
    /\ stream \in Streams
    /\ arrived = 0
    /\ off = 0 /\ parsed = 0
    /\ cs = CS_HEADER /\ trail = 0
    /\ stack = << >> /\ items = << >>
    /\ z = FALSE
    /\ p = 0 /\ obj = NIL
    /\ pc = "idle" /\ ret = "continue"
    /\ start = 0 /\ out = << >>
-----------------------------------------------------------------------------
(* Calls *)

\* msgpack_unpacker_buffer_consumed(mpac, n)
Arrive(n) ==
    /\ pc = "idle"
    /\ arrived + n <= Len(stream)
    /\ arrived' = arrived + n
    /\ UNCHANGED <<stream, call, state, open, z, p, obj, past>>

\* Mutant: the state is not resumed, so a call reads a header first.
ExecuteAfresh ==
    /\ pc = "idle"
    /\ ret \in {"success", "continue"}
    /\ off # arrived
    /\ p' = off
    /\ pc' = "header"
    /\ UNCHANGED <<data, off, parsed, ret, state, open, z, obj, past>>

\* template_execute goes on where the last call stopped.  The application does
\* not call again after an error.
Execute ==
    /\ pc = "idle"
    /\ ret \in {"success", "continue"}
    /\ off # arrived
    /\ p' = off
    /\ pc' = IF cs = CS_HEADER THEN "header" ELSE "trail"
    /\ UNCHANGED <<data, off, parsed, ret, state, open, z, obj, past>>

\* Mutant: the size of the last call instead of all of the message's.
EndForgets(r, q) ==
    /\ off' = q
    /\ parsed' = q - off
    /\ p' = q
    /\ ret' = r
    /\ pc' = IF r = "success" THEN "done" ELSE "idle"

\* _end: the call stops at q and returns r.  msgpack_unpacker_execute counts what
\* it consumed.
End(r, q) ==
    /\ off' = q
    /\ parsed' = IF q > off THEN parsed + q - off ELSE parsed
    /\ p' = q
    /\ ret' = r
    /\ pc' = IF r = "success" THEN "done" ELSE "idle"

\* goto label, with the parser at q.
Goto(label, q) ==
    /\ pc' = label
    /\ p' = q
    /\ UNCHANGED <<off, parsed, ret>>

\* Mutant: without while(p != pe).
HeaderAgainUnchecked(q) == cs' = CS_HEADER /\ Goto("header", q + 1)

\* _header_again: the byte at q is done with.
HeaderAgain(q) ==
    /\ cs' = CS_HEADER
    /\ IF q + 1 = arrived THEN End("continue", q + 1) ELSE Goto("header", q + 1)
-----------------------------------------------------------------------------
(* What a header, or what trails it, leads to; the last byte read is at q *)

\* _failed
Fail(r, q) == End(r, q) /\ UNCHANGED obj

\* A callback makes the object o.
Value(o, q) == Goto("push", q) /\ obj' = o /\ UNCHANGED <<open, z>>

\* A callback that needs a zone for the object makes one.
ValueInZone(o, q) ==
    \/ Goto("push", q) /\ obj' = o /\ z' = TRUE /\ UNCHANGED open
    \/ ~z /\ Fail("nomem", q) /\ UNCHANGED <<open, z>>

\* again_fixed_trail: n bytes follow, to be read in state c.
Await(c, n, q) ==
    /\ cs' = c
    /\ trail' = n
    /\ Goto("trail", q + 1)
    /\ UNCHANGED <<open, z, obj>>

Empty(ct) == <<IF ct = "ARRAY_ITEM" THEN "array" ELSE "map", << >> >>

\* Mutant: a container is opened when the stack is full.
StartDeep(ct, n, q) ==
    /\ UNCHANGED trail
    /\ \/ /\ n = 0
          /\ Goto("push", q)
          /\ obj' = Empty(ct)
          /\ z' = TRUE
          /\ UNCHANGED <<cs, open>>
       \/ /\ n > 0
          /\ stack' = Append(stack, [count |-> n, ct |-> ct, size |-> 0, slots |-> n])
          /\ items' = Append(items, [values |-> << >>, key |-> NIL])
          /\ z' = TRUE
          /\ HeaderAgain(q)
          /\ UNCHANGED obj
       \/ /\ Fail("nomem", q)
          /\ z' \in {z, TRUE}
          /\ UNCHANGED <<cs, open>>

\* start_container with n items.  It fails when the stack is full, or when there
\* is no memory for a zone or for the items.
Start(ct, n, q) ==
    /\ UNCHANGED trail
    /\ \/ /\ top < STACK_SIZE
          /\ n = 0
          /\ Goto("push", q)
          /\ obj' = Empty(ct)
          /\ z' = TRUE
          /\ UNCHANGED <<cs, open>>
       \/ /\ top < STACK_SIZE
          /\ n > 0
          /\ stack' = Append(stack, [count |-> n, ct |-> ct, size |-> 0, slots |-> n])
          /\ items' = Append(items, [values |-> << >>, key |-> NIL])
          /\ z' = TRUE
          /\ HeaderAgain(q)
          /\ UNCHANGED obj
       \/ /\ Fail("nomem", q)
          /\ z' \in IF top < STACK_SIZE THEN {z, TRUE} ELSE {z}
          /\ UNCHANGED <<cs, open>>
-----------------------------------------------------------------------------
(* The loop *)

\* case MSGPACK_CS_HEADER, for the byte b at p.
Header(b) ==
    /\ pc = "header"
    /\ b = At(p)
    /\ \/ b \in PositiveFixnum /\ Value(<<"positive", b>>, p) /\ UNCHANGED state
       \/ b \in NegativeFixnum /\ Value(<<"negative", b - 256>>, p) /\ UNCHANGED state
       \/ b = Nil /\ Value(NIL, p) /\ UNCHANGED state
       \/ b = False /\ Value(<<"boolean", FALSE>>, p) /\ UNCHANGED state
       \/ b = True /\ Value(<<"boolean", TRUE>>, p) /\ UNCHANGED state
       \/ b \in Variable /\ Await(NEXT_CS(b), FixedTrail(b), p)
       \/ b \in FixExt /\ Await(ACS_EXT_VALUE, FixExtTrail(b), p)
       \/ b = 160 /\ ValueInZone(<<"str", << >> >>, p) /\ trail' = 0 /\ UNCHANGED cs
       \/ b \in FixStr \ {160} /\ Await(ACS_STR_VALUE, b - 160, p)
       \/ b \in FixArray /\ Start("ARRAY_ITEM", b - 144, p)
       \/ b \in FixMap /\ Start("MAP_KEY", b - 128, p)
       \/ b = 193 /\ Fail("parse_error", p) /\ UNCHANGED <<state, open, z>>
    /\ UNCHANGED <<data, past>>

\* The number in bs, as the callback for state c stores it.
Number(c, bs) ==
    CASE c = CS_FLOAT  -> <<"float32", bs>>
      [] c = CS_DOUBLE -> <<"float64", bs>>
      [] c \in CS_UINT -> <<"positive", LoadUnsigned(bs)>>
      [] c \in CS_INT  -> <<IF LoadSigned(bs) >= 0 THEN "positive" ELSE "negative",
                            LoadSigned(bs)>>

\* What _str, _bin and _ext make of the bytes they are given.
Raw(c, bs) ==
    CASE c = ACS_STR_VALUE -> <<"str", bs>>
      [] c = ACS_BIN_VALUE -> <<"bin", bs>>
      [] c = ACS_EXT_VALUE -> <<"ext", <<LoadSigned(<<bs[1]>>), Tail(bs)>> >>

\* The state that reads what a size in state c announces, and for how many bytes.
ValueState(c) == IF c \in CS_STR THEN ACS_STR_VALUE
                 ELSE IF c \in CS_BIN THEN ACS_BIN_VALUE ELSE ACS_EXT_VALUE

\* Mutant: the sum of an ext size and its type byte is not an unsigned int.
ValueTrailWide(c, bs) == LoadUnsigned(bs) + (IF c \in CS_EXT THEN 1 ELSE 0)

ValueTrail(c, bs) == IF c \in CS_EXT THEN UInt(UInt(LoadUnsigned(bs)) + 1)
                                     ELSE UInt(LoadUnsigned(bs))

\* The default case when all that trails the header has arrived: bs, up to q.
Read(c, bs, q) ==
    \/ c \in CS_NUMBER /\ Value(Number(c, bs), q) /\ UNCHANGED state
    \/ /\ c \in CS_SIZE
       /\ ValueTrail(c, bs) > 0
       /\ Await(ValueState(c), ValueTrail(c, bs), q)
    \/ /\ c \in CS_STR \cup CS_BIN
       /\ ValueTrail(c, bs) = 0
       /\ ValueInZone(Raw(ValueState(c), << >>), q)
       /\ trail' = 0
       /\ UNCHANGED cs
    \/ /\ c \in CS_EXT
       /\ ValueTrail(c, bs) = 0
       /\ Fail("parse_error", q)
       /\ trail' = 0
       /\ UNCHANGED <<cs, open, z>>
    \/ c \in ACS_VALUE /\ ValueInZone(Raw(c, bs), q) /\ UNCHANGED state
    \/ c \in CS_ARRAY /\ Start("ARRAY_ITEM", UInt(LoadUnsigned(bs)), q)
    \/ c \in CS_MAP /\ Start("MAP_KEY", UInt(LoadUnsigned(bs)), q)

\* Mutant: waits for a byte too many.
OutOffByOne ==
    /\ pc = "trail"
    /\ arrived - p <= trail
    /\ End("continue", p)
    /\ UNCHANGED <<data, state, open, z, obj, past>>

\* Mutant: looks again instead of returning.
OutSpins == pc = "trail" /\ arrived - p < trail /\ UNCHANGED vars

\* The bytes that trail the header have not all arrived: _out.
Out ==
    /\ pc = "trail"
    /\ arrived - p < trail
    /\ End("continue", p)
    /\ UNCHANGED <<data, state, open, z, obj, past>>

Trail ==
    /\ pc = "trail"
    /\ arrived - p >= trail
    /\ Read(cs, Bytes(p, trail), p + trail - 1)
    /\ UNCHANGED <<data, past>>

\* _push of an item into the innermost open container, which is complete when it
\* has all its items, and is then pushed in turn.
Store(v, ct) ==
    LET c == stack[top] IN
    IF c.count = 1
    THEN /\ obj' = <<Empty(c.ct)[1], Append(items[top].values, v)>>
         /\ stack' = SubSeq(stack, 1, top - 1)
         /\ items' = SubSeq(items, 1, top - 1)
         /\ UNCHANGED <<call, p, state>>
    ELSE /\ stack' = [stack EXCEPT ![top] =
                        [count |-> c.count - 1, ct |-> ct,
                         size |-> c.size + 1, slots |-> c.slots]]
         /\ items' = [items EXCEPT ![top].values = Append(@, v)]
         /\ HeaderAgain(p)
         /\ UNCHANGED <<trail, obj>>

Push_ArrayItem ==
    /\ pc = "push" /\ top > 0 /\ stack[top].ct = "ARRAY_ITEM"
    /\ Store(obj, "ARRAY_ITEM")
    /\ UNCHANGED <<data, z, past>>

Push_MapKey ==
    /\ pc = "push" /\ top > 0 /\ stack[top].ct = "MAP_KEY"
    /\ stack' = [stack EXCEPT ![top].ct = "MAP_VALUE"]
    /\ items' = [items EXCEPT ![top].key = obj]
    /\ HeaderAgain(p)
    /\ UNCHANGED <<data, trail, z, obj, past>>

Push_MapValue ==
    /\ pc = "push" /\ top > 0 /\ stack[top].ct = "MAP_VALUE"
    /\ Store(<<items[top].key, obj>>, "MAP_KEY")
    /\ UNCHANGED <<data, z, past>>

\* _finish: the message is complete.
Finish ==
    /\ pc = "push" /\ top = 0
    /\ End("success", p + 1)
    /\ UNCHANGED <<data, state, open, z, obj, past>>

\* The rest of msgpack_unpacker_next: the zone and the object go to the result,
\* and msgpack_unpacker_reset makes the context ready for the next message.
Next_Done ==
    /\ pc = "done"
    /\ out' = Append(out, obj)
    /\ start' = off
    /\ z' = FALSE
    /\ cs' = CS_HEADER /\ trail' = 0
    /\ stack' = << >> /\ items' = << >>
    /\ parsed' = 0
    /\ pc' = "idle"
    /\ UNCHANGED <<data, off, ret, p, obj>>
-----------------------------------------------------------------------------
Continue ==
    \/ \E b \in Byte : Header(b)
    \/ Trail \/ Out
    \/ Push_ArrayItem \/ Push_MapKey \/ Push_MapValue
    \/ Finish \/ Next_Done

Next == (\E n \in 1 .. Len(stream) : Arrive(n)) \/ Execute \/ Continue

\* A call runs on; when bytes arrive and calls are made is up to others.
Spec == Init /\ [][Next]_vars /\ WF_vars(Continue)
-----------------------------------------------------------------------------
(* Properties *)

\* Only bytes that have arrived are read: the parser stands on one of them, or
\* just behind the last when it is to wait for what trails a header.
ReadsReceived ==
    /\ off <= arrived
    /\ pc \in {"header", "push"} => p < arrived
    /\ pc = "trail" => p <= arrived

\* An item is only stored in a slot that was allocated for it: each open
\* container still has room for exactly the items it waits for, and there are
\* never more open containers than the stack has frames.
ItemsFit ==
    /\ top <= STACK_SIZE
    /\ \A i \in 1 .. top : /\ stack[i].count > 0
                           /\ stack[i].size + stack[i].count = stack[i].slots

\* msgpack_unpacker_next_with_size and message_size report parsed: it is what the
\* current message has taken so far, over all its calls.
SizeExact == parsed = off - start

\* Where the parser is said to be: on bytes that have arrived, as far behind the
\* message's first byte as parsed says, and at the item of each open container that
\* the stack says, whatever calls came before.
PlaceExact == ReadsReceived /\ SizeExact /\ ItemsFit

\* Every call returns.
CallsReturn == pc # "idle" ~> pc = "idle"
=============================================================================
