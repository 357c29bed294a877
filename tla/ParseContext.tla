----------------------------- MODULE ParseContext -----------------------------
(***************************************************************************)
(* The resumable parser of the C++ library, detail::context::execute of       *)
(* v2/parse.hpp, which tells a visitor what it reads.                         *)
(*                                                                           *)
(* It is TemplateContext's counterpart: the bytes of a stream arrive in chunks *)
(* of any size, and a call that runs out of them saves its place.  But it      *)
(* makes no objects and knows no limits.  Whatever it meets it tells the       *)
(* visitor, which may return false or throw at every call.  A step is at most  *)
(* one call of the visitor.                                                  *)
(***************************************************************************)
EXTENDS WireFormat

CONSTANTS
    Streams,    \* the streams of bytes considered
    SIZE_MAX,   \* the largest size_t
    UINT32_MAX  \* the largest uint32_t, in which the visitor is given a size

ASSUME ParseConstants ==
    /\ Streams \subseteq Seq(Byte)
    /\ SIZE_MAX \in Nat /\ SIZE_MAX >= 65536
    /\ UINT32_MAX \in Nat /\ UINT32_MAX >= 65536

VARIABLES
    stream, arrived,  \* the stream, and how much of it has been received
    off,              \* the caller's off: where the next call begins
    cs, trail,        \* m_cs, m_trail
    stack,            \* m_stack: m_type and m_rest of the open containers
    p,                \* m_current
    pc,               \* where the call is, "idle" when there is none
    ret,              \* what the last call returned; "thrown": it threw
    calls,            \* the calls of the visitor since its init
    start             \* (history) where the current message begins

data  == <<stream, arrived, start>>
vars == <<stream, arrived, off, cs, trail, stack, p, pc, ret, calls, start>>

top == Len(stack)
At(i) == stream[i + 1]
Bytes(i, n) == SubSeq(stream, i + 1, i + n)

Elem == [type : ContainerType, rest : Nat \ {0}]

\* The places where the visitor is to be told that something begins or ends.
Telling == {"start_array_item", "start_map_key", "start_map_value",
            "end_array", "end_map"}

TypeOK ==
    /\ stream \in Streams
    /\ arrived \in 0 .. Len(stream)
    /\ off \in 0 .. arrived
    /\ cs \in 0 .. ACS_EXT_VALUE
    /\ trail \in Nat
    /\ stack \in Seq(Elem)
    /\ p \in Nat
    /\ pc \in {"idle", "header", "trail", "consume", "done"} \cup Telling
    /\ ret \in {"success", "continue", "parse_error", "stop_visitor", "thrown"}
    /\ start \in Nat

\* context(), and the first message
Init ==
    /\ stream \in Streams
    /\ arrived = 0 /\ off = 0 /\ start = 0
    /\ cs = CS_HEADER /\ trail = 0
    /\ stack = << >>
    /\ p = 0
    /\ pc = "idle" /\ ret = "continue"
    /\ calls = << >>
-----------------------------------------------------------------------------
(* Calls of the parser *)

Arrive(n) ==
    /\ pc = "idle"
    /\ arrived + n <= Len(stream)
    /\ arrived' = arrived + n
    /\ UNCHANGED <<stream, off, cs, trail, stack, p, pc, ret, calls, start>>

\* execute goes on where the last call stopped.  The application does not call
\* it again after an error.
Execute ==
    /\ pc = "idle"
    /\ ret \in {"success", "continue"}
    /\ off # arrived
    /\ p' = off
    /\ pc' = IF cs = CS_HEADER THEN "header" ELSE "trail"
    /\ UNCHANGED <<data, off, cs, trail, stack, ret, calls>>

\* The call returns r, with off at q.
Return(r, q) ==
    /\ off' = q
    /\ p' = q
    /\ ret' = r
    /\ pc' = IF r = "success" THEN "done" ELSE "idle"

\* An exception leaves the call, and off and the state of the parser as they are.
Throw == pc' = "idle" /\ ret' = "thrown" /\ UNCHANGED <<off, cs, p>>

Goto(label, q) == pc' = label /\ p' = q /\ UNCHANGED <<off, ret>>

\* (mutant) without while(m_current != pe)
HeaderAgainUnchecked(q) == cs' = CS_HEADER /\ Goto("header", q)

\* m_cs = MSGPACK_CS_HEADER, and the loop goes on at q if there are bytes.
HeaderAgain(q) ==
    /\ cs' = CS_HEADER
    /\ IF q = arrived THEN Return("continue", q) ELSE Goto("header", q)
-----------------------------------------------------------------------------
(* Calls of the visitor *)

Call(name, arg) == calls' = Append(calls, [name |-> name, arg |-> arg])

\* The visitor returns false, in state s with the bytes up to q read, or throws.
Refuse(q, s) ==
    \/ Return("stop_visitor", q) /\ cs' = s
    \/ Throw

\* A value is visited, the bytes up to q read: after_visit_proc.
Visit(name, v, q) ==
    /\ Call(name, v)
    /\ \/ Goto("consume", q) /\ UNCHANGED cs
       \/ Refuse(q, cs)
    /\ UNCHANGED stack

\* The state that is left when the visitor stops at what follows a value:
\* after_visit_proc has gone back to the header, start_aggregate has not.
Stopped == IF cs \in CS_CONTAINER THEN cs ELSE CS_HEADER

First(type) == IF type = "ARRAY_ITEM" THEN "start_array_item" ELSE "start_map_key"
End(type)   == IF type = "ARRAY_ITEM" THEN "end_array" ELSE "end_map"

\* start_aggregate: a container of n items begins.  An empty one ends at once.
Start(type, n, q) ==
    /\ Call(IF type = "ARRAY_ITEM" THEN "start_array" ELSE "start_map", n)
    /\ \/ /\ n = 0
          /\ Goto(End(type), q)
          /\ UNCHANGED <<cs, stack>>
       \/ /\ n > 0
          /\ stack' = Append(stack, [type |-> type, rest |-> n])
          /\ Goto(First(type), q)
          /\ UNCHANGED cs
       \/ Refuse(q, cs) /\ UNCHANGED stack
-----------------------------------------------------------------------------
(* The loop *)

\* The bytes that trail a header are n, and are read in state c, from q on.
Await(c, n, q) ==
    /\ cs' = c
    /\ trail' = n
    /\ Goto("trail", q)
    /\ UNCHANGED <<stack, calls>>

\* 0xc1 begins nothing.  The visitor is told, and what it says is not asked.
ParseError ==
    /\ Call("parse_error", <<p - 1, p>>)
    /\ \/ Return("parse_error", p) /\ UNCHANGED cs
       \/ off' = p /\ pc' = "idle" /\ ret' = "thrown" /\ UNCHANGED <<cs, p>>
    /\ UNCHANGED stack

\* m_cs == MSGPACK_CS_HEADER, for the byte b at p.
Header ==
    LET b == At(p) IN
    /\ pc = "header"
    /\ \/ /\ \/ b \in PositiveFixnum /\ Visit("visit_positive_integer", b, p + 1)
             \/ b \in NegativeFixnum /\ Visit("visit_negative_integer", b - 256, p + 1)
             \/ b = Nil /\ Visit("visit_nil", << >>, p + 1)
             \/ b \in {False, True} /\ Visit("visit_boolean", b = True, p + 1)
             \/ b \in FixArray /\ Start("ARRAY_ITEM", b - 144, p + 1)
             \/ b \in FixMap /\ Start("MAP_KEY", b - 128, p + 1)
             \/ b = 193 /\ ParseError
          /\ UNCHANGED trail
       \/ b \in Variable /\ Await(NEXT_CS(b), FixedTrail(b), p + 1)
       \/ b \in FixExt /\ Await(NEXT_CS(b), FixExtTrail(b), p + 1)
       \/ b = 160 /\ trail' = 0 /\ Visit("visit_str", << >>, p + 1)
       \/ b \in FixStr \ {160} /\ Await(ACS_STR_VALUE, b - 160, p + 1)
    /\ UNCHANGED data

\* The call that tells of the number in bs.
Visiting(c) ==
    CASE c = CS_FLOAT  -> "visit_float32"
      [] c = CS_DOUBLE -> "visit_float64"
      [] c \in CS_UINT -> "visit_positive_integer"
      [] c \in CS_INT  -> "visit_negative_integer"
      [] c \in CS_BIN \cup {ACS_BIN_VALUE} -> "visit_bin"
      [] c \in CS_STR \cup {ACS_STR_VALUE} -> "visit_str"
      [] c \in CS_FIXEXT \cup {ACS_EXT_VALUE} -> "visit_ext"

Number(c, bs) == IF c \in CS_UINT THEN LoadUnsigned(bs)
                 ELSE IF c \in CS_INT THEN LoadSigned(bs) ELSE bs

\* The state that reads what a size in state c announces.
ValueState(c) == IF c \in CS_STR THEN ACS_STR_VALUE
                 ELSE IF c \in CS_BIN THEN ACS_BIN_VALUE ELSE ACS_EXT_VALUE

\* The size of an ext does not count its type.
ExtTrail(n) == n + 1

\* What the visitor is told of the bytes bs: their size is cast to uint32_t, which makes
\* 0 of the size and the type of an ext 32 of UINT32_MAX bytes.
Counted(bs) == SubSeq(bs, 1, Len(bs) % (UINT32_MAX + 1))

\* The switch, when all that trails the header has arrived: bs, up to q.
Read(c, bs, q) ==
    \/ /\ \/ c \in CS_NUMBER /\ Visit(Visiting(c), Number(c, bs), q)
          \/ c \in CS_FIXEXT \cup ACS_VALUE /\ Visit(Visiting(c), Counted(bs), q)
          \/ c \in CS_ARRAY /\ Start("ARRAY_ITEM", LoadUnsigned(bs), q)
          \/ c \in CS_MAP /\ Start("MAP_KEY", LoadUnsigned(bs), q)
          \* check_ext_size
          \/ c \in CS_EXT /\ LoadUnsigned(bs) = SIZE_MAX /\ Throw /\ UNCHANGED <<stack, calls>>
       /\ UNCHANGED trail
    \/ /\ c \in CS_STR \cup CS_BIN
       /\ LoadUnsigned(bs) = 0
       /\ trail' = 0
       /\ Visit(Visiting(c), << >>, q)
    \/ /\ c \in CS_STR \cup CS_BIN
       /\ LoadUnsigned(bs) > 0
       /\ Await(ValueState(c), LoadUnsigned(bs), q)
    \/ /\ c \in CS_EXT
       /\ LoadUnsigned(bs) < SIZE_MAX
       /\ Await(ACS_EXT_VALUE, ExtTrail(LoadUnsigned(bs)), q)

Trail ==
    /\ pc = "trail"
    /\ arrived - p >= trail
    /\ Read(cs, Bytes(p, trail), p + trail)
    /\ UNCHANGED data

\* (mutant) looks again instead of returning
OutSpins == pc = "trail" /\ arrived - p < trail /\ UNCHANGED vars

\* The bytes that trail the header have not all arrived.
Out ==
    /\ pc = "trail"
    /\ arrived - p < trail
    /\ Return("continue", p)
    /\ UNCHANGED <<data, cs, trail, stack, calls>>

\* (mutant) the container is not taken off the stack when its last item has ended
OneLessKeeps(type, next) ==
    /\ stack' = [stack EXCEPT ![top] = [type |-> type, rest |-> @.rest - 1]]
    /\ Goto(IF stack[top].rest = 1 THEN End(type) ELSE next, p)

\* --m_rest of the innermost container, which ends when that leaves none, and
\* goes on with an item of the type given.
OneLess(type, next) ==
    IF stack[top].rest = 1
    THEN stack' = SubSeq(stack, 1, top - 1) /\ Goto(End(type), p)
    ELSE /\ stack' = [stack EXCEPT ![top] = [type |-> type, rest |-> @.rest - 1]]
         /\ Goto(next, p)

\* unpack_stack::consume: an item of the innermost container has ended.
Consume ==
    /\ pc = "consume"
    /\ top > 0
    /\ \/ /\ stack[top].type = "ARRAY_ITEM"
          /\ Call("end_array_item", << >>)
          /\ \/ OneLess("ARRAY_ITEM", "start_array_item") /\ UNCHANGED cs
             \/ Refuse(p, Stopped) /\ UNCHANGED stack
       \/ /\ stack[top].type = "MAP_KEY"
          /\ Call("end_map_key", << >>)
          /\ \/ Goto("start_map_value", p) /\ UNCHANGED cs
             \/ Refuse(p, Stopped)
          /\ UNCHANGED stack
       \/ /\ stack[top].type = "MAP_VALUE"
          /\ Call("end_map_value", << >>)
          /\ \/ OneLess("MAP_KEY", "start_map_key") /\ UNCHANGED cs
             \/ Refuse(p, Stopped) /\ UNCHANGED stack
    /\ UNCHANGED <<data, trail>>

\* consume finds no open container: the message is complete.  start_aggregate returns
\* then without going back to the header.
Finish ==
    /\ pc = "consume"
    /\ top = 0
    /\ cs' = Stopped
    /\ Return("success", p)
    /\ UNCHANGED <<data, trail, stack, calls>>

\* start_array_item and start_map_key, from push or from consume
StartItem(call) ==
    /\ pc = call
    /\ Call(call, << >>)
    /\ \/ HeaderAgain(p)
       \/ Refuse(p, Stopped)
    /\ UNCHANGED <<data, trail, stack>>

\* (mutant) the key is not told from the value
StartValueAsKey ==
    /\ pc = "start_map_value"
    /\ Call("start_map_value", << >>)
    /\ \/ HeaderAgain(p)
       \/ Refuse(p, Stopped)
    /\ UNCHANGED <<data, trail, stack>>

StartValue ==
    /\ pc = "start_map_value"
    /\ Call("start_map_value", << >>)
    /\ \/ stack' = [stack EXCEPT ![top].type = "MAP_VALUE"] /\ HeaderAgain(p)
       \/ Refuse(p, Stopped) /\ UNCHANGED stack
    /\ UNCHANGED <<data, trail>>

\* end_array and end_map, from start_aggregate or from consume
EndContainer(call) ==
    /\ pc = call
    /\ Call(call, << >>)
    /\ \/ Goto("consume", p) /\ UNCHANGED cs
       \/ Refuse(p, Stopped)
    /\ UNCHANGED <<data, trail, stack>>

\* The caller takes what the visitor made of the message, and init makes parser
\* and visitor ready for the next.
Init_Next ==
    /\ pc = "done"
    /\ cs' = CS_HEADER /\ trail' = 0
    /\ stack' = << >>
    /\ calls' = << >>
    /\ start' = off
    /\ pc' = "idle"
    /\ UNCHANGED <<stream, arrived, off, p, ret>>
-----------------------------------------------------------------------------
Continue ==
    \/ Header \/ Trail \/ Out
    \/ Consume \/ Finish
    \/ \E call \in {"start_array_item", "start_map_key"} : StartItem(call)
    \/ StartValue
    \/ \E call \in {"end_array", "end_map"} : EndContainer(call)
    \/ Init_Next

Next == (\E n \in 1 .. Len(stream) : Arrive(n)) \/ Execute \/ Continue

\* A call runs on; when bytes arrive and calls are made is up to others.
Spec == Init /\ [][Next]_vars /\ WF_vars(Continue)
-----------------------------------------------------------------------------
(* Properties *)

\* Only bytes that have arrived are read, and a call never claims more.
ReadsReceived ==
    /\ pc = "header" => p < arrived
    /\ pc # "idle" => start <= off /\ off <= p /\ p <= arrived

\* The frames and the turn that the visitor's protocol sees.
Innermost(i) == i = top /\ pc \in {"start_array_item", "start_map_key"}
Left(i) ==
    LET e == stack[i] IN
    CASE e.type = "ARRAY_ITEM" -> IF Innermost(i) THEN e.rest ELSE e.rest - 1
      [] e.type = "MAP_KEY"    -> IF Innermost(i) THEN 2 * e.rest ELSE 2 * e.rest - 1
      [] e.type = "MAP_VALUE"  -> 2 * e.rest - 2
KindOf(type) == IF type = "ARRAY_ITEM" THEN "array" ELSE "map"

Frames == [i \in 1 .. top |-> [kind |-> KindOf(stack[i].type), left |-> Left(i)]]
Ending == IF pc \in {"end_array", "end_map"}
          THEN <<[kind |-> IF pc = "end_map" THEN "map" ELSE "array", left |-> 0]>>
          ELSE << >>

Turn == CASE pc = "idle" -> IF ret \in {"success", "continue"} THEN "value" ELSE "stopped"
          [] pc \in {"header", "trail"} -> "value"
          [] pc \in {"consume", "done"} -> "ended"
          [] pc \in Telling -> "open"

Starting == {"start_array", "start_map"}
LastCall == IF calls = << >> THEN "init"
            ELSE LET name == calls[Len(calls)].name
                 IN  IF name \in Telling \cup Starting \cup
                              {"end_array_item", "end_map_key", "end_map_value", "parse_error"}
                     THEN name ELSE "visit"

Protocol == INSTANCE VisitorProtocol
              WITH open <- IF Turn = "stopped" THEN << >> ELSE Frames \o Ending,
                   turn <- Turn,
                   said <- LastCall

\* The visitor is called as it may expect: every container it is told of gets
\* exactly the items announced, each started and ended, keys and values take
\* turns, and nothing is called after a call it refused - also when the bytes
\* come in pieces.
RefinesVisitorProtocol == Protocol!Spec

\* Every call of the parser returns.
CallsReturn == pc # "idle" ~> pc = "idle"
=============================================================================
