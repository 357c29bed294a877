----------------------------- MODULE ObjectParser -----------------------------
(***************************************************************************)
(* The object_parser of the C++ library (include/msgpack/v1/object.hpp), which *)
(* walks through an object without recursion and tells a visitor what it       *)
(* meets, in the order of the parser of bytes (ParseContext).  Packing,        *)
(* copying, comparing and printing an object are visitors of it.               *)
(*                                                                           *)
(* An object is <<type, value>>; the value of an array is the sequence of its  *)
(* items, that of a map the sequence of its pairs.  A pointer into one of them *)
(* is the sequence and an index, which may be past its end.  A step is at most *)
(* one call of the visitor, which may return false or throw.                  *)
(***************************************************************************)
EXTENDS Integers, Sequences

CONSTANTS Object,    \* the objects considered
          Leaf       \* the types that contain no objects

VARIABLES x,         \* the object parsed
          m_current, \* the object the parser is at
          m_ctx,     \* its stack of elem, one for each open container
          pc,        \* where parse is; "done" when it has returned
          said,      \* the last call of the visitor
          ret        \* "whole", or why it was left: the visitor "refused", or "thrown"

vars == <<x, m_current, m_ctx, pc, said, ret>>

Container == {"array", "map"}

\* The set of objects that are considered, and that are within one of them.
ParserConstants(objects) ==
    /\ Object \subseteq objects
    /\ \A o \in objects :
          /\ o[1] \in Leaf \cup Container
          /\ o[1] = "array" => o[2] \in Seq(objects)
          /\ o[1] = "map" => o[2] \in Seq(objects \X objects)

\* The places of parse where it calls the visitor.
Place == {"visit", "start_array_item", "start_map_key", "next", "start_map_value", "end"}

top == Len(m_ctx)
back == m_ctx[top]

TypeOK ==
    /\ x \in Object
    /\ m_current[1] \in Leaf \cup Container
    /\ \A i \in 1 .. top :
          LET e == m_ctx[i] IN
          /\ e.is_map \in BOOLEAN /\ e.is_key \in BOOLEAN
          /\ e.rest \in Nat /\ e.at \in Nat \ {0}
    /\ pc \in Place \cup {"done"}
    /\ ret \in {"none", "whole", "refused", "thrown"}

\* object_parser(obj), and parse
Init ==
    /\ x \in Object
    /\ m_current = x
    /\ m_ctx = << >>
    /\ pc = "visit" /\ said = "init" /\ ret = "none"
-----------------------------------------------------------------------------
Elem(o) == [items |-> o[2], at |-> 1, rest |-> Len(o[2]),
            is_map |-> o[1] = "map", is_key |-> o[1] = "map"]

\* elem::get
get(e) == IF e.is_map THEN e.items[e.at][IF e.is_key THEN 1 ELSE 2] ELSE e.items[e.at]

\* The visitor returns false, or throws: parse is left.
Refuse ==
    /\ pc' = "done" /\ ret' \in {"refused", "thrown"}
    /\ UNCHANGED <<m_current, m_ctx>>

\* A value has ended: the innermost container goes on, if there is one.
Ended(ctx) ==
    /\ m_ctx' = ctx
    /\ IF ctx = << >> THEN pc' = "done" /\ ret' = "whole"
                      ELSE pc' = "next" /\ UNCHANGED ret
    /\ UNCHANGED m_current

\* m_current = &m_ctx.back().get(), behind a change of the innermost elem to e.
Enter(e) ==
    /\ m_ctx' = [m_ctx EXCEPT ![top] = e]
    /\ m_current' = get(e)
    /\ pc' = "visit"
    /\ UNCHANGED ret

Goto(place) == pc' = place /\ UNCHANGED <<m_current, ret>>
Tell(name) == said' = name /\ UNCHANGED x

Visit ==
    /\ pc = "visit" /\ m_current[1] \in Leaf
    /\ Tell("visit")
    /\ Ended(m_ctx) \/ Refuse

\* A container with items begins with its first, an empty one ends at once.
Start ==
    /\ pc = "visit" /\ m_current[1] \in Container
    /\ LET map == m_current[1] = "map"
       IN  /\ Tell(IF map THEN "start_map" ELSE "start_array")
           /\ \/ /\ m_ctx' = Append(m_ctx, Elem(m_current))
                 /\ Goto(IF m_current[2] = << >> THEN "end"
                         ELSE IF map THEN "start_map_key" ELSE "start_array_item")
              \/ Refuse

\* The first item, or ++obj_ptr or ++kv_ptr and the next one: e.at counts it already.
StartItem(call) ==
    /\ pc = call
    /\ Tell(call)
    /\ \/ Enter([back EXCEPT !.is_key = back.is_map])
       \/ Refuse

\* (mutant) is_key stays set
StartValueAsKey ==
    /\ pc = "start_map_value"
    /\ Tell("start_map_value")
    /\ Enter(back) \/ Refuse

StartValue ==
    /\ pc = "start_map_value"
    /\ Tell("start_map_value")
    /\ \/ Enter([back EXCEPT !.is_key = FALSE])
       \/ Refuse

\* (mutant) a container ends when one item is left
LessEarly ==
    IF back.rest <= 2
    THEN Goto("end") /\ m_ctx' = [m_ctx EXCEPT ![top].rest = 0]
    ELSE /\ m_ctx' = [m_ctx EXCEPT ![top].rest = @ - 1, ![top].at = @ + 1]
         /\ Goto(IF back.is_map THEN "start_map_key" ELSE "start_array_item")

\* --rest, which leaves none or another item.
Less ==
    IF back.rest = 1
    THEN Goto("end") /\ m_ctx' = [m_ctx EXCEPT ![top].rest = 0]
    ELSE /\ m_ctx' = [m_ctx EXCEPT ![top].rest = @ - 1, ![top].at = @ + 1]
         /\ Goto(IF back.is_map THEN "start_map_key" ELSE "start_array_item")

\* elem::next of the innermost container, when it has items left.
Next_ ==
    /\ pc = "next"
    /\ Tell(IF ~back.is_map THEN "end_array_item"
            ELSE IF back.is_key THEN "end_map_key" ELSE "end_map_value")
    /\ \/ back.is_key /\ Goto("start_map_value") /\ UNCHANGED m_ctx
       \/ ~back.is_key /\ Less
       \/ Refuse

\* end_array and end_map; then the container is taken off and its own has an item less.
End ==
    /\ pc = "end"
    /\ Tell(IF back.is_map THEN "end_map" ELSE "end_array")
    /\ Ended(SubSeq(m_ctx, 1, top - 1)) \/ Refuse

Next ==
    \/ Visit \/ Start
    \/ \E call \in {"start_array_item", "start_map_key"} : StartItem(call)
    \/ StartValue \/ Next_ \/ End

Spec == Init /\ [][Next]_vars /\ WF_vars(Next)
-----------------------------------------------------------------------------
\* The items of an elem that are still to start, as a visitor counts them.
Left(i) ==
    LET e == m_ctx[i]
        n == IF e.is_map THEN 2 * e.rest ELSE e.rest
    IN  IF i = top /\ pc \in {"start_array_item", "start_map_key", "end"} THEN n
        ELSE IF e.is_map /\ ~e.is_key THEN n - 2
        ELSE n - 1

Turn == CASE pc = "visit" -> "value"
          [] pc = "next"  -> "ended"
          [] pc = "done"  -> IF ret = "whole" THEN "ended" ELSE "stopped"
          [] OTHER        -> "open"

\* The containers that a visitor has been told of.
Open == IF Turn = "stopped" THEN << >>
        ELSE [i \in 1 .. top |-> [kind |-> IF m_ctx[i].is_map THEN "map" ELSE "array",
                                 left |-> Left(i)]]

Protocol == INSTANCE VisitorProtocol WITH open <- Open, turn <- Turn

\* A visitor of objects may rely on what a visitor of bytes may rely on: each container
\* has exactly the items announced, and nothing is called after a call it refused.
RefinesVisitorProtocol == Protocol!Spec

\* The pointer of every open container is at one of its items, with as many items
\* behind it as it has still to visit, and the parser is at the innermost one's.
CursorsInside ==
    /\ \A i \in 1 .. top :
          LET e == m_ctx[i] IN
          e.rest > 0 => e.rest + e.at = Len(e.items) + 1
    /\ pc = "visit" /\ top > 0 => m_current = get(back)

\* parse returns.
ParseReturns == <>(pc = "done")
=============================================================================
