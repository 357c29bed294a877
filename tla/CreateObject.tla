----------------------------- MODULE CreateObject -----------------------------
(***************************************************************************)
(* The visitors of ParseContext.  One is detail::create_object_visitor, which   *)
(* makes objects: with the parser, it is what unpacker::next delivers.  The    *)
(* other is an application's own, passed to parse(), which may do anything.    *)
(*                                                                           *)
(* create_object_visitor never sees a container whole.  It keeps a stack of places, one  *)
(* for each open container and one for the root, and writes what it is told to *)
(* the innermost; that the end_..._item calls lead the place along the block   *)
(* that was allocated, and the end_ calls back to the right one, is all there  *)
(* is to keep it inside.                                                     *)
(***************************************************************************)
EXTENDS ParseContext

CONSTANTS
    STR, BIN, EXT, ARRAY, MAP, DEPTH,  \* the limits of unpack_limit
    OwnStreams, \* bound: the streams of bytes that the application's visitor is told of
    MoveOpen   \* may the unpacker be moved when containers are open?

VARIABLES
    visitor, \* "create_object", or "own": one of the application's
    mem,     \* the root m_obj, block 1, and the zone's blocks of objects
    m_stack, \* places in them; block 0 is a null pointer
    out      \* (history) the objects delivered

objects == <<mem, m_stack, out>>

\* An object of memory that was not written yet.
Garbage == <<"garbage", << >> >>
NIL == <<"nil", << >> >>

Place(b, i) == [block |-> b, index |-> i]
Obj == m_stack[Len(m_stack)]

Create_Init ==
    /\ Init
    /\ visitor \in {"create_object", "own"}
    /\ visitor = "own" => stream \in OwnStreams
    /\ mem = << <<NIL>> >>
    /\ m_stack = <<Place(1, 1)>>
    /\ out = << >>
-----------------------------------------------------------------------------
(* What the visitor does when it is called *)

\* (mutant) one container too many is let in
ThrowsLate(c) ==
    \/ c.name = "visit_str" /\ Len(c.arg) > STR
    \/ c.name = "visit_bin" /\ Len(c.arg) > BIN
    \/ c.name = "visit_ext" /\ Len(c.arg) > EXT
    \/ c.name = "start_array" /\ (c.arg > ARRAY \/ Len(m_stack) > DEPTH + 1)
    \/ c.name = "start_map" /\ (c.arg > MAP \/ Len(m_stack) > DEPTH + 1)
    \/ c.name = "parse_error"

\* It throws when a limit is exceeded.  The size of an ext includes its type.
Throws(c) ==
    \/ c.name = "visit_str" /\ Len(c.arg) > STR
    \/ c.name = "visit_bin" /\ Len(c.arg) > BIN
    \/ c.name = "visit_ext" /\ Len(c.arg) > EXT
    \/ c.name = "start_array" /\ (c.arg > ARRAY \/ Len(m_stack) > DEPTH)
    \/ c.name = "start_map" /\ (c.arg > MAP \/ Len(m_stack) > DEPTH)
    \/ c.name = "parse_error"

\* (mutant) what was packed with a sign is negative
SignedNegative(v) == <<"negative", v>>

\* visit_negative_integer is called for every number that was packed with a sign.
Signed(v) == <<IF v >= 0 THEN "positive" ELSE "negative", v>>

Cell(c) ==
    CASE c.name = "visit_nil" -> NIL
      [] c.name = "visit_boolean" -> <<"boolean", c.arg>>
      [] c.name = "visit_positive_integer" -> <<"positive", c.arg>>
      [] c.name = "visit_negative_integer" -> Signed(c.arg)
      [] c.name = "visit_float32" -> <<"float32", c.arg>>
      [] c.name = "visit_float64" -> <<"float64", c.arg>>
      [] c.name = "visit_str" -> <<"str", c.arg>>
      [] c.name = "visit_bin" -> <<"bin", c.arg>>
      [] c.name = "visit_ext" /\ c.arg = << >> -> <<"ext", Garbage>>  \* of size - 1 bytes
      [] c.name = "visit_ext" -> <<"ext", <<LoadSigned(<<c.arg[1]>>), Tail(c.arg)>> >>

Written(o) == [mem EXCEPT ![Obj.block][Obj.index] = o]

\* (mutant) a pair is one object
CellsOne(type, n) == n

\* An object_kv is two objects, a key and behind it its value.
Cells(type, n) == IF type = "map" THEN 2 * n ELSE n

\* (mutant) the place of the container's first item is its own
AllocateStays(type, n) ==
    /\ mem' = Append(Written(<<type, [block |-> Len(mem) + 1, size |-> n]>>),
                     [i \in 1 .. Cells(type, n) |-> Garbage])
    /\ m_stack' = Append(m_stack, Obj)

\* A container of n elements gets a block of cells from the zone, an empty one none.
Allocate(type, n) ==
    IF n = 0
    THEN /\ mem' = Written(<<type, [block |-> 0, size |-> 0]>>)
         /\ m_stack' = Append(m_stack, Place(0, 1))
    ELSE /\ mem' = Append(Written(<<type, [block |-> Len(mem) + 1, size |-> n]>>),
                          [i \in 1 .. Cells(type, n) |-> Garbage])
         /\ m_stack' = Append(m_stack, Place(Len(mem) + 1, 1))

ItemEnds == {"end_array_item", "end_map_key", "end_map_value"}

Told(c) ==
    CASE c.name = "start_array" -> Allocate("array", c.arg)
      [] c.name = "start_map" -> Allocate("map", c.arg)
      [] c.name \in ItemEnds ->
            /\ m_stack' = [m_stack EXCEPT ![Len(m_stack)].index = @ + 1]
            /\ UNCHANGED mem
      [] c.name \in {"end_array", "end_map"} ->
            /\ m_stack' = SubSeq(m_stack, 1, Len(m_stack) - 1)
            /\ UNCHANGED mem
      [] c.name \in {"start_array_item", "start_map_key", "start_map_value"} ->
            UNCHANGED <<mem, m_stack>>
      [] OTHER -> mem' = Written(Cell(c)) /\ UNCHANGED m_stack

\* The parser's step is one in which it calls the visitor.  Memory that runs out and a
\* reference function that throws end the call as a limit does (Next_Throws of CppUnpacker).
Answer ==
    LET c == calls'[Len(calls')] IN
    /\ visitor = "create_object"
    /\ IF Throws(c) THEN ret' = "thrown" /\ UNCHANGED objects
                    ELSE /\ ret' \notin {"stop_visitor", "thrown"}  \* it always returns true
                         /\ Told(c)
                         /\ UNCHANGED out
-----------------------------------------------------------------------------
\* What an application finds when it follows the pointers of the objects of a block.
Build[b \in DOMAIN mem] ==
    [i \in DOMAIN mem[b] |->
        LET o == mem[b][i]
            items == Build[o[2].block]
        IN  CASE o[1] = "array" -> <<"array", [j \in 1 .. o[2].size |-> items[j]]>>
              [] o[1] = "map"   -> <<"map", [j \in 1 .. o[2].size |->
                                               <<items[2 * j - 1], items[2 * j]>>]>>
              [] OTHER -> o]

\* init: the stack is cut back to the root's place, and the root made nil.  The
\* blocks belong to the zone that was given away with the object.
Fresh ==
    /\ mem' = << <<NIL>> >>
    /\ m_stack' = <<Place(1, 1)>>

\* unpacker::next returns true, with the object, and resets.
Deliver ==
    /\ visitor = "create_object"
    /\ Init_Next
    /\ out' = Append(out, Build[1][1])
    /\ Fresh
    /\ UNCHANGED visitor

\* The parser's step calls nobody: it looks for a header or for what trails one.
Silent == visitor = "create_object" /\ calls' = calls /\ UNCHANGED objects

\* The unpacker is moved: the stack is taken over, and its first place made the
\* new root's, but the old root is not copied to it.
Move ==
    /\ visitor = "create_object"
    /\ pc = "idle"
    /\ ret \in {"success", "continue"}
    /\ stack = << >> \/ MoveOpen
    /\ mem' = [mem EXCEPT ![1] = <<NIL>>]
    /\ m_stack' = [m_stack EXCEPT ![1] = Place(1, 1)]
    /\ UNCHANGED <<vars, out, visitor>>

Make   == Next /\ calls' # calls /\ calls' # << >> /\ Answer /\ UNCHANGED visitor
Pass   == Next /\ Silent /\ UNCHANGED visitor
Visit_ == visitor = "own" /\ Next /\ UNCHANGED <<objects, visitor>>

Create_Next == Make \/ Pass \/ Visit_ \/ Deliver \/ Move

create_vars == <<vars, objects, visitor>>

\* A call runs on.
Create_Spec ==
    Create_Init /\ [][Create_Next]_create_vars /\ WF_create_vars(pc # "idle" /\ Create_Next)
-----------------------------------------------------------------------------
(* Properties *)

\* Whatever the visitor may be told next goes to an object that was allocated for
\* it and was not written yet, and while nothing is open that is the root.
WritesInside ==
    /\ Obj.block \in 1 .. Len(mem)
    /\ Obj.index \in 1 .. Len(mem[Obj.block])
    /\ Len(m_stack) = top + 1
    /\ top > 0 => mem[Obj.block][Obj.index] = Garbage

\* The parser's count of the items to come and the visitor's place agree, for
\* every container that is open.
PlacesMatchCounts ==
    \A i \in 1 .. top :
        LET at == m_stack[i + 1] IN
        Left(i) = Len(mem[at.block]) - at.index

\* The visitor's stack of places and the parser's stack of counts, kept in different
\* objects by different calls, describe the same containers; and the parser is on
\* bytes that have arrived.
StacksAgree ==
    /\ TypeOK /\ ReadsReceived
    /\ visitor = "create_object" /\ pc \in {"header", "trail"} =>
          WritesInside /\ PlacesMatchCounts
=============================================================================
