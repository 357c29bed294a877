---------------------------- MODULE ObjectVisitors ----------------------------
(***************************************************************************)
(* The visitors of object_parser (include/msgpack/v1/object.hpp): the one that *)
(* packs an object, the two that clone() uses, the one that counts the bytes   *)
(* the copy will need and the one that makes it in a zone, the one of          *)
(* operator== and the one of operator<< for an ostream.                        *)
(*                                                                           *)
(* None of them sees a container whole.  The copy and the comparison lead a    *)
(* cursor of their own through a second object while the parser walks through  *)
(* the first.                                                                *)
(***************************************************************************)
EXTENDS ObjectParser, PackFormat

CONSTANTS Other,     \* the objects x is compared with
          SizeOf,    \* sizeof(object), half of sizeof(object_kv)
          NaN        \* the floats that are not equal to themselves

VisitorConstants == SizeOf \in Nat \ {0} /\ Object \cup Other # {}

VARIABLES visitor, \* which one this is
          y,       \* what x is compared with, or nil
          out,     \* the bytes packed, or the pieces of text
          m_size,  \* m_size of aligned_zone_size_visitor
          mem,     \* the copy: the object at 1, and the blocks of the zone
          m_objs,  \* the visitor's stack of cursors, or of counts
          m_ptr,   \* its place in the copy, or the object of y it is at
          asked    \* (history) the bytes the copy has taken from the zone

made == <<out, m_size, mem, m_objs, m_ptr, asked>>
visitor_vars == <<vars, visitor, y, made>>

Indeterminate == <<"garbage", << >> >>
NIL == <<"nil", << >> >>
Root == [block |-> 1, at |-> 1]

Visitors_Init ==
    /\ Init
    /\ visitor \in {"pack", "size", "equal", "stringize", "own"}
    /\ y \in IF visitor = "equal" THEN Other ELSE {NIL}
    /\ visitor = "equal" => x[1] = y[1]  \* or operator== does not parse
    /\ out = << >> /\ m_size = 0 /\ mem = << >> /\ m_objs = << >> /\ asked = 0
    /\ m_ptr = IF visitor = "equal" THEN y ELSE Root

type  == m_current[1]
value == m_current[2]

Starts == {"start_array", "start_map"}
-----------------------------------------------------------------------------
(* object_pack_visitor *)

Header ==
    CASE type = "nil"      -> pack_nil
      [] type = "boolean"  -> IF value THEN pack_true ELSE pack_false
      [] type = "positive" -> pack_real_uint(Int64(value))
      [] type = "negative" -> pack_real_int(Int64(value))
      [] type = "float32"  -> pack_float(value)
      [] type = "float64"  -> pack_double(value)
      [] type = "str"      -> pack_str(Int64(Len(value)))
      [] type = "bin"      -> pack_bin(Int64(Len(value)))
      [] type = "ext"      -> pack_ext(Int64(Len(value[2])), value[1] % 256)
      [] type = "array"    -> pack_array(Int64(Len(value)))
      [] type = "map"      -> pack_map(Int64(Len(value)))

\* The bytes of a string, a binary or an extension.
Body == CASE type \in {"str", "bin"} -> value
          [] type = "ext" -> value[2]
          [] OTHER -> << >>

\* (mutant) a string is packed without its body when it is the last item
PackHeaders ==
    /\ out' = IF said' \in {"visit"} \cup Starts
              THEN out \o Header \o (IF ret' = "whole" THEN << >> ELSE Body) ELSE out
    /\ UNCHANGED <<m_size, mem, m_objs, m_ptr, asked>>

\* Either append of the packer may throw.
Pack ==
    /\ IF said' \in {"visit"} \cup Starts
       THEN IF ret' = "thrown" THEN out' \in {out, out \o Header}
                               ELSE out' = out \o Header \o Body
       ELSE UNCHANGED out
    /\ UNCHANGED <<m_size, mem, m_objs, m_ptr, asked>>
-----------------------------------------------------------------------------
(* aligned_zone_size_visitor *)

Bytes(o) == CASE o[1] \in {"str", "bin"} -> Len(o[2])
              [] o[1] = "ext"   -> Len(o[2][2]) + 1
              [] OTHER -> 0

\* (mutant) the pairs of a map are counted as objects
NeedsOne(o) == CASE o[1] \in {"array", "map"} -> SizeOf * Len(o[2])
                 [] OTHER -> Bytes(o)

Needs(o) == CASE o[1] = "array" -> SizeOf * Len(o[2])
              [] o[1] = "map"   -> 2 * SizeOf * Len(o[2])
              [] OTHER -> Bytes(o)

Count ==
    /\ m_size' = IF said' \in {"visit"} \cup Starts THEN m_size + Needs(m_current) ELSE m_size
    /\ UNCHANGED <<out, mem, m_objs, m_ptr, asked>>
-----------------------------------------------------------------------------
(* object_with_zone_visitor *)

Written(o) == [mem EXCEPT ![m_ptr.block][m_ptr.at] = o]
New == [block |-> Len(mem) + 1, size |-> Len(value)]

\* What it writes for a value, and the block that it takes from the zone.
Leaf_ ==
    CASE type \in {"str", "bin"} -> Append(Written(<<type, New>>), value)
      [] type = "ext" -> Append(Written(<<type, [New EXCEPT !.size = Len(value[2])]>>),
                                <<value[1]>> \o value[2])
      [] OTHER -> Written(m_current)

Cells == [i \in 1 .. (IF type = "map" THEN 2 ELSE 1) * Len(value) |-> Indeterminate]

At == m_objs[Len(m_objs)]
Forward(n) == m_objs' = [m_objs EXCEPT ![Len(m_objs)].at = @ + n]
Pop == m_objs' = SubSeq(m_objs, 1, Len(m_objs) - 1)

\* (mutant) ++as.obj, whether the cursor is an object's or a pair's
CopyEndsPair ==
    /\ IF said' \in {"end_array_item", "end_map_value"} THEN Forward(1)
       ELSE IF said' \in {"end_array", "end_map"} THEN Pop ELSE UNCHANGED m_objs
    /\ UNCHANGED <<mem, m_ptr>>

\* ++as.obj or ++as.kv behind an item or a pair.
CopyEnds ==
    /\ CASE said' = "end_array_item" -> Forward(1)
         [] said' = "end_map_value"  -> Forward(2)
         [] said' \in {"end_array", "end_map"} -> Pop
         [] OTHER -> UNCHANGED m_objs
    /\ UNCHANGED <<mem, m_ptr>>

Copy ==
    /\ CASE said' = "visit" -> mem' = Leaf_ /\ UNCHANGED <<m_objs, m_ptr>>
         [] said' \in Starts ->
               /\ mem' = Append(Written(<<type, New>>), Cells)
               /\ m_objs' = Append(m_objs, [block |-> Len(mem) + 1, at |-> 1])
               /\ UNCHANGED m_ptr
         [] said' \in {"start_array_item", "start_map_key"} ->
               m_ptr' = At /\ UNCHANGED <<mem, m_objs>>
         [] said' = "start_map_value" ->
               m_ptr' = [At EXCEPT !.at = @ + 1] /\ UNCHANGED <<mem, m_objs>>
         [] OTHER -> CopyEnds
    /\ asked' = asked + (IF Len(mem') = Len(mem) THEN 0
                         ELSE (IF said' = "visit" THEN 1 ELSE SizeOf) * Len(mem'[Len(mem')]))
    /\ UNCHANGED <<out, m_size>>

\* clone() begins the copy, in a zone of the size counted; of an object that needs no
\* memory it makes no copy.
Clone ==
    /\ visitor = "size" /\ ret = "whole"
    /\ visitor' = "copy"
    /\ mem' = IF m_size = 0 THEN << <<x>> >> ELSE << <<NIL>> >>
    /\ IF m_size = 0 THEN UNCHANGED vars
       ELSE /\ m_current' = x /\ m_ctx' = << >>
            /\ pc' = "visit" /\ said' = "init" /\ ret' = "none"
            /\ UNCHANGED x
    /\ UNCHANGED <<y, out, m_size, m_objs, m_ptr, asked>>
-----------------------------------------------------------------------------
(* object_equal_visitor *)

\* A leaf of x, and what m_ptr is at.
LeafEqual(a, b) ==
    /\ a[1] = b[1]
    /\ a[2] = b[2]
    /\ a[1] \in {"float32", "float64"} => a[2] \notin NaN

\* The visitor returns false.
Differs ==
    CASE said' = "visit" -> ~LeafEqual(m_current, m_ptr)
      [] said' \in Starts -> type # m_ptr[1] \/ Len(value) # Len(m_ptr[2])
      [] OTHER -> FALSE

\* (mutant) the value of x's pair is compared with the key of y's
CounterpartKey ==
    CASE said' = "start_array_item" -> At.items[At.at]
      [] said' \in {"start_map_key", "start_map_value"} -> At.items[At.at][1]
      [] OTHER -> m_ptr

\* m_ptr, when the parser goes to an item.
Counterpart ==
    CASE said' = "start_array_item" -> At.items[At.at]
      [] said' = "start_map_key"    -> At.items[At.at][1]
      [] said' = "start_map_value"  -> At.items[At.at][2]
      [] OTHER -> m_ptr

Compare ==
    /\ m_ptr' = Counterpart
    /\ CASE said' \in Starts /\ ~Differs ->
               m_objs' = Append(m_objs, [items |-> m_ptr[2], at |-> 1])
         [] said' \in {"end_array_item", "end_map_value"} -> Forward(1)
         [] said' \in {"end_array", "end_map"} -> Pop
         [] OTHER -> UNCHANGED m_objs
    /\ UNCHANGED <<out, m_size, mem, asked>>
-----------------------------------------------------------------------------
(* object_stringize_visitor; m_objs is its m_current_size *)

\* (mutant) the comma depends on the count before the item
CommaEarly ==
    /\ m_objs' = [m_objs EXCEPT ![Len(m_objs)] = @ - 1]
    /\ out' = IF m_objs[Len(m_objs)] # 0 THEN Append(out, <<",">>) ELSE out

\* A comma behind every item but the last.
Comma ==
    /\ m_objs' = [m_objs EXCEPT ![Len(m_objs)] = @ - 1]
    /\ out' = IF m_objs'[Len(m_objs)] # 0 THEN Append(out, <<",">>) ELSE out

Stringize ==
    /\ CASE said' = "visit" -> out' = Append(out, m_current) /\ UNCHANGED m_objs
         [] said' \in Starts ->
               /\ m_objs' = Append(m_objs, Len(value))
               /\ out' = Append(out, IF said' = "start_map" THEN <<"{">> ELSE <<"[">>)
         [] said' \in {"end_array_item", "end_map_value"} -> Comma
         [] said' = "end_map_key" -> out' = Append(out, <<":">>) /\ UNCHANGED m_objs
         [] said' \in {"end_array", "end_map"} ->
               Pop /\ out' = Append(out, IF said' = "end_map" THEN <<"}">> ELSE <<"]">>)
         [] OTHER -> UNCHANGED <<out, m_objs>>
    /\ UNCHANGED <<m_size, mem, m_ptr, asked>>
-----------------------------------------------------------------------------
\* A call that takes memory or appends may throw; only the comparison returns false.
Answer ==
    /\ ret' = "thrown" => said' \in {"visit"} \cup Starts
    /\ ret' = "refused" <=> visitor = "equal" /\ Differs
    /\ CASE visitor = "pack"      -> Pack
         [] visitor = "size"      -> Count
         [] visitor = "copy"      -> Copy
         [] visitor = "equal"     -> Compare
         [] visitor = "stringize" -> Stringize

\* An application's visitor may answer anything, and makes what it likes.
Told == IF visitor = "own" THEN UNCHANGED made ELSE Answer

Visit_ == Next /\ Told /\ UNCHANGED <<visitor, y>>

Visitors_Next == Visit_ \/ Clone

Visitors_Spec == Visitors_Init /\ [][Visitors_Next]_visitor_vars
-----------------------------------------------------------------------------
(* What the visitors are for. *)

Reader == INSTANCE MessagePack WITH Depth <- 99, Top <- -1

RECURSIVE Build(_), Spelled(_), Items(_, _, _), msgpack_object_equal(_, _)

\* What is found when the pointers of the copy are followed.
Build(o) ==
    LET cell(i) == Build(mem[o[2].block][i])
    IN  CASE o[1] = "array" -> <<"array", [i \in 1 .. o[2].size |-> cell(i)]>>
          [] o[1] = "map"   -> <<"map", [i \in 1 .. o[2].size |-> <<cell(2 * i - 1), cell(2 * i)>>]>>
          [] o[1] \in {"str", "bin"} -> <<o[1], SubSeq(mem[o[2].block], 1, o[2].size)>>
          [] o[1] = "ext" -> <<"ext", <<mem[o[2].block][1], SubSeq(mem[o[2].block], 2, o[2].size + 1)>>>>
          [] OTHER -> o

\* The text of an object, and of the items of a container from i on.
Items(s, i, pairs) ==
    IF i > Len(s) THEN << >>
    ELSE (IF i = 1 THEN << >> ELSE << <<",">> >>)
         \o (IF pairs THEN Spelled(s[i][1]) \o << <<":">> >> \o Spelled(s[i][2]) ELSE Spelled(s[i]))
         \o Items(s, i + 1, pairs)
Spelled(o) == CASE o[1] = "array" -> << <<"[">> >> \o Items(o[2], 1, FALSE) \o << <<"]">> >>
             [] o[1] = "map"   -> << <<"{">> >> \o Items(o[2], 1, TRUE) \o << <<"}">> >>
             [] OTHER -> <<o>>

\* msgpack_object_equal of the C library, on numbers, strings and bytes
msgpack_object_equal(a, b) ==
    /\ a[1] = b[1]
    /\ CASE a[1] = "array" -> /\ Len(a[2]) = Len(b[2])
                              /\ \A i \in DOMAIN a[2] : msgpack_object_equal(a[2][i], b[2][i])
         [] a[1] = "map"   -> /\ Len(a[2]) = Len(b[2])
                              /\ \A i \in DOMAIN a[2] : \A j \in {1, 2} :
                                    msgpack_object_equal(a[2][i][j], b[2][i][j])
         [] OTHER -> LeafEqual(a, b)

Is(v) == visitor = v /\ ret = "whole"

\* What is packed reads back as the object.
PackedWhole == Is("pack") => Reader!Read(out, Len(out), 1) = Reader!Ok(x, Len(out) + 1)

\* The copy is the object, and all its memory is its own; each cell is written once,
\* when it was allocated; and the size of the zone that clone() makes is what the copy
\* takes from it, so that test/object.cpp finds the same size for object and copy.
Free == m_ptr = Root \/ mem[m_ptr.block][m_ptr.at] = Indeterminate
CopyWhole ==
    /\ Is("copy") => IF m_size = 0 THEN Bytes(x) = 0 /\ (x[1] \in Container => x[2] = << >>)
                     ELSE Build(mem[1][1]) = x /\ asked = m_size
    /\ visitor = "copy" /\ pc = "visit" => Free

\* operator== of the C++ library and msgpack_object_equal agree, for every pair.
EqualsAgree ==
    visitor = "equal" /\ ret \in {"whole", "refused"} =>
        (ret = "whole" <=> msgpack_object_equal(x, y))

\* The text has all values, and its separators are where they belong.
TextExact == Is("stringize") => out = Spelled(x)

\* However an object is nested, what a visitor makes of it without ever seeing a
\* container whole is what a recursion would make of it.
VisitsExact ==
    /\ TypeOK /\ CursorsInside
    /\ PackedWhole /\ CopyWhole /\ EqualsAgree /\ TextExact
=============================================================================
