------------------------------- MODULE Packer -------------------------------
(***************************************************************************)
(* The serializer of the C library: the functions of pack.h and              *)
(* pack_template.h and msgpack_pack_object (src/objectc.c), which hand a      *)
(* value to the write callback of a buffer piece by piece.  Any of the        *)
(* appends may be refused.  packer<Stream> of v1/pack.hpp does the same and   *)
(* leaves with the exception of the buffer where these functions return -1.   *)
(*                                                                           *)
(* What is left to do of the call in progress is a list: pieces to append,    *)
(* and objects still to be taken apart, the recursion of msgpack_pack_object. *)
(***************************************************************************)
EXTENDS PackFormat

CONSTANTS Session,     \* the uses of a packer; each of the next four is a function of it
          Call,        \* the calls an application makes
          MaxCalls,    \* bound: calls that succeed
          MayRefuse,   \* can the callback fail?
          FileBuffer   \* is it msgpack_fbuffer_write, else one that takes all or nothing

\* What the calls are given: numbers as wide as the C type, sizes that the widest header
\* holds (what is larger is cut off), and less than 2^30 nanoseconds.
NumberCall == {"int", "uint", "fix_int", "fix_uint"}
SizeCall   == {"array", "map", "str", "v4raw", "bin", "ext"}
Bodied     == {"object", "str_with_body", "bin_with_body", "ext_with_body", "timestamp"}

Given(c) ==
    /\ c.is \in NumberCall \cup SizeCall \cup Bodied
    /\ c.is \in NumberCall => c.d \in Seq(Byte) /\ Len(c.d) \in Width
    /\ c.is \in SizeCall => c.d \in Seq(Byte) /\ Len(c.d) = 8 /\ Below(c.d, 4)
    /\ c.is = "ext" => c.type \in Byte
    /\ c.is = "timestamp" =>
           /\ c.sec \in Seq(Byte) /\ Len(c.sec) = 8
           /\ c.nsec \in Seq(Byte) /\ Len(c.nsec) = 4 /\ c.nsec[1] < 64

PackerConstants ==
    /\ MaxCalls \in [Session -> Nat]
    /\ MayRefuse \in [Session -> BOOLEAN]
    /\ FileBuffer \in [Session -> BOOLEAN]
    /\ \A s \in Session : \A c \in Call[s] : Given(c)

VARIABLES session, \* which of them this is
          out,     \* the bytes the buffer has taken
          agenda,  \* what is left of the call in progress
          packing, \* the call in progress
          result,  \* what the last append returned
          packed   \* the calls that returned 0 since the stream was empty

packer_vars == <<session, out, agenda, packing, result, packed>>

NoPacking == [is |-> "none"]
Piece == [is : {"append"}, bytes : Seq(Byte), checked : BOOLEAN]

Packer_TypeOK ==
    /\ session \in Session
    /\ out \in Seq(Byte)
    /\ \A i \in DOMAIN agenda : agenda[i].is = "append" => agenda[i] \in Piece
    /\ packing \in Call[session] \cup {NoPacking}
    /\ result \in {0, -1}
    /\ packed \in Seq(Call[session])

Packer_Init ==
    /\ session \in Session
    /\ out = << >> /\ agenda = << >> /\ packing = NoPacking /\ result = 0 /\ packed = << >>
-----------------------------------------------------------------------------
\* append(checked, s): an append whose result the caller looks at, or does not.
append(bytes) == [is |-> "append", bytes |-> bytes, checked |-> TRUE]
Unchecked(bytes) == [append(bytes) EXCEPT !.checked = FALSE]
object(o) == [is |-> "object", obj |-> o]

\* (mutant) the header of a map counts its keys and its values
MapOfHalves(value) ==
    <<append(pack_map(Int64(2 * Len(value))))>>
    \o [i \in 1 .. 2 * Len(value) |-> object(value[(i + 1) \div 2][2 - (i % 2)])]

\* The header of a map, and its keys and values in turn.
MapPieces(value) ==
    <<append(pack_map(Int64(Len(value))))>>
    \o [i \in 1 .. 2 * Len(value) |-> object(value[(i + 1) \div 2][2 - (i % 2)])]

StrPieces(bytes) == <<append(pack_str(Int64(Len(bytes)))), append(bytes)>>
BinPieces(bytes) == <<append(pack_bin(Int64(Len(bytes)))), append(bytes)>>

ExtPieces(type, bytes) == <<append(pack_ext(Int64(Len(bytes)), type % 256)), append(bytes)>>

\* msgpack_pack_object, one level of it.
ObjectPieces(type, value) ==
    CASE type = "nil"      -> <<append(pack_nil)>>
      [] type = "boolean"  -> <<append(IF value THEN pack_true ELSE pack_false)>>
      [] type = "positive" -> <<append(pack_real_uint(Int64(value)))>>
      [] type = "negative" -> <<append(pack_real_int(Int64(value)))>>
      [] type = "float32"  -> <<append(pack_float(value))>>
      [] type = "float64"  -> <<append(pack_double(value))>>
      [] type = "str"      -> StrPieces(value)
      [] type = "bin"      -> BinPieces(value)
      [] type = "ext"      -> ExtPieces(value[1], value[2])
      [] type = "array"    -> <<append(pack_array(Int64(Len(value))))>>
                              \o [i \in DOMAIN value |-> object(value[i])]
      [] type = "map"      -> MapPieces(value)

\* msgpack_pack_timestamp does not look at the result of msgpack_pack_ext.
TimestampPieces(sec, nsec) ==
    LET body == TimestampBody(sec, nsec)
    IN  <<Unchecked(pack_ext(Int64(Len(body)), 255)), append(body)>>

\* msgpack_pack_int8 .. 64, char, short, int, long, long_long and the unsigned ones: d is
\* as wide as the C type.
IntegerPieces(signed, d) == <<append(IF signed THEN pack_real_int(d) ELSE pack_real_uint(d))>>

Pieces(c) ==
    CASE c.is = "object"        -> <<object(c.obj)>>
      [] c.is = "str_with_body" -> StrPieces(c.obj[2])
      [] c.is = "bin_with_body" -> BinPieces(c.obj[2])
      [] c.is = "ext_with_body" -> ExtPieces(c.obj[2][1], c.obj[2][2])
      [] c.is = "timestamp"     -> TimestampPieces(c.sec, c.nsec)
      [] c.is = "int"           -> IntegerPieces(TRUE, c.d)
      [] c.is = "uint"          -> IntegerPieces(FALSE, c.d)
      [] c.is = "fix_int"       -> <<append(pack_fix_int(c.d))>>
      [] c.is = "fix_uint"      -> <<append(pack_fix_uint(c.d))>>
      [] c.is = "array"         -> <<append(pack_array(c.d))>>
      [] c.is = "map"           -> <<append(pack_map(c.d))>>
      [] c.is = "str"           -> <<append(pack_str(c.d))>>
      [] c.is = "v4raw"         -> <<append(pack_v4raw(c.d))>>
      [] c.is = "bin"           -> <<append(pack_bin(c.d))>>
      [] c.is = "ext"           -> <<append(pack_ext(c.d, c.type))>>

\* An application whose call failed packs no more into that stream.
Begin(c) ==
    /\ packing = NoPacking /\ result = 0
    /\ Len(packed) < MaxCalls[session]
    /\ packing' = c
    /\ agenda' = Pieces(c)
    /\ UNCHANGED <<session, out, result, packed>>

\* A level of the recursion.
Open ==
    /\ agenda # << >> /\ agenda[1].is = "object"
    /\ agenda' = ObjectPieces(agenda[1].obj[1], agenda[1].obj[2]) \o Tail(agenda)
    /\ UNCHANGED <<session, out, packing, result, packed>>

\* What the callback may do with a piece.  fwrite of no bytes returns 0, which is not 1;
\* msgpack_sbuffer_write and msgpack_zbuffer_write have nothing to do then, and
\* msgpack_vrefbuffer_write makes the vector longer by no bytes that has the header,
\* copied just before to where the room begins now.
Takes(bytes) == FileBuffer[session] => bytes # << >>
Refuses(bytes) == IF bytes = << >> THEN FileBuffer[session] ELSE MayRefuse[session]

Append_ ==
    /\ agenda # << >> /\ agenda[1].is = "append"
    /\ Takes(agenda[1].bytes)
    /\ out' = out \o agenda[1].bytes
    /\ result' = 0
    /\ agenda' = Tail(agenda)
    /\ UNCHANGED <<session, packing, packed>>

\* The callback returns -1.  A file may have taken the first bytes of the piece.
Written(bytes) ==
    IF FileBuffer[session] /\ bytes # << >> THEN {SubSeq(bytes, 1, k) : k \in 0 .. Len(bytes) - 1}
                                   ELSE {<< >>}

\* (mutant) the recursion goes on behind what was refused
RefuseGoesOn ==
    /\ agenda # << >> /\ agenda[1].is = "append"
    /\ Refuses(agenda[1].bytes)
    /\ \E bytes \in Written(agenda[1].bytes) : out' = out \o bytes
    /\ result' = -1
    /\ agenda' = Tail(agenda)
    /\ UNCHANGED <<session, packing, packed>>

Refuse ==
    /\ agenda # << >> /\ agenda[1].is = "append"
    /\ Refuses(agenda[1].bytes)
    /\ \E bytes \in Written(agenda[1].bytes) : out' = out \o bytes
    /\ result' = -1
    /\ agenda' = IF agenda[1].checked THEN << >> ELSE Tail(agenda)
    /\ UNCHANGED <<session, packing, packed>>

\* The call returns what the last append returned.
Return ==
    /\ packing # NoPacking /\ agenda = << >>
    /\ packing' = NoPacking
    /\ packed' = IF result = 0 THEN Append(packed, packing) ELSE packed
    /\ UNCHANGED <<session, out, agenda, result>>

\* The application gives the stream up and begins anew, which a file does not allow.
Packer_Clear ==
    /\ packing = NoPacking /\ ~FileBuffer[session]
    /\ out' = << >> /\ packed' = << >> /\ result' = 0
    /\ UNCHANGED <<session, agenda, packing>>

Packer_Next ==
    \/ \E c \in Call[session] : Begin(c)
    \/ Open \/ Append_ \/ Refuse \/ Return \/ Packer_Clear

Packer_Spec == Packer_Init /\ [][Packer_Next]_packer_vars
-----------------------------------------------------------------------------
(* What a single header says, in nine bytes, which hold every 64-bit number, signed *)
(* or not.                                                                          *)

Extend(d, fill) == [i \in 1 .. 9 - Len(d) |-> fill] \o d
Unsigned(d) == Extend(d, 0)
Signed(d) == Extend(d, IF Negative(d) THEN 255 ELSE 0)

\* The type of a header and the number in it.
Says(h) ==
    CASE h[1] \in PositiveFixnum \cup NegativeFixnum -> <<"int", Signed(<<h[1]>>)>>
      [] h[1] \in FixMap   -> <<"map", Unsigned(<<h[1] - 128>>)>>
      [] h[1] \in FixArray -> <<"array", Unsigned(<<h[1] - 144>>)>>
      [] h[1] \in FixStr   -> <<"str", Unsigned(<<h[1] - 160>>)>>
      [] h[1] \in FixExt   -> <<"ext", Unsigned(<<FixExtTrail(h[1]) - 1>>)>>
      [] h[1] \in 196 .. 198 -> <<"bin", Unsigned(Tail(h))>>
      [] h[1] \in 199 .. 201 -> <<"ext", Unsigned(SubSeq(h, 2, Len(h) - 1))>>
      [] h[1] \in 204 .. 207 -> <<"int", Unsigned(Tail(h))>>
      [] h[1] \in 208 .. 211 -> <<"int", Signed(Tail(h))>>
      [] h[1] \in 217 .. 219 -> <<"str", Unsigned(Tail(h))>>
      [] h[1] \in 220 .. 221 -> <<"array", Unsigned(Tail(h))>>
      [] h[1] \in 222 .. 223 -> <<"map", Unsigned(Tail(h))>>

\* The type a call is for, and the number it was given.
Meant(c) ==
    CASE c.is \in {"int", "fix_int"}   -> <<"int", Signed(c.d)>>
      [] c.is \in {"uint", "fix_uint"} -> <<"int", Unsigned(c.d)>>
      [] c.is = "v4raw"                -> <<"str", Unsigned(c.d)>>
      [] OTHER                         -> <<c.is, Unsigned(c.d)>>

\* The stream has what one call packed, which returned 0.
Single == packing = NoPacking /\ result = 0 /\ Len(packed) = 1
IsHeader(c) == c.is \notin Bodied

\* Whichever function packs a number or a size, of whatever width and sign, the header
\* says that number: the tests on the value never select a form it does not fit.
HeaderSaysNumber ==
    Single /\ IsHeader(packed[1]) => Says(out) = Meant(packed[1])

\* The least bytes that can say a number: 1 for a fixnum, or the width and a byte.
Shortest(d) ==
    LET signed == {k \in Width : Signed(Low(d, k)) = d}
        unsigned == {k \in Width : Unsigned(Low(d, k)) = d}
    IN  IF Signed(Low(d, 1)) = d /\ Last(d) \in PositiveFixnum \cup NegativeFixnum THEN 1
        ELSE 1 + Least(signed \cup unsigned)

\* "The minimum byte size expression is used" (v1/pack.hpp:77): no function of an integer
\* but the fix_ ones takes a byte more than the number needs, so that equal numbers of
\* different types are packed to the same length.
MinimumSize ==
    Single /\ packed[1].is \in {"int", "uint"} => Len(out) = Shortest(Meant(packed[1])[2])

\* The bytes of an extension's header, with its type.
ExtHead(b) == IF b \in FixExt THEN 2 ELSE FixedTrail(b) + 2

\* A timestamp reads back as it was, from an extension of type -1, through whichever of
\* the three forms its seconds and nanoseconds call for.  An append that is refused is
\* another matter: msgpack_pack_timestamp looks only at what the last one returned.
TimestampKept ==
    Single /\ packed[1].is = "timestamp" /\ ~MayRefuse[session] =>
        LET n    == ExtHead(out[1])
            body == SubSeq(out, n + 1, Len(out))
        IN  /\ Says(SubSeq(out, 1, n)) = <<"ext", Unsigned(Int64(Len(body)))>>
            /\ out[n] = 255
            /\ ToTimestamp(body) = <<packed[1].sec, packed[1].nsec>>

\* Numbers, sizes and times come out of a stream as they were put in.
NumbersExact == HeaderSaysNumber /\ MinimumSize /\ TimestampKept
=============================================================================
