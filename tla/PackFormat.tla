----------------------------- MODULE PackFormat -----------------------------
(***************************************************************************)
(* The bytes that the functions of include/msgpack/pack_template.h hand to a  *)
(* buffer; packer<Stream> of include/msgpack/v1/pack.hpp has the same         *)
(* statements.  A number is the sequence of its bytes, big-endian and in      *)
(* two's complement, as wide as the C type: 64-bit arithmetic is done on it   *)
(* byte by byte.                                                             *)
(***************************************************************************)
EXTENDS WireFormat

Low(bs, k) == SubSeq(bs, Len(bs) - k + 1, Len(bs))
Last(bs) == bs[Len(bs)]
Log(k) == CHOOSE i \in 0 .. 3 : Bit(i) = k

\* size_t and the 64-bit integers of an object, as bytes.
Digits(n) ==
    LET n1 == n \div 256   n2 == n1 \div 256   n3 == n2 \div 256   n4 == n3 \div 256
        n5 == n4 \div 256  n6 == n5 \div 256   n7 == n6 \div 256
    IN  <<n7 % 256, n6 % 256, n5 % 256, n4 % 256, n3 % 256, n2 % 256, n1 % 256, n % 256>>
Int64(n) == IF n >= 0 THEN Digits(n) ELSE [i \in 1 .. 8 |-> 255 - Digits(-1 - n)[i]]

\* d < 1 << 8k
Below(d, k) == \A i \in 1 .. Len(d) - k : d[i] = 0

\* The widths of C's integers, and the least of some of them.
Width == {1, 2, 4, 8}
Least(S) == CHOOSE k \in S : \A j \in S : k <= j

\* (mutant) the next tests are made on one byte too many
UintLoose(d) ==
    IF Below(d, 1) /\ Last(d) < 128 THEN Low(d, 1)
    ELSE LET k == Least({j \in Width : j <= Len(d) /\ (j < 8 => Below(d, j + 1))})
         IN  <<204 + Log(k)>> \o Low(d, k)

\* msgpack_pack_real_uint8 .. 64
pack_real_uint(d) ==
    IF Below(d, 1) /\ Last(d) < 128 THEN Low(d, 1)
    ELSE LET k == Least({j \in Width : j <= Len(d) /\ Below(d, j)})
         IN  <<204 + Log(k)>> \o Low(d, k)

Negative(d) == d[1] >= 128

\* (mutant) d >= -(1 << 8k), whatever the sign bit of the k bytes
AtLeastLoose(d, k) == \A i \in 1 .. Len(d) - k : d[i] = 255

\* For a negative d, d >= -(1 << (8k - 1)).
AtLeast(d, k) == d[Len(d) - k + 1] >= 128 /\ \A i \in 1 .. Len(d) - k : d[i] = 255

\* (mutant) no number is a negative fixnum
IntNeverFixnum(d) ==
    IF ~Negative(d) THEN pack_real_uint(d)
    ELSE LET k == Least({j \in Width : j <= Len(d) /\ AtLeast(d, j)})
         IN  <<208 + Log(k)>> \o Low(d, k)

\* msgpack_pack_real_int8 .. 64.  A number that is not negative is packed as an
\* unsigned one.
pack_real_int(d) ==
    IF ~Negative(d) THEN pack_real_uint(d)
    ELSE IF AtLeast(d, 1) /\ Last(d) >= 224 THEN Low(d, 1)
    ELSE LET k == Least({j \in Width : j <= Len(d) /\ AtLeast(d, j)})
         IN  <<208 + Log(k)>> \o Low(d, k)

\* msgpack_pack_fix_uint8 .. 64, fix_int8 .. 64
pack_fix_uint(d) == <<204 + Log(Len(d))>> \o d
pack_fix_int(d)  == <<208 + Log(Len(d))>> \o d

pack_float(d)  == <<202>> \o d
pack_double(d) == <<203>> \o d
pack_nil       == <<192>>
pack_true      == <<195>>
pack_false     == <<194>>

\* A header with a size: fix + n where n < limit, else the header of the least of the
\* widths W that has n; first is that of the least of all, and the others follow.  What
\* does not fit four bytes is cut off, as the casts do.
SizeHeader(n, fix, limit, first, W) ==
    IF Below(n, 1) /\ Last(n) < limit THEN <<fix + Last(n)>>
    ELSE LET k == Least({w \in W : w = 4 \/ Below(n, w)})
         IN  <<first + Log(k) - Log(Least(W))>> \o Low(n, k)

pack_array(n) == SizeHeader(n, 144, 16, 220, {2, 4})
pack_map(n)   == SizeHeader(n, 128, 16, 222, {2, 4})
pack_str(n)   == SizeHeader(n, 160, 32, 217, {1, 2, 4})
pack_v4raw(n) == SizeHeader(n, 160, 32, 218, {2, 4})
pack_bin(n)   == SizeHeader(n, 0, 0, 196, {1, 2, 4})

FixExtSize == {1, 2, 4, 8, 16}

pack_ext(n, type) ==
    IF Below(n, 1) /\ Last(n) \in FixExtSize
    THEN <<212 + (CHOOSE i \in 0 .. 4 : <<1, 2, 4, 8, 16>>[i + 1] = Last(n)), type>>
    ELSE SizeHeader(n, 0, 0, 199, {1, 2, 4}) \o <<type>>
-----------------------------------------------------------------------------
\* Timestamps.  tv_sec is 8 bytes, tv_nsec 4.

\* The upper four bytes of (nsec << 34) | sec, and what they have of each again.
ShiftUp(nsec, sec) ==
    [i \in 1 .. 4 |-> ((nsec[i] * 4) % 256)
                      + (IF i < 4 THEN nsec[i + 1] \div 64 ELSE sec[4] % 4)]
ShiftDown(hi) == [i \in 1 .. 4 |-> (hi[i] \div 4) + (IF i = 1 THEN 0 ELSE 64 * (hi[i - 1] % 4))]

\* (mutant) the seconds are compared with 1 << 35
SecondsFitLoose(sec) == \A i \in 1 .. 3 : sec[i] = 0 /\ sec[4] < 8

\* tv_sec >> 34 == 0
SecondsFit(sec) == (\A i \in 1 .. 3 : sec[i] = 0) /\ sec[4] < 4

\* The body that msgpack_pack_timestamp writes behind an extension header of type -1.
TimestampBody(sec, nsec) ==
    IF ~SecondsFit(sec) THEN nsec \o sec
    ELSE LET hi == ShiftUp(nsec, sec)
         IN  IF Below(hi \o Low(sec, 4), 4) THEN Low(sec, 4) ELSE hi \o Low(sec, 4)

ZeroWord == <<0, 0, 0, 0>>

\* msgpack_object_to_timestamp of a body: the seconds and the nanoseconds.
ToTimestamp(body) ==
    CASE Len(body) = 4  -> <<ZeroWord \o Low(body, 4), ZeroWord>>
      [] Len(body) = 8  -> <<<<0, 0, 0, body[4] % 4>> \o Low(body, 4), ShiftDown(SubSeq(body, 1, 4))>>
      [] Len(body) = 12 -> <<Low(body, 8), SubSeq(body, 1, 4)>>
      [] OTHER          -> <<>>
=============================================================================
