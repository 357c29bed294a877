----------------------------- MODULE MessagePack -----------------------------
(***************************************************************************)
(* A reference reading of the MessagePack format: what the object is that begins *)
(* somewhere in a sequence of bytes, by recursion on the format, for comparison   *)
(* with the parsers, which work byte by byte with a stack.  An object is         *)
(* <<type, value>>.                                                          *)
(***************************************************************************)
EXTENDS Integers, Sequences

CONSTANTS Depth,  \* how many containers may be open at once
          Top     \* a size that cannot be counted together with a type byte

\* The outcome of reading at an index: the object and the index behind it, or
\* that bytes are missing, or what is wrong.
Ok(o, i) == [is |-> "ok", obj |-> o, next |-> i]
Not(what) == [is |-> what]

\* The number that bytes say, the first of them worth the most.
BigEndian(bs) ==
    LET Says[n \in Nat] == IF n = 0 THEN 0 ELSE 256 * Says[n - 1] + bs[n]
    IN  Says[Len(bs)]

\* Two's complement: a negative number is one less than minus its complement.
TwosComplement(bs) ==
    IF bs[1] < 128 THEN BigEndian(bs)
                   ELSE -1 - BigEndian([k \in DOMAIN bs |-> 255 - bs[k]])

NilObject == <<"nil", << >> >>

Integer(n) == <<IF n < 0 THEN "negative" ELSE "positive", n>>

Value(type, bs) ==
    CASE type = "unsigned" -> Integer(BigEndian(bs))
      [] type = "signed"   -> Integer(TwosComplement(bs))
      [] type = "ext"      -> <<"ext", <<TwosComplement(<<bs[1]>>), Tail(bs)>> >>
      [] OTHER             -> <<type, bs>>

-----------------------------------------------------------------------------
(* What begins at index i of s, of which the bytes up to index e are there. *)

\* A value of n bytes.
Fixed(s, e, i, n, type) ==
    IF i + n - 1 > e THEN Not("more") ELSE Ok(Value(type, SubSeq(s, i, i + n - 1)), i + n)

\* A size of w bytes, then as many bytes of a string, a binary or an extension.
Sized(s, e, i, w, type) ==
    IF i + w - 1 > e THEN Not("more")
    ELSE LET n == BigEndian(SubSeq(s, i, i + w - 1))
         IN  IF type # "ext" THEN Fixed(s, e, i + w, n, type)
             ELSE IF n = Top THEN Not("parse_error")
             ELSE Fixed(s, e, i + w, n + 1, type)

\* A container of n items, the first of them at index i.
Opens(type, n, i) == [is |-> "open", type |-> type, n |-> n, next |-> i]

SizedContainer(s, e, i, w, type) ==
    IF i + w - 1 > e THEN Not("more")
    ELSE Opens(type, BigEndian(SubSeq(s, i, i + w - 1)), i + w)

\* An object that is no container, or that a container opens.
Front(s, e, i) ==
    IF i > e THEN Not("more")
    ELSE LET b == s[i]
             j == i + 1
         IN
         CASE b \in 0 .. 127    -> Ok(Integer(b), j)
           [] b \in 128 .. 143  -> Opens("map", b - 128, j)
           [] b \in 144 .. 159  -> Opens("array", b - 144, j)
           [] b \in 160 .. 191  -> Fixed(s, e, j, b - 160, "str")
           [] b = 192           -> Ok(NilObject, j)
           [] b = 193           -> Not("parse_error")
           [] b = 194           -> Ok(<<"boolean", FALSE>>, j)
           [] b = 195           -> Ok(<<"boolean", TRUE>>, j)
           [] b \in 196 .. 198  -> Sized(s, e, j, <<1, 2, 4>>[b - 195], "bin")
           [] b \in 199 .. 201  -> Sized(s, e, j, <<1, 2, 4>>[b - 198], "ext")
           [] b = 202           -> Fixed(s, e, j, 4, "float32")
           [] b = 203           -> Fixed(s, e, j, 8, "float64")
           [] b \in 204 .. 207  -> Fixed(s, e, j, <<1, 2, 4, 8>>[b - 203], "unsigned")
           [] b \in 208 .. 211  -> Fixed(s, e, j, <<1, 2, 4, 8>>[b - 207], "signed")
           [] b \in 212 .. 216  -> Fixed(s, e, j, <<1, 2, 4, 8, 16>>[b - 211] + 1, "ext")
           [] b \in 217 .. 219  -> Sized(s, e, j, <<1, 2, 4>>[b - 216], "str")
           [] b \in 220 .. 221  -> SizedContainer(s, e, j, <<2, 4>>[b - 219], "array")
           [] b \in 222 .. 223  -> SizedContainer(s, e, j, <<2, 4>>[b - 221], "map")
           [] b \in 224 .. 255  -> Ok(Integer(b - 256), j)

-----------------------------------------------------------------------------
Pairs(seq) == [k \in 1 .. Len(seq) \div 2 |-> <<seq[2 * k - 1], seq[2 * k]>>]

Made(type, r) ==
    IF r.is = "ok" THEN Ok(<<type, IF type = "map" THEN Pairs(r.obj) ELSE r.obj>>, r.next) ELSE r

\* The object that begins with f, with d containers open around it, when F[i][d][n] reads n
\* objects at i.
Whole(f, d, F) ==
    IF f.is # "open" THEN f
    ELSE IF d >= Depth THEN Not("nomem")
    ELSE Made(f.type, F[f.next][d + 1][IF f.type = "map" THEN 2 * f.n ELSE f.n])

\* After the object that r is, n more.
Behind(r, d, n, F) ==
    IF r.is # "ok" THEN r
    ELSE LET rest == F[r.next][d][n]
         IN  IF rest.is = "ok" THEN Ok(<<r.obj>> \o rest.obj, rest.next) ELSE rest

\* Series(s, e)[k][i][d][n] reads n objects at index i with d containers open around them,
\* the last of which begins less than k bytes behind i.
Series(s, e) ==
    LET F[k \in Nat] ==
          [i \in Nat |-> [d \in Nat |-> [n \in Nat |->
              IF n = 0 THEN Ok(<< >>, i)
              ELSE IF k = 0 THEN Not("more")
              ELSE Behind(Whole(Front(s, e, i), d, F[k - 1]), d, n - 1, F[k - 1])]]]
    IN  F

\* The object at index i.
Read(s, e, i) == Whole(Front(s, e, i), 0, Series(s, e)[e])

\* The whole objects at the front of s.
Objects(s) ==
    LET front(n) == Series(s, Len(s))[Len(s)][1][0][n]
        whole    == {n \in 0 .. Len(s) : front(n).is = "ok"}
    IN  front(CHOOSE n \in whole : \A m \in whole : m <= n).obj
=============================================================================
