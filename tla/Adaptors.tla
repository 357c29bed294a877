------------------------------ MODULE Adaptors ------------------------------
(***************************************************************************)
(* The type adaptors of the C++ library (include/msgpack/v1/adaptor/): an     *)
(* application's variable v, into which one object after another is converted, *)
(* in place (o.convert(v)) or by way of a new value (v = o.as<T>()).  What     *)
(* arrives may be of any type: the sender may be another version.             *)
(*                                                                           *)
(* A C++ type is a tuple of its name and its parameters:                       *)
(*   <<"int", least, greatest>>  <<"bool">>  <<"string">>  <<"time_point">>      *)
(*   <<"vector", T>>  <<"vector_bool">>  <<"set", T>>  <<"map", K, V>>           *)
(*   <<"array", N, T>> (std::array)  <<"carray", N, T>> (T[N])                   *)
(*   <<"char[N]", N>>  <<"array_char", N>>  <<"pair", T1, T2>>                   *)
(*   <<"tuple", Ts>> (std::tuple)  <<"msgpack_tuple", Ts>>                       *)
(*   <<"optional", T>>  <<"unique_ptr", T>>                                      *)
(*   <<"define_array", Ts>>  <<"define_map", Ts, names>> (MSGPACK_DEFINE...)       *)
(* A set is a set, a map a function, an optional or a pointer a sequence of at   *)
(* most one item, and a time point its count of clock periods.                  *)
(***************************************************************************)
EXTENDS PackFormat, FiniteSets, TLC

CONSTANTS Type,     \* the types the variable may have
          Message,  \* for each type, the objects that arrive for a variable of it
          Number,   \* the integers that values are made of
          Count,    \* the counts that time points are made of
          MaxItems, \* the greatest size of a container among the values
          PERIOD,   \* nanoseconds in a second, as the clock counts: 10^9
          Unset     \* what is in memory that nobody wrote

AdaptorConstants == PERIOD \in Nat \ {0} /\ MaxItems \in Nat /\ Number \cup Count \subseteq Int

VARIABLES type, \* the type of the variable
          v,    \* what it holds
          held, \* (history) what it held before the conversion
          from, \* the object converted
          by,   \* "convert", "as", or "none" between two conversions
          how   \* "returned", "threw", or "undefined": memory was read that is not
                \* the object's

Seqs == INSTANCE SequencesExt

vars == <<type, v, held, from, by, how>>

NIL == <<"nil", << >>>>
Throws(w) == [how |-> "threw", v |-> w]
Returns(w) == [how |-> "returned", v |-> w]
Undefined(w) == [how |-> "undefined", v |-> w]
-----------------------------------------------------------------------------
(* From values to objects: pack<T> and object_with_zone<T>, which agree. *)

\* The members of a type that has a fixed number of items, each of its own type.
Members(t) == CASE t[1] \in {"array", "carray"} -> [i \in 1 .. t[2] |-> t[3]]
                [] t[1] = "pair" -> <<t[2], t[3]>>
                [] t[1] \in {"tuple", "msgpack_tuple", "define_array", "define_map"} -> t[2]

FixedArray == {"array", "carray", "pair", "tuple", "msgpack_tuple", "define_array"}

\* A char array up to its NUL.
CString(w) == Seqs!SelectInSeq(w, LAMBDA c : c = 0)
UpToNul(w) == IF CString(w) = 0 THEN w ELSE SubSeq(w, 1, CString(w) - 1)

\* C++ division rounds towards zero.
Quotient(n, d) == IF n >= 0 THEN n \div d ELSE -((-n) \div d)
Remainder(n, d) == n - d * Quotient(n, d)

\* (mutant) the second is not borrowed for the nanoseconds before it
TimeUnborrowed(count) ==
    LET r == Remainder(count, PERIOD)
    IN  TimestampBody(Int64(Quotient(count, PERIOD)), Low(Digits(IF r < 0 THEN PERIOD + r ELSE r), 4))

\* The body of a timestamp for a count that may be negative.
TimeBody(count) ==
    LET r == Remainder(count, PERIOD)
        sec == Quotient(count, PERIOD) - (IF r < 0 THEN 1 ELSE 0)
    IN  TimestampBody(Int64(sec), Low(Digits(IF r < 0 THEN PERIOD + r ELSE r), 4))

RECURSIVE ObjectOf(_, _)
ObjectOf(t, w) ==
    CASE t[1] = "int"  -> <<IF w < 0 THEN "negative" ELSE "positive", w>>
      [] t[1] = "bool" -> <<"boolean", w>>
      [] t[1] = "string"  -> <<"str", w>>
      [] t[1] = "char[N]" -> <<"str", UpToNul(w)>>
      [] t[1] = "array_char" -> <<"bin", w>>
      [] t[1] = "vector"  -> <<"array", [i \in DOMAIN w |-> ObjectOf(t[2], w[i])]>>
      [] t[1] = "vector_bool" -> <<"array", [i \in DOMAIN w |-> <<"boolean", w[i]>>]>>
      [] t[1] = "set" -> LET s == Seqs!SetToSortSeq(w, <)
                         IN  <<"array", [i \in DOMAIN s |-> ObjectOf(t[2], s[i])]>>
      [] t[1] = "map" -> LET s == Seqs!SetToSortSeq(DOMAIN w, <)
                         IN  <<"map", [i \in DOMAIN s |->
                                         <<ObjectOf(t[2], s[i]), ObjectOf(t[3], w[s[i]])>>]>>
      [] t[1] \in FixedArray ->
             <<"array", [i \in DOMAIN Members(t) |-> ObjectOf(Members(t)[i], w[i])]>>
      [] t[1] = "define_map" ->
             <<"map", [i \in DOMAIN t[2] |-> <<<<"str", t[3][i]>>, ObjectOf(t[2][i], w[i])>>]>>
      [] t[1] \in {"optional", "unique_ptr"} -> IF w = << >> THEN NIL ELSE ObjectOf(t[2], w[1])
      [] t[1] = "time_point" -> <<"ext", <<-1, TimeBody(w)>>>>
-----------------------------------------------------------------------------
(* From objects to values: convert<T> and as<T>. *)

\* What a variable holds that was declared without an initializer, where scalar is
\* what is in its integers: Unset, or 0 where the value is initialized.
RECURSIVE Fresh(_, _)
Fresh(t, scalar) ==
    CASE t[1] = "int"  -> scalar
      [] t[1] = "time_point" -> 0
      [] t[1] = "bool" -> IF scalar = Unset THEN Unset ELSE FALSE
      [] t[1] = "set"  -> {}
      [] t[1] \in {"char[N]", "array_char"} -> [i \in 1 .. t[2] |-> scalar]
      [] t[1] \in {"array", "carray", "define_array", "define_map"} ->
             [i \in DOMAIN Members(t) |-> Fresh(Members(t)[i], scalar)]
      [] t[1] \in {"pair", "tuple", "msgpack_tuple"} ->
             [i \in DOMAIN Members(t) |-> Fresh(Members(t)[i], 0)]
      [] OTHER -> << >>

Default(t) == Fresh(t, Unset)
ValueInit(t) == Fresh(t, 0)

\* has_as<T>: there is a specialization of as<T>.
RECURSIVE has_as(_)
has_as(t) ==
    CASE t[1] = "time_point" -> TRUE
      [] t[1] \in {"vector", "set", "optional", "unique_ptr"} -> has_as(t[2])
      [] t[1] = "array" -> has_as(t[3])
      [] t[1] \in {"pair", "tuple", "msgpack_tuple"} ->
             \E i \in DOMAIN Members(t) : has_as(Members(t)[i])
      [] t[1] = "map" -> has_as(t[2]) \/ has_as(t[3])
      [] OTHER -> FALSE

\* (mutant) from the last to the first
InReverse(results, old) ==
    LET bad  == {i \in DOMAIN results : results[i].how # "returned"}
        done == IF bad = {} THEN 1 ELSE CHOOSE i \in bad : \A j \in bad : j <= i
    IN  [how |-> IF bad = {} THEN "returned" ELSE results[done].how,
         v |-> [i \in DOMAIN old |-> IF i \in DOMAIN results /\ i >= done THEN results[i].v ELSE old[i]]]

\* Conversions that are made one after the other, until one does not return: the first
\* items of old become what they are made, and the conversion that stops leaves its own.
InOrder(results, old) ==
    LET bad  == {i \in DOMAIN results : results[i].how # "returned"}
        done == IF bad = {} THEN Len(results) ELSE CHOOSE i \in bad : \A j \in bad : i <= j
    IN  [how |-> IF bad = {} THEN "returned" ELSE results[done].how,
         v |-> [i \in DOMAIN old |-> IF i <= done THEN results[i].v ELSE old[i]]]

\* static_cast<T>
Cast(t, n) == t[2] + ((n - t[2]) % (t[3] - t[2] + 1))

\* (mutant) a negative number is not compared with the least of the type
IntegerUnchecked(t, o, w) ==
    IF o[1] \in {"positive", "negative"} /\ o[2] <= t[3] /\ (o[1] = "negative" => t[2] < 0)
    THEN Returns(Cast(t, o[2])) ELSE Throws(w)

\* convert_integer
convert_integer(t, o, w) ==
    IF \/ o[1] = "positive" /\ o[2] <= t[3]
       \/ o[1] = "negative" /\ t[2] < 0 /\ o[2] >= t[2]
    THEN Returns(Cast(t, o[2])) ELSE Throws(w)

\* A char array: a binary as it is, a string with a NUL if there is room.
ConvertChars(t, o, w) ==
    IF o[1] \notin {"str", "bin"} \/ Len(o[2]) > t[2] THEN Throws(w)
    ELSE IF o[1] = "str" /\ t[1] = "array_char" /\ Len(o[2]) < t[2]
    THEN Undefined(w)     \* N bytes are copied
    ELSE Returns([i \in DOMAIN w |-> IF i <= Len(o[2]) THEN o[2][i]
                                     ELSE IF i = Len(o[2]) + 1 /\ o[1] = "str" THEN 0 ELSE w[i]])

\* A time point is made in a temporary.
ConvertTime(o, w) ==
    IF o[1] # "ext" \/ o[2][1] # -1 \/ Len(o[2][2]) \notin {4, 8, 12} THEN Throws(w)
    ELSE LET time == ToTimestamp(o[2][2])
         IN  Returns(PERIOD * LoadSigned(time[1]) + LoadUnsigned(time[2]))

\* (mutant) the vector only grows
Grown(t, w, n) == [i \in 1 .. (IF n < Len(w) THEN Len(w) ELSE n) |->
                      IF i <= Len(w) THEN w[i] ELSE ValueInit(t)]

\* v.resize(n)
Resized(t, w, n) == [i \in 1 .. n |-> IF i <= Len(w) THEN w[i] ELSE ValueInit(t)]
-----------------------------------------------------------------------------
RECURSIVE Convert(_, _, _), As(_, _)

\* The member converted by a macro's convert_helper.
ConvertMember(t, o, w) ==
    IF ~has_as(t) THEN Convert(t, o, w)
    ELSE LET r == As(t, o) IN IF r.how = "returned" THEN r ELSE [r EXCEPT !.v = w]

\* The first min(size, N) items, in place; of a struct, each as a member.
ConvertItems(t, items, w) ==
    InOrder([i \in 1 .. (IF Len(items) < Len(w) THEN Len(items) ELSE Len(w)) |->
                IF t[1] = "define_array" THEN ConvertMember(Members(t)[i], items[i], w[i])
                ELSE Convert(Members(t)[i], items[i], w[i])], w)

ConvertFixed(t, items, w) ==
    IF \/ t[1] = "pair" /\ Len(items) # 2
       \/ t[1] \in {"array", "carray"} /\ Len(items) > t[2]
    THEN Throws(w)
    ELSE IF t[1] \in {"carray", "msgpack_tuple"} /\ items = << >> THEN Undefined(w)
    ELSE ConvertItems(t, items, w)

ConvertVector(t, items, w) ==
    LET old == Resized(t[2], w, Len(items))
    IN  InOrder([i \in DOMAIN items |-> Convert(t[2], items[i], old[i])], old)

\* Of an empty array nothing is taken.
ConvertVectorBool(items, w) ==
    IF items = << >> THEN Returns(w) ELSE ConvertVector(<<"vector", <<"bool">>>>, items, w)

\* From the last item to the first, into a temporary.
ConvertSet(t, items, w) ==
    LET last == Seqs!Reverse(items)
        r    == InOrder([i \in DOMAIN last |-> As(t[2], last[i])], last)
    IN  IF r.how = "returned" THEN Returns(Seqs!ToSet(r.v)) ELSE [r EXCEPT !.v = w]

\* A new value of the type inside is made, and becomes the optional's if that returns.
ConvertOptional(t, o, w) ==
    LET r == Convert(t[2], o, Default(t[2]))
    IN  IF o = NIL THEN Returns(<< >>)
        ELSE IF r.how = "returned" THEN Returns(<<r.v>>)
        ELSE [r EXCEPT !.v = w]

\* v.reset(new T), and what it points to is converted.
ConvertPointer(t, o) ==
    LET r == Convert(t[2], o, Default(t[2]))
    IN  IF o = NIL THEN Returns(<< >>) ELSE [r EXCEPT !.v = <<r.v>>]

\* One pair of a map: the key, then the value into tmp[key].
ConvertPair(t, acc, kv) ==
    LET key == Convert(t[2], kv[1], Default(t[2]))
        old == IF key.v \in DOMAIN acc.v THEN acc.v[key.v] ELSE ValueInit(t[3])
        val == Convert(t[3], kv[2], old)
    IN  IF acc.how # "returned" THEN acc
        ELSE IF key.how # "returned" THEN [acc EXCEPT !.how = key.how]
        ELSE [how |-> val.how, v |-> (key.v :> val.v) @@ acc.v]

\* The same with emplace: the first value of a key is kept.
AsPair(t, acc, kv) ==
    LET key == As(t[2], kv[1])
        val == As(t[3], kv[2])
    IN  IF acc.how # "returned" THEN acc
        ELSE IF key.how # "returned" THEN [acc EXCEPT !.how = key.how]
        ELSE IF val.how # "returned" THEN [acc EXCEPT !.how = val.how]
        ELSE [acc EXCEPT !.v = acc.v @@ (key.v :> val.v)]

\* A map is made in a temporary that then is moved to v.
ConvertMap(t, pairs, w) ==
    LET r == Seqs!FoldLeft(LAMBDA acc, kv : ConvertPair(t, acc, kv), Returns(<< >>), pairs)
    IN  IF r.how = "returned" THEN r ELSE [r EXCEPT !.v = w]

AsMap(t, pairs) == Seqs!FoldLeft(LAMBDA acc, kv : AsPair(t, acc, kv), Returns(<< >>), pairs)

\* (mutant) a member whose name is missing is made a new one
ConvertNamedAfresh(t, pairs, w) ==
    LET at(i) == Seqs!SelectInSeq(pairs, LAMBDA kv : kv[1][2] = t[3][i])
        member(i) == IF at(i) = 0 THEN Returns(ValueInit(t[2][i]))
                     ELSE ConvertMember(t[2][i], pairs[at(i)][2], w[i])
    IN  IF \E i \in DOMAIN pairs : pairs[i][1][1] # "str" THEN Throws(w)
        ELSE InOrder([i \in DOMAIN w |-> member(i)], w)

\* The members of a struct are looked up by their names; of two that are the same the
\* first is taken.
ConvertNamed(t, pairs, w) ==
    LET at(i) == Seqs!SelectInSeq(pairs, LAMBDA kv : kv[1][2] = t[3][i])
        member(i) == IF at(i) = 0 THEN Returns(w[i])
                     ELSE ConvertMember(t[2][i], pairs[at(i)][2], w[i])
    IN  IF \E i \in DOMAIN pairs : pairs[i][1][1] # "str" THEN Throws(w)
        ELSE InOrder([i \in DOMAIN w |-> member(i)], w)

Convert(t, o, w) ==
    CASE t[1] = "int"  -> convert_integer(t, o, w)
      [] t[1] = "bool" -> IF o[1] = "boolean" THEN Returns(o[2]) ELSE Throws(w)
      [] t[1] = "string" -> IF o[1] \in {"str", "bin"} THEN Returns(o[2]) ELSE Throws(w)
      [] t[1] \in {"char[N]", "array_char"} -> ConvertChars(t, o, w)
      [] t[1] = "time_point" -> ConvertTime(o, w)
      [] t[1] = "optional" -> ConvertOptional(t, o, w)
      [] t[1] = "unique_ptr" -> ConvertPointer(t, o)
      [] t[1] \in {"map", "define_map"} /\ o[1] # "map" -> Throws(w)
      [] t[1] = "map" -> ConvertMap(t, o[2], w)
      [] t[1] = "define_map" -> ConvertNamed(t, o[2], w)
      [] o[1] # "array" -> Throws(w)
      [] t[1] = "vector" -> ConvertVector(t, o[2], w)
      [] t[1] = "vector_bool" -> ConvertVectorBool(o[2], w)
      [] t[1] = "set" -> ConvertSet(t, o[2], w)
      [] OTHER -> ConvertFixed(t, o[2], w)

\* The last N items of an array; none are skipped where there are too few.
AsLast(t, items) ==
    LET N == Len(Members(t))
    IN  IF Len(items) < N THEN Undefined(Default(t))
        ELSE InOrder([i \in 1 .. N |-> As(Members(t)[i], items[Len(items) - N + i])], Default(t))

AsVector(t, items) == InOrder([i \in DOMAIN items |-> As(t[2], items[i])], items)

AsPresent(t, o) ==
    LET r == As(t[2], o) IN IF o = NIL THEN Returns(<< >>) ELSE [r EXCEPT !.v = <<r.v>>]

As(t, o) ==
    IF ~has_as(t) THEN Convert(t, o, Default(t))
    ELSE CASE t[1] = "time_point" -> ConvertTime(o, 0)
           [] t[1] \in {"optional", "unique_ptr"} -> AsPresent(t, o)
           [] t[1] = "map" -> IF o[1] = "map" THEN AsMap(t, o[2]) ELSE Throws(<< >>)
           [] o[1] # "array" -> Throws(Default(t))
           [] t[1] = "vector" -> AsVector(t, o[2])
           [] t[1] = "set" -> ConvertSet(t, o[2], {})
           [] t[1] = "array" /\ Len(o[2]) > t[2] -> Throws(Default(t))
           [] t[1] = "pair" /\ Len(o[2]) # 2 -> Throws(Default(t))
           [] OTHER -> AsLast(t, o[2])
-----------------------------------------------------------------------------
Init ==
    /\ type \in Type
    /\ v = ValueInit(type) /\ held = v
    /\ from = NIL /\ by = "none" /\ how = "returned"

\* o.convert(v)
ConvertInPlace(o) ==
    LET r == Convert(type, o, v)
    IN  by' = "convert" /\ from' = o /\ how' = r.how /\ v' = r.v /\ held' = v /\ UNCHANGED type

\* v = o.as<T>(); an array cannot be returned.
Assign(o) ==
    LET r == As(type, o)
    IN  /\ type[1] \notin {"carray", "char[N]"}
        /\ by' = "as" /\ from' = o /\ how' = r.how /\ held' = v
        /\ v' = IF r.how = "returned" THEN r.v ELSE v
        /\ UNCHANGED type

\* o.convert_if_not_nil(v)
ConvertIfNotNil(o) ==
    IF o = NIL THEN by' = "nothing" /\ from' = o /\ how' = "returned" /\ held' = v /\ UNCHANGED <<type, v>>
    ELSE ConvertInPlace(o)

\* The application looks at v, and goes on.
Look ==
    /\ by # "none" /\ how # "undefined"
    /\ by' = "none" /\ from' = NIL /\ how' = "returned" /\ held' = v
    /\ UNCHANGED <<type, v>>

Next ==
    \/ by = "none" /\ \E o \in Message[type] : ConvertInPlace(o) \/ Assign(o) \/ ConvertIfNotNil(o)
    \/ Look

Spec == Init /\ [][Next]_vars
-----------------------------------------------------------------------------
(* Properties *)

\* The values of a type whose containers have no more than MaxItems items.
Sequences(S) == UNION {[1 .. n -> S] : n \in 0 .. MaxItems}
RECURSIVE Value(_)
Value(t) ==
    CASE t[1] = "int"  -> {n \in Number : n \in t[2] .. t[3]}
      [] t[1] = "time_point" -> Count
      [] t[1] \in {"bool", "vector_bool"} -> IF t[1] = "bool" THEN BOOLEAN ELSE Sequences(BOOLEAN)
      [] t[1] = "string" -> Sequences({97})
      [] t[1] \in {"char[N]", "array_char"} -> [1 .. t[2] -> {0, 97}]
      [] t[1] = "vector" -> Sequences(Value(t[2]))
      [] t[1] = "set" -> {S \in SUBSET Value(t[2]) : Cardinality(S) <= MaxItems}
      [] t[1] = "map" -> UNION {[S -> Value(t[3])] :
                                   S \in {K \in SUBSET Value(t[2]) : Cardinality(K) <= MaxItems}}
      [] t[1] \in {"optional", "unique_ptr"} -> {<< >>} \cup {<<w>> : w \in Value(t[2])}
      [] OTHER -> Seqs!FoldLeft(LAMBDA ws, S : {Append(w, x) : w \in ws, x \in S}, {<< >>},
                                [i \in DOMAIN Members(t) |-> Value(Members(t)[i])])

\* Nothing of what v held can show in what it holds.
RECURSIVE Whole(_)
Whole(t) ==
    CASE t[1] = "pair" -> Whole(t[2]) /\ Whole(t[3])
      [] t[1] \in FixedArray \cup {"define_map", "char[N]", "array_char"} -> FALSE
      [] t[1] = "vector" -> Whole(t[2])
      [] OTHER -> TRUE

\* What arrives has as many items as the type has members, and no key twice.
RECURSIVE Exact(_, _)
Exact(t, o) ==
    CASE t[1] = "map" /\ o[1] = "map" ->
             /\ \A i, j \in DOMAIN o[2] : i # j => o[2][i][1] # o[2][j][1]
             /\ \A i \in DOMAIN o[2] : Exact(t[2], o[2][i][1]) /\ Exact(t[3], o[2][i][2])
      [] t[1] = "define_map" /\ o[1] = "map" ->
             \A i \in DOMAIN o[2], k \in DOMAIN t[3] :
                 o[2][i][1] = <<"str", t[3][k]>> => Exact(t[2][k], o[2][i][2])
      [] t[1] \in {"optional", "unique_ptr"} -> o = NIL \/ Exact(t[2], o)
      [] t[1] \in {"vector", "set"} /\ o[1] = "array" -> \A i \in DOMAIN o[2] : Exact(t[2], o[2][i])
      [] t[1] \in FixedArray /\ o[1] = "array" ->
             /\ Len(o[2]) = Len(Members(t))
             /\ \A i \in DOMAIN o[2] : Exact(Members(t)[i], o[2][i])
      [] t[1] = "array_char" /\ o[1] = "str" -> Len(o[2]) = t[2]
      [] OTHER -> TRUE

\* The same value; of a char array, the same string.
Same(t, w1, w2) == IF t[1] = "char[N]" THEN UpToNul(w1) = UpToNul(w2) ELSE w1 = w2

Converted == by \in {"convert", "as"}

\* A value that a program packs arrives as that value in a variable of the same type,
\* whatever the variable held, negative numbers and times before 1970 included.
RoundTrips ==
    Converted => \A w \in Value(type) :
        from = ObjectOf(type, w) => how = "returned" /\ Same(type, v, w)

\* No number is cut off: what a conversion that returned has made says what arrived.
NothingInvented ==
    Converted /\ how = "returned" /\ Exact(type, from)
              /\ type[1] \in {"int", "bool", "pair", "tuple", "vector", "optional", "unique_ptr"} =>
        ObjectOf(type, v) = from

\* `v` is overwritten by converted value from the object (object_fwd.hpp:138): a vector,
\* a map or an optional has nothing left of what it held.
Overwritten ==
    by = "convert" /\ how = "returned" /\ Whole(type) =>
        v = Convert(type, from, ValueInit(type)).v

\* convert and as agree, where the sizes and the keys are as they should be.
AsAgrees ==
    Converted /\ has_as(type) /\ Exact(type, from) =>
        LET made == Convert(type, from, ValueInit(type))
            as   == As(type, from)
        IN  made.how = as.how /\ (as.how = "returned" => made.v = as.v)

\* Memory that is not the object's is read only where an array or a string is shorter
\* than the type asks for; an application that compares the sizes is safe.
ReadsItsOwn == how = "undefined" => ~Exact(type, from)

ConversionsExact ==
    RoundTrips /\ NothingInvented /\ Overwritten /\ AsAgrees /\ ReadsItsOwn

\* What arrives for member i, if anything does: of a name that comes twice, the first.
Named(i) == {j \in DOMAIN from[2] : from[2][j][1] = <<"str", type[3][i]>>}
Absent(i) == IF type[1] = "define_map" THEN Named(i) = {} ELSE i > Len(from[2])
Item(i) == IF type[1] = "define_map"
           THEN from[2][CHOOSE j \in Named(i) : \A k \in Named(i) : j <= k][2]
           ELSE from[2][i]

Unchanged(i) == v[i] = held[i]
Values(i) == {w \in Value(Members(type)[i]) : Item(i) = ObjectOf(Members(type)[i], w)}
Arrived(i) == IF Absent(i) THEN Unchanged(i)
              ELSE \A w \in Values(i) : Same(Members(type)[i], v[i], w)

\* A conversion in place that throws leaves v as it was, if v is one value or is made in
\* a temporary.  A struct, a tuple or an array may be left half converted: up to the member
\* that no value of its type was sent for, each is what arrived, and none behind it has
\* been touched.  And a shorter array or a map with fewer names leaves the members it does
\* not have, so that a struct may get new ones (test/convert.cpp:40).
NewValue == {"int", "bool", "string", "time_point", "set", "map", "optional"}
Structured == FixedArray \cup {"define_map"}
HeldKept == by = "convert" =>
    /\ how = "threw" /\ type[1] \in NewValue => v = held
    /\ how = "threw" /\ type[1] \in Structured /\ v # held =>
          \E k \in DOMAIN v :
             /\ ~Absent(k) /\ Values(k) = {}
             /\ \A i \in DOMAIN v : IF i < k THEN Arrived(i) ELSE i > k => Unchanged(i)
    /\ how = "returned" /\ type[1] \in Structured =>
          \A i \in DOMAIN v : Absent(i) => Unchanged(i)
=============================================================================
