----------------------------- MODULE ObjectReader -----------------------------
(***************************************************************************)
(* What unpacker::next of the C++ library delivers, compared with a reading of *)
(* the stream in a single pass.                                              *)
(***************************************************************************)
EXTENDS CreateObject

\* An application's own visitor delivers nothing.
Reader == INSTANCE MessageReader
            WITH taken <- IF visitor = "own" THEN 0 ELSE start, Depth <- DEPTH, Top <- SIZE_MAX

\* next delivers the objects of the stream in order, each the one that a single
\* pass over its bytes reads, whatever the chunks in which the bytes arrive.
RefinesMessageReader == Reader!Spec

\* The object of a complete message is the one its bytes spell: what
\* test/streaming.cpp expects of an unpacker that it moves before and after each
\* chunk.  A move in the middle of a container loses the root.
ObjectWhole ==
    visitor = "create_object" /\ pc = "done" =>
        Build[1][1] = Reader!Reading.obj

RECURSIVE Within(_)
Within(o) ==
    CASE o[1] = "str" -> Len(o[2]) <= STR
      [] o[1] = "bin" -> Len(o[2]) <= BIN
      [] o[1] = "ext" -> Len(o[2][2]) + 1 <= EXT
      [] o[1] = "array" -> Len(o[2]) <= ARRAY /\ \A i \in DOMAIN o[2] : Within(o[2][i])
      [] o[1] = "map" -> /\ Len(o[2]) <= MAP
                         /\ \A i \in DOMAIN o[2] : Within(o[2][i][1]) /\ Within(o[2][i][2])
      [] OTHER -> TRUE

\* What begins with a message that is within the limits is never refused, and
\* what is not within them never delivered.
LimitsExact ==
    [][LET r == Reader!Read(stream, Len(stream), start + 1)
           acceptable == r.is = "ok" /\ Within(r.obj)
       IN  visitor = "create_object" =>
             /\ ret # "thrown" /\ ret' = "thrown" => ~acceptable
             /\ out' # out => acceptable]_create_vars
=============================================================================
