---------------------------- MODULE PackedStream ----------------------------
(***************************************************************************)
(* What a reader finds in the stream of a packer (Packer), by the reference    *)
(* reading of the format (MessagePack).                                      *)
(***************************************************************************)
EXTENDS Packer

CONSTANT Depth  \* how deep the reader can nest

Reader == INSTANCE MessagePack WITH Top <- -1

\* The whole objects at the front of the stream.
Reading == Reader!Objects(out)

\* The object a call stands for.
Meaning(c) == IF c.is = "timestamp"
              THEN LET body == TimestampBody(c.sec, c.nsec) IN <<"ext", <<-1, body>>>>
              ELSE c.obj

\* The objects that C's types hold: sizes below 2^32 (what is larger is cut off), and
\* numbers of 64 bits.
SizeFits(n) == (n \div 65536) \div 65536 = 0
Holds(o) ==
    CASE o[1] = "nil"      -> o = Reader!NilObject
      [] o[1] = "boolean"  -> o = <<"boolean", o[2]>> /\ o[2] \in BOOLEAN
      [] o[1] = "positive" -> o = <<"positive", o[2]>> /\ o[2] \in Nat
                              /\ SizeFits((o[2] \div 65536) \div 65536)
      [] o[1] = "negative" -> o = <<"negative", o[2]>> /\ o[2] \in Int /\ o[2] < 0
                              /\ (((-1 - o[2]) \div 65536) \div 65536) \div 65536 < 32768
      [] o[1] = "float32"  -> o = <<"float32", o[2]>> /\ o[2] \in Seq(Byte) /\ Len(o[2]) = 4
      [] o[1] = "float64"  -> o = <<"float64", o[2]>> /\ o[2] \in Seq(Byte) /\ Len(o[2]) = 8
      [] o[1] \in {"str", "bin"} ->
             o = <<o[1], o[2]>> /\ o[2] \in Seq(Byte) /\ SizeFits(Len(o[2]))
      [] o[1] = "ext"      -> /\ o = <<"ext", <<o[2][1], o[2][2]>>>> /\ o[2][1] \in -128 .. 127
                              /\ o[2][2] \in Seq(Byte) /\ SizeFits(Len(o[2][2]))
      [] o[1] = "array"    -> /\ o = <<"array", o[2]>> /\ SizeFits(Len(o[2]))
                              /\ o[2] \in Seq({o[2][i] : i \in DOMAIN o[2]})
      [] o[1] = "map"      -> /\ o = <<"map", o[2]>> /\ SizeFits(Len(o[2]))
                              /\ o[2] \in Seq({<<o[2][i][1], o[2][i][2]>> : i \in DOMAIN o[2]})
      [] OTHER             -> FALSE

\* The objects that a container has in it.
Items(o) == CASE o[1] = "array" -> {o[2][i] : i \in DOMAIN o[2]}
              [] o[1] = "map"   -> {o[2][i][1] : i \in DOMAIN o[2]} \cup {o[2][i][2] : i \in DOMAIN o[2]}
              [] OTHER          -> {}

\* Has the object a body of no bytes?  A file refuses it.
Bodiless(o) == \/ o[1] \in {"str", "bin"} /\ o[2] = << >>
               \/ o[1] = "ext" /\ o[2][2] = << >>

\* Level[s][k] has the objects that are packed in session s with k containers around them:
\* no deeper than the reader can nest, and for a file none without a body.  Where an append
\* may be refused no timestamp is packed.
StreamConstants(Level) ==
    /\ Depth \in Nat
    /\ \A s \in Session : (\A c \in Call[s] : c.is \in Bodied) =>
          /\ \A c \in Call[s] :
                /\ Meaning(c) \in Level[s][0]
                /\ c.is = "str_with_body" => c.obj[1] = "str"
                /\ c.is = "bin_with_body" => c.obj[1] = "bin"
                /\ c.is = "ext_with_body" => c.obj[1] = "ext"
                /\ c.is = "timestamp" => ~MayRefuse[s]
          /\ \A k \in 0 .. Depth : \A o \in Level[s][k] :
                /\ Holds(o)
                /\ FileBuffer[s] => ~Bodiless(o)
                /\ IF k = Depth THEN o[1] \notin {"array", "map"} ELSE Items(o) \subseteq Level[s][k + 1]

Packed == [i \in DOMAIN packed |-> Meaning(packed[i])]

\* Whatever append is refused, and at whatever depth of an object: a reader of the stream
\* finds whole objects, those whose calls have returned 0, in that order, and, from its
\* last byte on and not before, the one being packed.  A call that returned -1 added
\* none, though a file may hold some of its bytes.  (Of calls that pack whole objects.)
WholeObjects == \A c \in Call[session] : c.is \in Bodied
StreamWhole ==
    WholeObjects =>
        \/ Reading = Packed
        \/ /\ packing # NoPacking /\ \A i \in DOMAIN agenda : agenda[i] = append(<< >>)
           /\ Reading = Append(Packed, Meaning(packing))
=============================================================================
