---------------------------- MODULE ByteVectors ----------------------------
(***************************************************************************)
(* What the users of several buffers rely on: each holds the bytes written    *)
(* to it in order, a refused call changes nothing, and migrate puts all the   *)
(* bytes of one buffer behind those of another and leaves the first empty.    *)
(* For one buffer this is ByteSink.  Vrefbuffer implements this.              *)
(***************************************************************************)
EXTENDS Sequences

CONSTANTS Buffer,
          Text      \* what is written: sequences of bytes

VARIABLE content    \* content[v]: the bytes that v's vectors spell

Init == content = [v \in Buffer |-> << >>]

Write(v) ==
    \E text \in Text : content' = [content EXCEPT ![v] = @ \o text]

Migrate(v, to) ==
    content' = [content EXCEPT ![to] = @ \o content[v], ![v] = << >>]

Empty(v) == content' = [content EXCEPT ![v] = << >>]

Next == \E v \in Buffer : \/ Write(v)
                          \/ Empty(v)
                          \/ \E to \in Buffer \ {v} : Migrate(v, to)

Spec == Init /\ [][Next]_content
=============================================================================
