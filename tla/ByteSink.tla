------------------------------ MODULE ByteSink ------------------------------
(***************************************************************************)
(* What a packer expects of the buffer behind its write callback            *)
(* (msgpack_packer_write in include/msgpack/pack.h): the stream it has       *)
(* written grows by whole chunks, a refused write leaves it as it was, and   *)
(* only an explicit clear or release empties it.  Nothing is ever reordered, *)
(* torn or overwritten.  Sbuffer implements this specification.              *)
(***************************************************************************)
EXTENDS Naturals, Sequences

CONSTANT Chunk    \* the pieces a packer writes, sequences of bytes

VARIABLE content  \* the bytes accepted since the last clear or release

Init == content = << >>

\* One call of the write callback that returned 0.
Accept(chunk) == content' = content \o chunk

\* msgpack_sbuffer_clear and msgpack_sbuffer_release.
Empty == content' = << >>

Next == \/ \E chunk \in Chunk : Accept(chunk)
        \/ Empty

Spec == Init /\ [][Next]_content
=============================================================================
