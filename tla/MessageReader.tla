---------------------------- MODULE MessageReader ----------------------------
(***************************************************************************)
(* What a streaming deserializer promises: whatever the chunks in which the   *)
(* bytes arrive, it delivers the objects of the stream one after the other,   *)
(* each as if its bytes had been read at once, and takes no byte of the next. *)
(***************************************************************************)
EXTENDS MessagePack

CONSTANT Streams

VARIABLES stream,   \* the bytes that are to arrive
          arrived,  \* how many of them have
          taken,    \* how many belong to objects delivered
          out       \* the objects delivered

vars == <<stream, arrived, taken, out>>

Init == stream \in Streams /\ arrived = 0 /\ taken = 0 /\ out = << >>

\* What can be read of the next object.
Reading == Read(stream, arrived, taken + 1)

Arrive ==
    /\ arrived' \in arrived .. Len(stream)
    /\ UNCHANGED <<stream, taken, out>>

Deliver ==
    /\ Reading.is = "ok"
    /\ out' = Append(out, Reading.obj)
    /\ taken' = Reading.next - 1
    /\ UNCHANGED <<stream, arrived>>

Next == Arrive \/ Deliver

Spec == Init /\ [][Next]_vars
=============================================================================
