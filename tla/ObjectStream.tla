---------------------------- MODULE ObjectStream ----------------------------
(***************************************************************************)
(* What msgpack_unpacker promises an application that knows nothing of its   *)
(* buffers: bytes are parsed in the order they were received, the objects of *)
(* a zone are made of bytes that were being parsed when they were made, and  *)
(* an object reads the same bytes until its zone is freed or cleared.        *)
(***************************************************************************)
EXTENDS Integers

CONSTANTS Zone,      \* the zones
          MaxBytes   \* bound: bytes the application delivers

VARIABLES received,  \* bytes delivered so far
          consumed,  \* bytes parsed so far
          held       \* of each zone, the bytes of the stream its objects read

vars == <<received, consumed, held>>

Init == /\ received = 0
        /\ consumed = 0
        /\ held = [zz \in Zone |-> {}]

Receive ==
    /\ received' \in received + 1 .. MaxBytes
    /\ UNCHANGED <<consumed, held>>

\* Parsing makes objects of at most one zone, the one of the current message.
Consume ==
    /\ consumed' \in consumed .. received
    /\ \/ UNCHANGED held
       \/ \E zz \in Zone, S \in SUBSET (consumed .. consumed' - 1) :
             held' = [held EXCEPT ![zz] = @ \cup S]
    /\ UNCHANGED received

Drop(zz) ==
    /\ held' = [held EXCEPT ![zz] = {}]
    /\ UNCHANGED <<received, consumed>>

Next == Receive \/ Consume \/ \E zz \in Zone : Drop(zz)

Spec == Init /\ [][Next]_vars
=============================================================================
