----------------------------- MODULE MCBuffers ------------------------------
(***************************************************************************)
(* The buffer that is written to and the buffer that is read from, one of      *)
(* them in a behaviour: msgpack_sbuffer, with a size_t of three bits so that   *)
(* every doubling boundary is met, or msgpack_unpacker, with a request that    *)
(* its doublings have to reach.  What is asked of both is that their calls     *)
(* return; they share no state, so the other stays as it is initialized.       *)
(***************************************************************************)
EXTENDS Sbuffer, TLC

CONSTANTS Buf, Zone, NULL, COUNTER, INITIAL, Word2, Request, MaxBytes, MaxRefs  \* of Unpacker

VARIABLES part,                                               \* the one that runs
          buffer, used, free, off, z, referenced, at, req, next_size, tmp,
          granted, dest, victim, result, sizes, count, mem, owner, fins, refs,
          consumed                                            \* of Unpacker

unpacker == <<buffer, used, free, off, z, referenced, at, req, next_size, tmp, granted, dest,
              victim, result, sizes, count, mem, owner, fins, refs, consumed>>

U == INSTANCE Unpacker WITH Word <- Word2, pc <- at, nsize <- next_size, alloc <- sizes

MCChunk == { << >>, <<"a">>, <<"a", "b">>, <<"b", "b", "b", "b", "b">> }
-----------------------------------------------------------------------------
Buffers_Init == part \in {"sbuffer", "unpacker"} /\ Init /\ U!Init

Buffers_Next ==
    \/ part = "sbuffer" /\ Next /\ UNCHANGED <<part, unpacker>>
    \/ part = "unpacker" /\ U!Next /\ UNCHANGED <<part, vars>>

Buffers_Spec == /\ Buffers_Init /\ [][Buffers_Next]_<<part, vars, unpacker>>
                /\ Fairness /\ U!Fairness
-----------------------------------------------------------------------------
(* The properties of Sbuffer are CopyExact, WriteReturns and RefinesByteSink. *)

\* Unpacker: the growth loop ends and no call waits for ever for its finalizers.
CallsReturn == U!CallsReturn
=============================================================================
