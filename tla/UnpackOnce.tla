----------------------------- MODULE UnpackOnce -----------------------------
(***************************************************************************)
(* The two ways to unpack with the C library, on the parser of module         *)
(* TemplateContext.  An application uses msgpack_unpacker, which keeps its      *)
(* place between calls, or the functions that unpack one object and keep       *)
(* nothing, msgpack_unpack and msgpack_unpack_next (unpack.c).  These it calls  *)
(* with all the bytes it has, from where a message begins.  When the message   *)
(* is not complete it has to come back to that place with more bytes: *off has  *)
(* moved, but the open containers are forgotten.                              *)
(***************************************************************************)
EXTENDS TemplateContext

CONSTANT OnceStreams  \* bound: the streams read by the functions of one object

VARIABLES
    function, \* "unpacker" when it uses that; else the function that runs, or "none"
    offset,   \* the application's *off
    returned  \* what the last call returned

once == <<function, offset, returned>>

Once_TypeOK ==
    /\ TypeOK
    /\ function \in {"unpacker", "none", "unpack", "unpack_next"}
    /\ offset \in Nat
    /\ returned \in {"success", "extra_bytes", "continue", "parse_error", "nomem"}

Once_Init ==
    /\ Init
    /\ function \in {"unpacker", "none"}
    /\ function = "none" => stream \in OnceStreams
    /\ offset = 0 /\ returned = "continue"

\* A step of msgpack_unpacker.
Streaming(step) == function = "unpacker" /\ step /\ UNCHANGED once

Once_Arrive(n) == function = "none" /\ Arrive(n) /\ UNCHANGED once

\* msgpack_unpacked_destroy, or the caller's own zone
ZoneOf(f) == f = "unpack"

\* len <= noff: there is nothing to read.
Call_Empty(f) ==
    /\ function = "none"
    /\ arrived <= start
    /\ offset' = start
    /\ returned' = "continue"
    /\ z' = ZoneOf(f)
    /\ UNCHANGED <<data, call, state, open, p, obj, past, function>>

\* Mutant: the context of the last call is used again.
Call_KeepsContext(f) ==
    /\ function = "none"
    /\ arrived > start
    /\ function' = f
    /\ offset' = start
    /\ off' = start /\ p' = start /\ parsed' = 0
    /\ obj' = NIL /\ z' = ZoneOf(f)
    /\ pc' = "header"
    /\ UNCHANGED <<data, state, open, ret, past, returned>>

\* The function is called with *off = start; template_init, and template_execute
\* begins.
Call(f) ==
    /\ function = "none"
    /\ arrived > start
    /\ function' = f
    /\ offset' = start
    /\ off' = start /\ p' = start /\ parsed' = 0
    /\ cs' = CS_HEADER /\ trail' = 0
    /\ stack' = << >> /\ items' = << >>
    /\ obj' = NIL /\ z' = ZoneOf(f)
    /\ pc' = "header"
    /\ UNCHANGED <<data, ret, past, returned>>

Running == function \in {"unpack", "unpack_next"}

Once_Continue == Running /\ Continue /\ pc # "done" /\ UNCHANGED once

Failed == ret \in {"parse_error", "nomem"}

\* Mutant: bytes that make the message complete count as extra.
ExtraAlways == ret = "success" /\ function = "unpack" /\ off <= arrived

\* noff < len
Extra == ret = "success" /\ function = "unpack" /\ off < arrived

\* Mutant: *off moves when there is an error, as that of msgpack_unpack_next does.
OffsetAlways == offset' = off

\* msgpack_unpack leaves *off where it was when there is an error.
MoveOffset == offset' = IF Failed /\ function = "unpack" THEN offset ELSE off

\* template_execute has returned, and the function does.  msgpack_unpack_next
\* frees its zone when there is an error; on success the application goes on
\* behind the object.
Once_Return ==
    /\ Running /\ pc \in {"idle", "done"}
    /\ MoveOffset
    /\ returned' = IF Extra THEN "extra_bytes" ELSE ret
    /\ z' = (z /\ ~(Failed /\ function = "unpack_next"))
    /\ IF ret = "success" THEN out' = Append(out, obj) /\ start' = off ELSE UNCHANGED past
    /\ pc' = "idle"
    /\ function' = "none"
    /\ parsed' = IF ret = "success" THEN 0 ELSE parsed
    /\ UNCHANGED <<data, off, ret, state, open, p, obj>>

Once_Next ==
    \/ Streaming(Next)
    \/ \E n \in 1 .. Len(stream) : Once_Arrive(n)
    \/ \E f \in {"unpack", "unpack_next"} : Call_Empty(f) \/ Call(f)
    \/ Once_Continue \/ Once_Return

once_vars == <<vars, once>>

\* A call runs on.
Once_Spec ==
    /\ Once_Init /\ [][Once_Next]_once_vars
    /\ WF_once_vars(Streaming(Continue) \/ Once_Continue \/ Once_Return)
-----------------------------------------------------------------------------
(* Properties; those that compare with a reading of the bytes are in          *)
(* TemplateReader.                                                           *)

\* An application that was told CONTINUE, or of an error by msgpack_unpack, can
\* find its place again: *off is behind the object, or has not moved, or is in
\* front of bytes of the message that have not arrived (the test pack.insufficient
\* of test/pack_unpack_c.cpp expects 1 of an object of two bytes).
OffsetExact ==
    [][Running /\ function' = "none" =>
         /\ start' <= offset' /\ offset' <= arrived
         /\ returned' \in {"success", "extra_bytes"} => offset' = start'
         /\ function = "unpack" /\ Failed => offset' = start]_once_vars

\* Every call returns.
Once_CallsReturn ==
    /\ CallsReturn
    /\ Running ~> ~Running
=============================================================================
