--------------------------- MODULE TemplateReader ---------------------------
(***************************************************************************)
(* template_execute, in msgpack_unpacker and in the functions that unpack one  *)
(* object (UnpackOnce), compared with the reference reading of the format.     *)
(***************************************************************************)
EXTENDS UnpackOnce

Reader == INSTANCE MessageReader
            WITH taken <- start, Depth <- STACK_SIZE, Top <- UINT - 1

\* Chunking is invisible: whatever the calls in which the bytes are parsed, next
\* delivers the objects of the stream in order, each the one that a single pass
\* over its bytes reads, and off stops right behind it; however often an application has
\* to call a function of one object again for a message that is not complete, and
\* whatever calls failed before.
RefinesMessageReader == Reader!Spec

Returns(r) == pc \in {"header", "trail", "push"} /\ pc' = "idle" /\ ret' = r

\* MSGPACK_UNPACK_CONTINUE is only returned when the message is not complete and
\* all of it that could be read was in order: no message waits for bytes it has.
\* MSGPACK_UNPACK_PARSE_ERROR is only returned for bytes that begin no message.
OutcomeHonest ==
    [][/\ Returns("continue") => Reader!Reading.is = "more"
       /\ Returns("parse_error") => Reader!Reading.is = "parse_error"]_vars

\* What any function returns is what a reading of the bytes it was given says.
Once_OutcomeHonest ==
    /\ OutcomeHonest
    /\ [][Running /\ function' = "none" =>
           LET r == Reader!Reading
               more == r.next <= arrived
           IN  /\ returned' = "continue" => r.is = "more"
               /\ returned' = "parse_error" => r.is = "parse_error"
               /\ returned' = "extra_bytes" => r.is = "ok" /\ more
               /\ returned' = "success" => r.is = "ok" /\ (function = "unpack" => ~more)]_once_vars
=============================================================================
