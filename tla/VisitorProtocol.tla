--------------------------- MODULE VisitorProtocol ---------------------------
(***************************************************************************)
(* What a visitor of the C++ parser may rely on: in which order its functions *)
(* are called.  A container of n elements is started, then each of its n items *)
(* (of a map: n times a key and a value) is started, read and ended, and then  *)
(* the container is ended.  A call that the visitor refuses is the last one.   *)
(***************************************************************************)
EXTENDS Naturals, Sequences

VARIABLES open,  \* the open containers: the kind, and the items still to start
          turn,  \* "value": a value is next; "ended": one has just ended;
                 \* "open": the innermost container goes on, or ends; "stopped"
          said   \* the name of the last call

vars == <<open, turn, said>>

Kind == {"array", "map"}
\* A map of n pairs has 2 * n items: its keys and its values.
Frame == [kind : Kind, left : Nat]

Init == open = << >> /\ turn = "value" /\ said = "init"

Last(s) == s[Len(s)]
Outer == SubSeq(open, 1, Len(open) - 1)

\* The visitor returns false, or throws, and is told no more of what was open.
Refused == turn' = "stopped" /\ open' = << >>

Visit ==
    /\ turn = "value"
    /\ said' = "visit"
    /\ \/ turn' = "ended" /\ UNCHANGED open
       \/ Refused

\* start_array or start_map
Start(kind) ==
    /\ turn = "value"
    /\ said' = IF kind = "map" THEN "start_map" ELSE "start_array"
    /\ \/ /\ turn' = "open"
          /\ open' = Append(open, Last(open'))
          /\ Last(open') \in Frame
          /\ Last(open').kind = kind
          /\ kind = "map" => Last(open').left % 2 = 0
       \/ Refused

\* The next item of the innermost container.
StartItem ==
    /\ turn = "open"
    /\ Last(open).left > 0
    /\ said' = IF Last(open).kind = "array" THEN "start_array_item"
               ELSE IF Last(open).left % 2 = 0 THEN "start_map_key"
               ELSE "start_map_value"
    /\ \/ /\ turn' = "value"
          /\ open' = Append(Outer, [Last(open) EXCEPT !.left = @ - 1])
       \/ Refused

EndItem ==
    /\ turn = "ended"
    /\ open # << >>
    /\ said' = IF Last(open).kind = "array" THEN "end_array_item"
               ELSE IF Last(open).left % 2 = 1 THEN "end_map_key"
               ELSE "end_map_value"
    /\ \/ turn' = "open" /\ UNCHANGED open
       \/ Refused

\* The innermost container has had all its items.
End ==
    /\ turn = "open"
    /\ Last(open).left = 0
    /\ said' = IF Last(open).kind = "array" THEN "end_array" ELSE "end_map"
    /\ \/ turn' = "ended" /\ open' = Outer
       \/ Refused

\* The parser finds an error, and tells the visitor of it or throws.
ParseError == turn = "value" /\ said' \in {"parse_error", said} /\ Refused

\* The message is complete, and the visitor is made ready for another.
NextMessage ==
    /\ turn = "ended"
    /\ open = << >>
    /\ said' = "init"
    /\ turn' = "value"
    /\ UNCHANGED open

Next ==
    \/ Visit \/ (\E kind \in Kind : Start(kind))
    \/ StartItem \/ EndItem \/ End
    \/ ParseError \/ NextMessage

Spec == Init /\ [][Next]_vars
=============================================================================
