------------------------------- MODULE Arena -------------------------------
(***************************************************************************)
(* What the users of a zone rely on: memory handed out overlaps nothing that  *)
(* was handed out before, it lives until the whole zone is cleared, and it    *)
(* only goes when every finalizer has been called, the newest first.          *)
(***************************************************************************)
EXTENDS Integers, Sequences

CONSTANT MaxFins  \* bound: finalizers that are pushed

VARIABLES given,    \* the regions handed out
          pending,  \* the finalizers to be called, oldest first
          called    \* those that were called, in this order

vars == <<given, pending, called>>

Overlap(r, s) == /\ r.chunk = s.chunk
                 /\ r.at < s.at + s.size
                 /\ s.at < r.at + r.size

Init == given = {} /\ pending = << >> /\ called = << >>

Allocate ==
    /\ \E r \in given' : /\ given' = given \cup {r}
                         /\ \A s \in given : ~Overlap(r, s)
    /\ UNCHANGED <<pending, called>>

Push ==
    /\ \E f \in 1 .. MaxFins : pending' = Append(pending, f)
    /\ UNCHANGED <<given, called>>

Call ==
    /\ pending # << >>
    /\ pending' = SubSeq(pending, 1, Len(pending) - 1)
    /\ called' = Append(called, pending[Len(pending)])
    /\ UNCHANGED given

Drop ==
    /\ pending = << >>
    /\ given' = {}
    /\ UNCHANGED <<pending, called>>

Next == Allocate \/ Push \/ Call \/ Drop

Spec == Init /\ [][Next]_vars
=============================================================================
