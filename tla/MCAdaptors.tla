----------------------------- MODULE MCAdaptors -----------------------------
(* A variable of each of many types, and what a variable of any of them sends. *)
EXTENDS Adaptors, MCTypes

\* Maps with a key twice.
Twice == {<<"map", <<<<k, a>>, <<k, b>>>>>> :
             k \in {<<"positive", 7>>, <<"str", <<97>>>>},
             a, b \in {<<"positive", 7>>, <<"positive", 8>>, ObjectOf(Time, 7)}}

Sent == UNION {{ObjectOf(t, w) : w \in Value(t)} : t \in MCType \cup MCFlags} \cup Twice

\* Of objects of a kind that the type does not take, a few.
Few == {NIL, <<"positive", 7>>, <<"str", <<97>>>>, <<"array", << >>>>, <<"map", << >>>>}
Kind(t) ==
    CASE t[1] = "int" -> {"positive", "negative"}
      [] t[1] = "bool" -> {"boolean"}
      [] t[1] \in {"string", "char[N]", "array_char"} -> {"str", "bin"}
      [] t[1] = "time_point" -> {"ext"}
      [] t[1] \in {"map", "define_map"} -> {"map"}
      [] t = <<"optional", U4>> -> {"positive", "negative"}
      [] OTHER -> {"array"}

Arrives(t, o) == o[1] \in Kind(t) \/ o \in Few

MCMessage == [t \in MCType \cup MCFlags |-> {o \in Sent \cup Few : Arrives(t, o)}]
=============================================================================
