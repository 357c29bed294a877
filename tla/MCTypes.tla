------------------------------ MODULE MCTypes -------------------------------
(* C++ types, and the integers and clock counts that their values are made of. *)
EXTENDS Integers

\* Integers of four and five bits.
I4 == <<"int", -8, 7>>
U4 == <<"int", 0, 15>>
I5 == <<"int", -16, 15>>
Time == <<"time_point">>

MCType ==
    {I4, U4, I5, <<"bool">>, <<"string">>, Time,
     <<"vector", U4>>, <<"vector", <<"array", 2, I4>>>>, <<"vector", Time>>,
     <<"set", I5>>, <<"map", I4, U4>>, <<"map", I4, Time>>, <<"map", U4, <<"optional", I4>>>>,
     <<"array", 2, I5>>, <<"array", 2, Time>>, <<"carray", 2, U4>>, <<"char[N]", 2>>,
     <<"array_char", 2>>, <<"pair", I4, U4>>, <<"pair", Time, I4>>,
     <<"tuple", <<I4, U4>>>>, <<"tuple", <<U4, Time, I4>>>>, <<"msgpack_tuple", <<I4, I5>>>>,
     <<"optional", U4>>, <<"optional", <<"pair", I4, I4>>>>, <<"unique_ptr", <<"array", 2, I4>>>>,
     <<"define_array", <<I4, <<"optional", U4>>, Time>>>>,
     <<"define_map", <<U4, <<"pair", I4, I4>>>>, <<<<97>>, <<98>>>>>>,
     <<"define_map", <<U4, Time, I4>>, <<<<97>>, <<99>>, <<98>>>>>>}

MCNumber == {-9, -8, 7, 8}
MCCount  == {-9, 7}

\* The type that is not overwritten.
Flags == <<"vector_bool">>
MCFlags == {Flags}
=============================================================================
