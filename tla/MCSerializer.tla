---------------------------- MODULE MCSerializer ----------------------------
(***************************************************************************)
(* The serializer, two of the buffers it may write to, the visitors of objects  *)
(* and the adaptors of C++ types, one of them in a behaviour: the packer,           *)
(* msgpack_vrefbuffer, msgpack_zbuffer, an object_parser or a variable that     *)
(* objects are converted into.  They share no state, so the others stay as     *)
(* they are initialized.                                                     *)
(***************************************************************************)
EXTENDS PackedStream, Vrefbuffer, Zbuffer, TLC, MCTypes

CONSTANTS Visited, Compared, Leaf, NaN, SizeOf,                   \* of ObjectVisitors
          b1, b2,
          CppType, Message, CppInteger, Clock, MaxItems, PERIOD, Unset \* of Adaptors

VARIABLES part,                                           \* the one that runs
          x, m_current, m_ctx, at, said, left, visitor,   \* of ObjectVisitors
          y, made, m_size, copy, m_objs, m_ptr, asked,
          type, v, held, from, by, how                    \* of Adaptors

visiting == <<x, m_current, m_ctx, at, said, left, visitor, y, made, m_size, copy, m_objs,
              m_ptr, asked>>
variable == <<type, v, held, from, by, how>>

O == INSTANCE ObjectVisitors WITH Object <- Visited, Other <- Compared, pc <- at, ret <- left,
                                  out <- made, mem <- copy
A == INSTANCE Adaptors WITH Type <- CppType, Number <- CppInteger, Count <- Clock

\* Those who send to the variable.
Sender == INSTANCE MCAdaptors WITH Type <- MCType, Message <- << >>, Number <- MCNumber,
                                   Count <- MCCount

-----------------------------------------------------------------------------
\* Calls of a packer.

MCObject ==
    {<<"array", <<<<"positive", 1>>, <<"array", <<<<"str", <<97>>>>>>>>, <<"nil", << >>>>>>>>,
     <<"map", <<<<<<"str", << >>>>, <<"negative", -200>>>>,
                <<<<"positive", 300>>, <<"map", << >>>>>>>>>>,
     <<"bin", << >>>>, <<"float32", <<63, 128, 0, 0>>>>, <<"boolean", TRUE>>,
     <<"ext", <<-3, <<9>>>>>>}

MCCalls ==
    [is : {"object"}, obj : MCObject]
    \cup {[is |-> "str_with_body", obj |-> <<"str", <<97, 98>>>>],
          [is |-> "bin_with_body", obj |-> <<"bin", <<1>>>>],
          [is |-> "ext_with_body", obj |-> <<"ext", <<5, <<1, 2, 3>>>>>>]}

\* For a file: calls that write no empty piece.
MCFileCalls ==
    {[is |-> "object", obj |-> <<"map", <<<<<<"str", <<97>>>>, <<"array", <<<<"ext", <<5, <<0>>>>>>>>>>>>>>>>],
     [is |-> "object", obj |-> <<"array", <<<<"negative", -70000>>, <<"boolean", FALSE>>>>>>],
     [is |-> "object", obj |-> <<"float64", <<64, 9, 0, 0, 0, 0, 0, 0>>>>],
     [is |-> "bin_with_body", obj |-> <<"bin", <<1, 2>>>>]}

\* Numbers around each boundary: some leading bytes all 0 or all 255, a byte of interest,
\* and the bytes behind it 0 or 255.
Edge == {0, 1, 15, 16, 31, 32, 127, 128, 223, 224, 254, 255}
Number(w) == {[j \in 1 .. w |-> IF j < i THEN lead ELSE IF j = i THEN b ELSE trail] :
                 i \in 1 .. w, lead \in {0, 255}, b \in Edge, trail \in {0, 255}}
Type == {0, 255}

\* Sizes below 2^32; seconds around 0, 2^32 and 2^34; less than 10^9 nanoseconds.
SizeT == {d \in Number(8) : \A j \in 1 .. 4 : d[j] = 0}
Seconds == {[j \in 1 .. 8 |-> IF j < i THEN lead ELSE IF j = i THEN b ELSE trail] :
                i \in {1, 4, 5, 8}, lead \in {0, 255}, b \in {0, 1, 3, 4, 255}, trail \in {0, 255}}
Nanoseconds == {<<0, 0, 0, 0>>, <<0, 0, 0, 1>>, <<0, 64, 0, 0>>, <<59, 154, 201, 255>>}

MCNumberCalls ==
    [is : {"int", "uint", "fix_int", "fix_uint"}, d : UNION {Number(w) : w \in {1, 2, 4, 8}}]
    \cup [is : {"array", "map", "str", "v4raw", "bin"}, d : SizeT]
    \cup [is : {"ext"}, d : SizeT, type : Type]
    \cup [is : {"timestamp"}, sec : Seconds, nsec : Nanoseconds]

\* Objects to visit, alone, in containers of up to two, and nested three deep.
MCLeaf == {"nil", "boolean", "positive", "negative", "float32", "float64", "str", "bin", "ext"}
QuietNaN == <<127, 192, 0, 0>>
MCNaN == {QuietNaN}
Leaves == {<<"nil", << >>>>, <<"boolean", TRUE>>, <<"boolean", FALSE>>, <<"positive", 1>>,
           <<"positive", 300>>, <<"negative", -200>>, <<"float32", QuietNaN>>,
           <<"float64", <<63, 240, 0, 0, 0, 0, 0, 0>>>>, <<"str", << >>>>, <<"str", <<97>>>>,
           <<"str", <<97, 98>>>>, <<"bin", <<97>>>>, <<"ext", <<-3, << >>>>>>,
           <<"ext", <<5, <<97>>>>>>}
Few == {<<"nil", << >>>>, <<"str", <<97>>>>, <<"array", << >>>>}
Inner == {<<"array", s>> : s \in UNION {[1 .. n -> Few] : n \in 0 .. 2}}
         \cup {<<"map", s>> : s \in UNION {[1 .. n -> Few \X Few] : n \in 0 .. 1}}
Wrapped == {<<"array", <<o>>>> : o \in Leaves}
Deep == {<<"map", <<<<b, a>>, <<a, b>>>>>> : a \in Inner, b \in {<<"nil", << >>>>}}

MCVisited == Leaves \cup Wrapped \cup Inner \cup Deep
             \cup {<<"array", <<a, b>>>> : a \in Inner, b \in {<<"bin", << >>>>}}
\* What is visited, with what is in it.
MCWithin == MCVisited \cup Few \cup {<<"bin", << >>>>}
MCCompared == Leaves \cup Wrapped \cup Inner \cup Deep

MCSession == {"memory", "file", "numbers"}
MCCall == [memory |-> MCCalls, file |-> MCFileCalls, numbers |-> MCNumberCalls]
MCMaxCalls == [memory |-> 3, file |-> 3, numbers |-> 1]
MCMayRefuse == [memory |-> TRUE, file |-> TRUE, numbers |-> FALSE]
MCFileBuffer == [memory |-> FALSE, file |-> TRUE, numbers |-> FALSE]

\* Two vrefbuffers, the second of which has the smaller chunks.
MCBuffer == {b1, b2}
MCTemporary == {[bytes |-> <<"a">>]}
MCString == {[bytes |-> <<"a", "b">>]}
MCChunkSize == b1 :> 2 @@ b2 :> 1
MCRefArgument == b1 :> 1 @@ b2 :> 2

\* What is written to a zbuffer, and a head and a tail of its stream.
MCText == {<< >>, <<"a">>, <<"b", "a", "a">>}
MCHead == <<"head">>
MCTail == <<"tail", "tail">>

\* What is sent to a variable of each C++ type.
MCMessage == Sender!MCMessage

\* The objects that are packed, by how deep they are.
MCLevel ==
    [s \in MCSession |->
        LET In[k \in 0 .. Depth] ==
                IF k = 0 THEN {Meaning(c) : c \in {c \in MCCall[s] : c.is \in Bodied}}
                         ELSE UNION {Items(o) : o \in In[k - 1]}
        IN  In]

ASSUME SerializerConstants ==
    /\ PackerConstants /\ StreamConstants(MCLevel) /\ VrefbufferConstants /\ O!VisitorConstants
    /\ O!ParserConstants(MCWithin) /\ A!AdaptorConstants

\* The addresses of chunks.
Symmetry == Permutations(Chunk)
-----------------------------------------------------------------------------
Serializer_Init ==
    /\ part \in {"packer", "vrefbuffer", "zbuffer", "object", "adaptor"}
    /\ Packer_Init /\ Init /\ Zbuffer_Init /\ O!Visitors_Init /\ A!Init
    /\ part # "packer" => session = "memory"
    /\ part # "object" => visitor = "own" /\ x = O!NIL
    /\ part # "adaptor" => type = I4

Serializer_Next ==
    \/ part = "packer" /\ Packer_Next /\ UNCHANGED <<part, vars, zbuffer_vars, visiting, variable>>
    \/ part = "vrefbuffer" /\ Next /\ UNCHANGED <<part, packer_vars, zbuffer_vars, visiting, variable>>
    \/ part = "zbuffer" /\ Zbuffer_Next /\ UNCHANGED <<part, packer_vars, vars, visiting, variable>>
    \/ part = "object" /\ O!Visitors_Next /\ UNCHANGED <<part, packer_vars, vars, zbuffer_vars, variable>>
    \/ part = "adaptor" /\ A!Next /\ UNCHANGED <<part, packer_vars, vars, zbuffer_vars, visiting>>

Serializer_Spec ==
    /\ Serializer_Init
    /\ [][Serializer_Next]_<<part, packer_vars, vars, zbuffer_vars, visiting, variable>>
-----------------------------------------------------------------------------
(* The properties of Packer are NumbersExact and, in PackedStream, StreamWhole, those of *)
(* Vrefbuffer MemoryOwned and RefinesByteVectors, those of Zbuffer StreamExact and       *)
(* RoomHonest.                                                                           *)

\* ObjectVisitors: what a visitor makes of an object is what a recursion would.
VisitsExact == part = "object" => O!VisitsExact

\* ObjectParser: the order of the calls of a visitor of bytes, and none behind a refusal.
RefinesVisitorProtocol == O!RefinesVisitorProtocol

\* Adaptors: a value arrives as that value, whatever the variable held.
ConversionsExact == part = "adaptor" => A!ConversionsExact

\* Adaptors: what is kept when a conversion throws, or finds fewer members.
HeldKept == part = "adaptor" => A!HeldKept
=============================================================================
