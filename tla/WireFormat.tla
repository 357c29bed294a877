----------------------------- MODULE WireFormat -----------------------------
(***************************************************************************)
(* How the parsers of msgpack-c read the bytes of the MessagePack format: the *)
(* states of unpack_define.h, the classes of header bytes, the number of      *)
(* bytes that trail a header, and the loading of big-endian numbers.          *)
(***************************************************************************)
EXTENDS Integers, Sequences

Byte == 0 .. 255

\* msgpack_unpack_state.  The state of a header 0xc4 .. 0xdf is its low five bits.
CS_HEADER == 0
NEXT_CS(b) == b % 32

CS_BIN    == 4 .. 6      \* bin 8, 16, 32
CS_EXT    == 7 .. 9      \* ext 8, 16, 32
CS_FLOAT  == 10
CS_DOUBLE == 11
CS_UINT   == 12 .. 15    \* uint 8, 16, 32, 64
CS_INT    == 16 .. 19    \* int 8, 16, 32, 64
CS_FIXEXT == 20 .. 24    \* fixext 1, 2, 4, 8, 16, which the C++ parser reads so
CS_STR    == 25 .. 27    \* str 8, 16, 32
CS_ARRAY  == 28 .. 29    \* array 16, 32
CS_MAP    == 30 .. 31    \* map 16, 32
ACS_STR_VALUE == 32
ACS_BIN_VALUE == 33
ACS_EXT_VALUE == 34

CS_SIZE      == CS_BIN \cup CS_EXT \cup CS_STR
CS_NUMBER    == CS_UINT \cup CS_INT \cup {CS_FLOAT, CS_DOUBLE}
CS_CONTAINER == CS_ARRAY \cup CS_MAP
ACS_VALUE    == {ACS_STR_VALUE, ACS_BIN_VALUE, ACS_EXT_VALUE}

\* msgpack_container_type
ContainerType == {"ARRAY_ITEM", "MAP_KEY", "MAP_VALUE"}

\* Classes of header bytes.
PositiveFixnum == 0 .. 127
FixMap         == 128 .. 143
FixArray       == 144 .. 159
FixStr         == 160 .. 191
Nil            == 192
False          == 194
True           == 195
Variable       == (196 .. 211) \cup (217 .. 223)   \* 0xc4 .. 0xd3, 0xd9 .. 0xdf
FixExt         == 212 .. 216                       \* 0xd4 .. 0xd8
NegativeFixnum == 224 .. 255

\* 1 << k, for the k that occur.
Bit(k) == CASE k = 0 -> 1 [] k = 1 -> 2 [] k = 2 -> 4 [] k = 3 -> 8

\* The bytes that trail a header with a state of its own.
FixedTrail(b) ==
    CASE b \in 196 .. 198 -> Bit(b % 4)              \* bin
      [] b \in 199 .. 201 -> Bit((b + 1) % 4)        \* ext
      [] b \in 202 .. 211 -> Bit(b % 4)              \* float, double, uint, int
      [] b \in 217 .. 219 -> Bit((b % 4) - 1)        \* str
      [] b \in 220 .. 223 -> 2 * Bit(b % 2)          \* array, map

\* The type byte and the data of a fixext.
FixExtTrail(b) == IF b = 216 THEN 16 + 1 ELSE Bit(b % 4) + 1

\* _msgpack_load8 .. 64: the big-endian number whose first byte is worth hi.
Load32(hi, bs) == ((hi * 256 + bs[2]) * 256 + bs[3]) * 256 + bs[4]
Load(hi, bs) ==
    CASE Len(bs) = 1 -> hi
      [] Len(bs) = 2 -> hi * 256 + bs[2]
      [] Len(bs) = 4 -> Load32(hi, bs)
      [] Len(bs) = 8 -> Load32(Load32(hi, bs) * 256 + bs[5], SubSeq(bs, 5, 8))
LoadUnsigned(bs) == Load(bs[1], bs)
LoadSigned(bs)   == Load(IF bs[1] >= 128 THEN bs[1] - 256 ELSE bs[1], bs)
=============================================================================
