---------------------------- MODULE MCCreateObject ----------------------------
EXTENDS ObjectReader, MCBytes

\* Fixnums, maps and arrays of 0 to 2, str 0 to 2, an error, bin 8, array 16.
Alphabet == {0, 2, 128, 129, 144, 145, 146, 160, 161, 162, 193, 196, 220}
MCStreams == [1 .. 3 -> Alphabet] \cup [1 .. 5 -> {0, 129, 146}] \cup Long

\* A visitor of the application's may stop at every call: fewer streams.
MCOwnStreams == [1 .. 3 -> {0, 128, 129, 146, 160, 161, 193, 220}] \cup [1 .. 4 -> {0, 129, 146}]
                \cup {s \in Long : Len(s) <= 12}
=============================================================================
