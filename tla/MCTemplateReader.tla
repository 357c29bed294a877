-------------------------- MODULE MCTemplateReader --------------------------
EXTENDS TemplateReader, MCBytes

\* Headers and payload bytes that fit in short streams: fixnums, maps and arrays
\* of 0 to 2, strings of 0 to 2, nil, an error, bin 8, ext 8, int 8, fixext 1,
\* str 8, array 16.
Alphabet == {0, 1, 129, 144, 146, 160, 162, 192, 193, 199, 217}
Short == [1 .. 3 -> Alphabet] \cup [1 .. 4 -> {0, 129, 146, 160, 199}]

MCStreams == Short \cup Long

\* The functions of one object begin afresh with every call: fewer and shorter ones.
MCOnceStreams == [1 .. 3 -> {1, 129, 146, 162, 193, 199}]
                 \cup [1 .. 4 -> {0, 129, 146}] \cup {s \in Long : Len(s) <= 8}
=============================================================================
