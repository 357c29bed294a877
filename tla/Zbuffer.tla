------------------------------- MODULE Zbuffer -------------------------------
(***************************************************************************)
(* msgpack_zbuffer (include/msgpack/zbuffer.h), the buffer that compresses    *)
(* what is written to it; v1::zbuffer is the same algorithm and throws where  *)
(* this one returns -1 or NULL.                                              *)
(*                                                                           *)
(* The compressor of zlib is external: it takes bytes at next_in and keeps    *)
(* what it makes of them until there is room at next_out, as much or as       *)
(* little as it likes within what the manual of deflate says.  A unit of its  *)
(* output stands for a byte of input, or for a part of the stream's head or   *)
(* tail.  A call of deflate and one of realloc are a step each.               *)
(***************************************************************************)
EXTENDS Integers, Sequences

CONSTANTS Text,      \* the arguments of write, sequences of bytes
          Octet,     \* the bytes in them
          INIT_SIZE, \* init_size
          RESERVE,   \* MSGPACK_ZBUFFER_RESERVE_SIZE
          UInt,      \* the number of values of zlib's uInt, 2^32
          Mark,      \* the units of a stream's head and tail
          HeadOf, TailOf,  \* the units of a stream in front of its data and behind it
          MaxBlock,  \* bound: bytes realloc can give
          MaxBytes   \* bound: bytes written to one stream

ASSUME ZbufferConstants ==
    /\ INIT_SIZE \in Nat \ {0}
    /\ RESERVE \in Nat
    /\ UInt \in Nat \ {0, 1}
    /\ MaxBlock \in Nat
    /\ MaxBytes \in Nat
    /\ Text \subseteq Seq(Octet)
    /\ \A t \in Text : Len(t) < UInt
    /\ HeadOf \in Seq(Mark) /\ TailOf \in Seq(Mark)
    /\ Mark \cap Octet = {}

VARIABLES block,    \* the size of the block at data, 0 for NULL
          content,  \* what is in it in front of next_out
          avail,    \* stream.avail_out
          in,       \* the avail_in bytes at stream.next_in
          pending,  \* what the compressor has made and not yet put out
          closed,   \* has it been told to finish and taken all its input?
          pc,       \* where the call in progress is
          ret,      \* what the last call returned
          written,  \* the bytes it was given in this stream
          taken     \* the units the application has taken from this stream

zbuffer_vars == <<block, content, avail, in, pending, closed, pc, ret, written, taken>>
zstream == <<pending, closed, written, taken>>

Unit == Octet \cup Mark

Zbuffer_TypeOK ==
    /\ block \in 0 .. MaxBlock
    /\ content \in Seq(Unit)
    /\ avail \in 0 .. UInt - 1
    /\ in \in Seq(Octet)
    /\ pending \in Seq(Unit)
    /\ closed \in BOOLEAN
    /\ pc \in {"none", "idle", "write", "deflate", "flush", "expand"}
    /\ ret \in {"none", "ok", "error", "data", "NULL"}
    /\ written \in Seq(Octet)
    /\ taken \in Seq(Unit)

\* msgpack_zbuffer_init
Zbuffer_Init ==
    /\ block = 0 /\ content = << >> /\ avail = 0 /\ in = << >>
    /\ pending = HeadOf /\ closed = FALSE /\ written = << >> /\ taken = << >>
    /\ ret = "none" /\ pc = "idle"

\* msgpack_zbuffer_destroy, and init again.
Zbuffer_Destroy ==
    /\ pc = "idle"
    /\ block' = 0 /\ content' = << >> /\ avail' = 0 /\ in' = << >>
    /\ pending' = HeadOf /\ closed' = FALSE /\ written' = << >> /\ taken' = << >>
    /\ ret' = "none" /\ pc' = "none"

Zbuffer_New ==
    /\ pc = "none"
    /\ pc' = "idle"
    /\ UNCHANGED <<block, content, avail, in, ret, zstream>>
-----------------------------------------------------------------------------
\* zlib.  put units leave the compressor for next_out when it has taken k more bytes.

Deflate(k, put, end) ==
    LET made == pending \o SubSeq(in, 1, k) \o end
    IN  /\ put <= Len(made)
        /\ content' = content \o SubSeq(made, 1, put)
        /\ avail' = avail - put
        /\ pending' = SubSeq(made, put + 1, Len(made))
        /\ in' = SubSeq(in, k + 1, Len(in))

\* deflate(Z_NO_FLUSH) = Z_OK: it stops when there is no more input or no more room.
DeflateOk ==
    \E k \in 0 .. Len(in), put \in 0 .. avail :
        /\ k = Len(in) \/ put = avail
        /\ Deflate(k, put, << >>)

\* Z_STREAM_ERROR of both kinds of calls, and Z_BUF_ERROR.
NoPlace == block = 0
NoRoom == avail = 0

\* deflate(Z_FINISH) = Z_STREAM_END, or Z_OK when the room is used up.
TailLeft == IF closed THEN << >> ELSE TailOf
Left == Len(pending) + Len(in) + Len(TailLeft)

DeflateEnds ==
    /\ Left <= avail
    /\ Deflate(Len(in), Left, TailLeft)
    /\ closed' = TRUE

DeflateFills ==
    /\ Left > avail
    /\ \/ /\ Deflate(Len(in), avail, TailLeft)
          /\ closed' = TRUE
       \/ \E k \in 0 .. Len(in) :
             /\ ~closed
             /\ Deflate(k, avail, << >>)
             /\ UNCHANGED closed
-----------------------------------------------------------------------------
\* msgpack_zbuffer_expand: realloc gives the block of the new size, or does not.

\* (mutant) next_out is put at the start of the new block
ExpandRewinds ==
    LET csize == Len(content) + avail
        nsize == IF csize = 0 THEN INIT_SIZE ELSE csize * 2
    IN  /\ nsize <= MaxBlock
        /\ block' = nsize
        /\ avail' = nsize % UInt
        /\ content' = << >>

\* (mutant) the room is kept in a size_t
ExpandWide ==
    LET csize == Len(content) + avail
        nsize == IF csize = 0 THEN INIT_SIZE ELSE csize * 2
    IN  /\ nsize <= MaxBlock
        /\ block' = nsize
        /\ avail' = nsize - Len(content)
        /\ UNCHANGED content

Expand ==
    LET csize == Len(content) + avail
        nsize == IF csize = 0 THEN INIT_SIZE ELSE csize * 2
    IN  /\ nsize <= MaxBlock
        /\ block' = nsize
        /\ avail' = (nsize - Len(content)) % UInt
        /\ UNCHANGED content

\* What a failed write did not hand over was not written.
Unwritten == SubSeq(written, 1, Len(written) - Len(in))

Zbuffer_Write(t) ==
    /\ pc = "idle"
    /\ Len(written) + Len(t) <= MaxBytes
    /\ in' = t
    /\ written' = written \o t
    /\ pc' = "write"
    /\ ret' = "none"
    /\ UNCHANGED <<block, content, avail, pending, closed, taken>>

\* The while loop: to its end, or to expand, or to deflate.
WriteDone ==
    /\ pc = "write" /\ in = << >>
    /\ pc' = "idle" /\ ret' = "ok"
    /\ UNCHANGED <<block, content, avail, in, zstream>>

WriteExpands ==
    /\ pc = "write" /\ in # << >> /\ avail < RESERVE
    /\ \/ /\ Expand
          /\ pc' = "deflate"
          /\ UNCHANGED <<ret, written>>
       \/ /\ pc' = "idle" /\ ret' = "error"
          /\ written' = Unwritten
          /\ UNCHANGED <<block, content, avail>>
    /\ UNCHANGED <<in, pending, closed, taken>>

WriteDeflates ==
    /\ \/ pc = "write" /\ in # << >> /\ avail >= RESERVE
       \/ pc = "deflate"
    /\ \/ /\ ~closed /\ ~NoPlace /\ ~NoRoom
          /\ DeflateOk
          /\ pc' = "write"
          /\ UNCHANGED <<ret, written>>
       \/ /\ closed \/ NoPlace \/ NoRoom
          /\ pc' = "idle" /\ ret' = "error"
          /\ written' = Unwritten
          /\ UNCHANGED <<content, avail, in, pending>>
    /\ UNCHANGED <<block, closed, taken>>

\* What a caller has to see to: a failed write leaves next_in at the rest of its argument,
\* which flush would compress, whatever the memory holds by then.
CanFlush == in = << >>

Flush ==
    /\ pc = "idle" /\ CanFlush
    /\ pc' = "flush"
    /\ ret' = "none"
    /\ UNCHANGED <<block, content, avail, in, zstream>>

\* (mutant) any success of deflate ends the flush
FlushOnce ==
    /\ pc = "flush"
    /\ \/ /\ ~NoPlace /\ ~NoRoom
          /\ DeflateEnds \/ DeflateFills
          /\ pc' = "idle" /\ ret' = "data"
       \/ /\ ~NoPlace /\ NoRoom
          /\ pc' = "expand"
          /\ UNCHANGED <<content, avail, in, pending, closed, ret>>
       \/ /\ NoPlace
          /\ pc' = "idle" /\ ret' = "NULL"
          /\ UNCHANGED <<content, avail, in, pending, closed>>
    /\ UNCHANGED <<block, written, taken>>

FlushDeflates ==
    /\ pc = "flush"
    /\ \/ /\ ~NoPlace /\ ~NoRoom
          /\ DeflateEnds
          /\ pc' = "idle" /\ ret' = "data"
       \/ /\ ~NoPlace /\ ~NoRoom
          /\ DeflateFills
          /\ pc' = "expand"
          /\ UNCHANGED ret
       \/ /\ ~NoPlace /\ NoRoom
          /\ pc' = "expand"
          /\ UNCHANGED <<content, avail, in, pending, closed, ret>>
       \/ /\ NoPlace
          /\ pc' = "idle" /\ ret' = "NULL"
          /\ UNCHANGED <<content, avail, in, pending, closed>>
    /\ UNCHANGED <<block, written, taken>>

FlushExpands ==
    /\ pc = "expand"
    /\ \/ /\ Expand
          /\ pc' = "flush"
          /\ UNCHANGED ret
       \/ /\ pc' = "idle" /\ ret' = "NULL"
          /\ UNCHANGED <<block, content, avail>>
    /\ UNCHANGED <<in, zstream>>
-----------------------------------------------------------------------------
\* (mutant) next_out goes back and the room in front of it is not counted
RewindLosesRoom == content' = << >> /\ UNCHANGED avail

\* The two assignments of reset_buffer.
Rewind ==
    /\ content' = << >>
    /\ avail' = (avail + Len(content)) % UInt

Reset ==
    /\ pc = "idle"
    /\ Rewind
    /\ pending' = HeadOf /\ closed' = FALSE /\ written' = << >> /\ taken' = << >>
    /\ ret' = "none"
    /\ UNCHANGED <<block, in, pc>>

\* The application has taken what was in the buffer and goes on with the stream.
Reset_Buffer ==
    /\ pc = "idle"
    /\ Rewind
    /\ taken' = taken \o content
    /\ UNCHANGED <<block, in, pending, closed, pc, ret, written>>

\* (mutant) avail_out still tells of the room in the block that was given away
ReleaseKeepsRoom ==
    /\ pc = "idle"
    /\ block' = 0 /\ content' = << >>
    /\ taken' = taken \o content
    /\ UNCHANGED <<avail, in, pending, closed, pc, ret, written>>

Release_Buffer ==
    /\ pc = "idle"
    /\ block' = 0 /\ content' = << >> /\ avail' = 0
    /\ taken' = taken \o content
    /\ UNCHANGED <<in, pending, closed, pc, ret, written>>

Step == WriteDone \/ WriteExpands \/ WriteDeflates \/ FlushDeflates \/ FlushExpands

Zbuffer_Next == \/ \E t \in Text : Zbuffer_Write(t)
        \/ Flush \/ Step
        \/ Reset \/ Reset_Buffer \/ Release_Buffer
        \/ Zbuffer_New \/ Zbuffer_Destroy

Zbuffer_Spec == Zbuffer_Init /\ [][Zbuffer_Next]_zbuffer_vars
-----------------------------------------------------------------------------
\* deflate puts its output inside the block, also when the 32 bits of avail_out cannot
\* hold the room there is, and after the block was given away, rewound or moved.
OutputFits == Len(content) + avail <= block

\* In a block that uInt can count the room is all there is: none is lost by a rewind or
\* an expansion, so that the block need not grow when a stream as long as the last one
\* is written.
RoomKnown == block < UInt => Len(content) + avail = block

\* What next_out and avail_out say of the block is so, whatever its size.
RoomHonest == Zbuffer_TypeOK /\ OutputFits /\ RoomKnown

\* No byte is lost or doubled between write and the output, whatever call failed: what
\* was taken from the buffer, is in it and is still in the compressor is the stream.
NothingLost ==
    LET handed == IF pc \in {"write", "deflate"} THEN Unwritten ELSE written
    IN  taken \o content \o pending = HeadOf \o handed \o (IF closed THEN TailOf ELSE << >>)

\* When flush returns the block, the stream is complete in the hands of the application.
FlushedWhole ==
    ret = "data" /\ pc = "idle" => closed /\ pending = << >> /\ in = << >>

\* The stream arrives as it was written, and whole when the caller is told so.
StreamExact == NothingLost /\ FlushedWhole
=============================================================================
