------------------------------- MODULE MCBytes -------------------------------
(***************************************************************************)
(* Streams of bytes for the parsers to read.                                 *)
(***************************************************************************)
EXTENDS Integers, Sequences

\* One of each header, with a fixnum behind it.
Zeros(n) == [i \in 1 .. n |-> 0]
Long ==
  {<<204, 200, 7>>, <<205, 1, 2, 7>>, <<206, 0, 1, 2, 3, 7>>,
   <<207, 0, 0, 0, 0, 0, 1, 2, 3, 7>>,
   <<208, 128, 7>>, <<208, 127, 7>>, <<209, 255, 254, 7>>, <<210, 255, 255, 128, 0, 7>>,
   <<211, 255, 255, 255, 255, 255, 255, 255, 254, 7>>, <<211, 0, 0, 0, 0, 0, 0, 0, 5, 7>>,
   <<202, 63, 128, 0, 1, 7>>, <<203, 63, 240, 0, 0, 0, 0, 0, 1, 7>>,
   <<194, 195, 192, 255, 224, 127>>,
   <<196, 0, 196, 2, 9, 8, 7>>, <<197, 0, 0, 197, 0, 2, 9, 8, 7>>,
   <<198, 0, 0, 0, 0, 198, 0, 0, 0, 1, 9, 7>>,
   <<199, 0, 5, 199, 2, 255, 9, 8, 7>>, <<200, 0, 0, 5, 200, 0, 1, 128, 9, 7>>,
   <<201, 0, 0, 0, 1, 5, 9, 7>>, <<201, 0, 255, 255, 255, 1, 2, 3>>,
   <<212, 1, 9, 7>>, <<213, 2, 9, 8, 7>>, <<214, 255, 9, 9, 9, 9, 7>>,
   <<215, 1>> \o Zeros(8) \o <<7>>, <<216, 1>> \o Zeros(16) \o <<7>>,
   <<161, 9, 163, 1, 2, 3, 7>>, <<191>> \o Zeros(31) \o <<7>>,
   <<217, 0, 217, 1, 9, 7>>, <<218, 0, 0, 218, 0, 1, 9, 7>>,
   <<219, 0, 0, 0, 0, 219, 0, 0, 0, 1, 9, 7>>,
   <<220, 0, 0, 220, 0, 2, 1, 161, 9, 7>>, <<221, 0, 0, 0, 0, 221, 0, 0, 0, 1, 9, 7>>,
   <<222, 0, 0, 222, 0, 2, 1, 2, 3, 4, 7>>, <<223, 0, 0, 0, 0, 223, 0, 0, 0, 1, 9, 8, 7>>,
   <<130, 161, 9, 146, 1, 129, 2, 3, 144, 128, 7>>,
   <<145, 145, 145, 7, 7>>, <<145, 145, 145, 144, 7>>, <<145, 129, 145, 1, 144, 7>>,
   <<145, 145, 145, 220, 0, 1, 7>>, <<147, 1, 2, 3, 147, 4, 5, 6, 193>>}
=============================================================================
