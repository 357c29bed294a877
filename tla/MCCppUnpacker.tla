--------------------------- MODULE MCCppUnpacker ---------------------------
(* CppUnpacker on a few blocks, zones and places. *)
EXTENDS CppUnpacker, TLC

Symmetry == Permutations(Object) \cup Permutations(Buf) \cup Permutations(Zone)
=============================================================================
