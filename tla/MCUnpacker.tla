----------------------------- MODULE MCUnpacker -----------------------------
(* Unpacker on a few blocks and zones. *)
EXTENDS Unpacker, TLC

Symmetry == Permutations(Buf) \cup Permutations(Zone)
=============================================================================
