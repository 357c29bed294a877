----------------------------- MODULE MCCppZone -----------------------------
(* CppZone with small chunks. *)
EXTENDS CppZone, TLC

Symmetry == Permutations(Pool)
=============================================================================
