------------------------------- MODULE MCZone -------------------------------
(* Zone with small chunks. *)
EXTENDS Zone
=============================================================================
