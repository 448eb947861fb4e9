----------------------------- MODULE MCCodexion -----------------------------
(* Codexion for TLC: the instances are in the .cfg files. *)
EXTENDS Codexion
=============================================================================
