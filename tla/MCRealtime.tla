----------------------------- MODULE MCRealtime -----------------------------
(* Realtime for TLC: the constants are given in the .cfg files. *)
EXTENDS Realtime
=============================================================================
