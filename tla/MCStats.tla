------------------------------ MODULE MCStats -------------------------------
(* Stats for TLC: the constants are in stats.cfg. *)
EXTENDS Stats
=============================================================================
