------------------------------ MODULE MCScreen ------------------------------
(* Screen for TLC: it is finite as it stands. *)
EXTENDS Screen
=============================================================================
