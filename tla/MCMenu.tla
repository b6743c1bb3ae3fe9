------------------------------- MODULE MCMenu -------------------------------
(* Menu for TLC: the constants are in menu.cfg. *)
EXTENDS Menu
=============================================================================
