------------------------------- MODULE MCGfx --------------------------------
(* Gfx for TLC: the constants are the code's, in gfx.cfg. *)
EXTENDS Gfx
=============================================================================
