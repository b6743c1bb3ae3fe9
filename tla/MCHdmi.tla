------------------------------- MODULE MCHdmi -------------------------------
(* Hdmi for TLC: a FIFO too small for a mode, so that it fills up. *)
EXTENDS Hdmi
=============================================================================
