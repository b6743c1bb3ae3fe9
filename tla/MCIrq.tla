------------------------------- MODULE MCIrq -------------------------------
(* Irq for TLC: the constants are in the .cfg files. *)
EXTENDS Irq
=============================================================================
