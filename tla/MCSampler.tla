----------------------------- MODULE MCSampler -----------------------------
(* Sampler and its invariants for TLC: the constants are in the .cfg files. *)
EXTENDS SamplerInv
=============================================================================
