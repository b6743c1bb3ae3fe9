------------------------------- MODULE MCCrtc -------------------------------
(* Crtc for TLC: a large and a small mode. *)
EXTENDS Crtc

Timing(act, fp, s, bp, vact, vfp, vs, vbp) ==
    [r \in Regs |-> LET v == <<1, 4, act, fp, s, bp, vact, vfp, vs, vbp>>
                    IN  v[CHOOSE i \in 1..10 : Order[i] = r]]

MCModes == {Timing(3, 1, 1, 1, 2, 1, 1, 1), Timing(1, 1, 1, 1, 1, 1, 1, 2)}
=============================================================================
