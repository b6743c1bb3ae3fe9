----------------------------- MODULE MCLatency ------------------------------
(***************************************************************************)
(* ClockRead and Screen for TLC: the two things a recorded latency rests   *)
(* on, when it was read and from which frame it counts.  They share no     *)
(* state, so each is explored while the other is at its start.             *)
(***************************************************************************)
EXTENDS ClockRead, Screen

VARIABLE part           \* the one that is explored

LatencyInit == Init /\ ScreenInit /\ part \in {"clock", "pages"}

LatencyNext ==
    /\ \/ part = "clock" /\ Next /\ UNCHANGED screenVars
       \/ part = "pages" /\ ScreenNext /\ UNCHANGED vars
    /\ UNCHANGED part

LatencySpec == LatencyInit /\ [][LatencyNext]_<<vars, screenVars, part>>
=============================================================================
