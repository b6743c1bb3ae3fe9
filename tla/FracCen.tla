------------------------------ MODULE FracCen -------------------------------
(***************************************************************************)
(* The fractional clock enable rtl/jtframe_frac_cen.v that makes the pixel *)
(* clock: n enables in m edges of clk.  cenb and the divided enables are   *)
(* left out: the CRTC does not connect them and nothing depends on them.   *)
(*                                                                         *)
(* The source also assigns 0 to cencnt when it is at least n + m, "restart"*)
(* by its comment, but the assignment of next2 or next that follows in the *)
(* same block always holds instead.                                        *)
(*                                                                         *)
(* CountNext is a mutant of Count; nothing uses it.                        *)
(***************************************************************************)
EXTENDS Integers

CONSTANT CenWidth       \* 2^11: cencnt holds 0..CenWidth-1

VARIABLES cencnt, cen

\* next >= lim
Over(n, m) == (cencnt + n) % CenWidth >= m

\* cencnt at the next edge: next2 or next.
CountNext(n, m) == (cencnt + n) % CenWidth
Count(n, m) == IF Over(n, m) THEN (cencnt + n - m) % CenWidth ELSE (cencnt + n) % CenWidth

CenInit == cencnt = 0 /\ cen = FALSE

CenEdge(n, m) == cencnt' = Count(n, m) /\ cen' = Over(n, m)

\* n enables in m clocks: the counter is in its range, and an enable leaves less
\* than n in it.  Out of its range the counter loses only m - n with an enable.
Regular(n, m) == 0 < n /\ n <= m /\ cencnt < m /\ (cen => cencnt < n)
=============================================================================
