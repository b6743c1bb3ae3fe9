------------------------------ MODULE IrqSpec ------------------------------
(***************************************************************************)
(* What the firmware relies on from the interrupt controller: an edge on a *)
(* line is remembered until the CPU takes the interrupt of that line, and  *)
(* the CPU is told which line it takes.  Edges that come while one is      *)
(* still waiting merge with it; one that comes while the CPU takes the     *)
(* earlier one stays.                                                      *)
(***************************************************************************)
CONSTANTS Lines, None

VARIABLES
    waiting,    \* lines with an edge the CPU has not taken yet
    risen,      \* lines with an edge just now
    taken       \* the line of the interrupt that is being taken, or None

vars == <<waiting, risen, taken>>

Init == waiting = {} /\ risen = {} /\ taken = None

Next ==
    /\ risen' \in SUBSET Lines
    /\ taken' \in waiting \union {None}
    /\ waiting' = (waiting \ {taken'}) \union risen'

Spec == Init /\ [][Next]_vars
=============================================================================
