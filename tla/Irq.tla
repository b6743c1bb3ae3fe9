-------------------------------- MODULE Irq --------------------------------
(***************************************************************************)
(* The interrupt controller of rtl/system.sv and its handshake with the    *)
(* 68000.  int_ctrl routes one of three sources, possibly inverted, to     *)
(* each of three lines; a rising edge flags the line; irq_level presents   *)
(* one flagged line to the CPU until the acknowledge cycle (FC = 7), which *)
(* clears irq_level and the flag it stands for.  The line i drives the     *)
(* autovector of level 2 * i.                                              *)
(*                                                                         *)
(* Every register takes its new value from the old ones in one action, Clk *)
(* (nonblocking assignments: of two to one register the later holds).  The *)
(* CPU is fx68k, a submodule that is not in the tree: it is modelled by    *)
(* the pins system.sv connects.                                            *)
(*                                                                         *)
(* PresentedKept, PresentedLive, PresentedLowest (of Presented) and        *)
(* FlagsSetFirst (of Flags) are mutants; nothing uses them.                *)
(***************************************************************************)
EXTENDS Naturals, FiniteSets

CONSTANT MaxEdges   \* bound: changes of the source signals

ASSUME EdgesAssumption == MaxEdges \in Nat

Lines == 1..3
Sources == {"vblank", "hdmi_vblank", "user_in"}

\* One nibble of int_ctrl: the source it selects, or none, and the inversion.
Nibbles == [src: Sources \union {"none"}, inv: BOOLEAN]

\* What the firmware writes: level 2 on the core's blank, level 4 on the end of
\* a blank, the core's or HDMI's, level 6 on the sensor.
Routing(frame) ==
    [i \in Lines |-> CASE i = 1 -> [src |-> "vblank", inv |-> FALSE]
                       [] i = 2 -> [src |-> frame, inv |-> TRUE]
                       [] i = 3 -> [src |-> "user_in", inv |-> FALSE]]

VARIABLES
    high,           \* the sources that are 1
    int_ctrl,
    intp_prev,      \* lines that were 1 at the last clk
    irq_flagged,    \* lines with an edge that was not acknowledged
    irq_level,      \* the line presented on IPL, 0 for none
    cpu_vpa_n,      \* 0 ends the acknowledge cycle
    mask,           \* interrupt mask of the CPU
    cpu,            \* "run", "enter" an interrupt or "ack" (FC = 7)
    vector,         \* the line whose interrupt the CPU is taking, 0 for none
    edges           \* changes of the sources so far

\* History: the lines that rose and the line that was acknowledged (0 for none)
\* at the last clk; how often each waiting line was passed over for a lower one.
VARIABLES risen, acked, passed

hwVars == <<intp_prev, irq_flagged, irq_level, cpu_vpa_n, risen, acked, passed>>
cpuVars == <<mask, cpu, vector>>
vars == <<high, int_ctrl, hwVars, cpuVars, edges>>

Unrouted == [i \in Lines |-> [src |-> "none", inv |-> FALSE]]

\* Reset: no line is routed.  The sources may be anything.
Init ==
    /\ high \in SUBSET Sources
    /\ int_ctrl = Unrouted
    /\ intp_prev = {} /\ irq_flagged = {} /\ irq_level = 0 /\ cpu_vpa_n = 1
    /\ mask = 7 /\ cpu = "run" /\ vector = 0
    /\ edges = 0
    /\ risen = {} /\ acked = 0 /\ passed = [i \in Lines |-> 0]

----------------------------------------------------------------------------
\* The lines that are 1: the multiplexers of intp_src and the inversions.
intp == {i \in Lines : (int_ctrl[i].src \in high) # int_ctrl[i].inv}

Highest(S) == IF S = {} THEN 0 ELSE CHOOSE i \in S : \A j \in S : j <= i

\* A presented line stays until it is acknowledged, whatever comes.
PresentedKept == IF irq_level # 0 THEN irq_level ELSE Highest(irq_flagged)
PresentedLive == IF cpu = "ack" THEN 0 ELSE Highest(irq_flagged)
PresentedLowest ==
    IF cpu = "ack" THEN 0
    ELSE IF irq_level # 0 \/ irq_flagged = {} THEN irq_level
    ELSE CHOOSE i \in irq_flagged : \A j \in irq_flagged : i <= j
Presented ==
    IF cpu = "ack" THEN 0
    ELSE IF irq_level # 0 THEN irq_level
    ELSE Highest(irq_flagged)

Acknowledged == IF cpu = "ack" THEN irq_level ELSE 0

Rising == intp \ intp_prev

\* The flag is cleared above the edge detection in the source: the edge wins.
FlagsSetFirst == (irq_flagged \union Rising) \ {Acknowledged}
Flags == (irq_flagged \ {Acknowledged}) \union Rising

\* The end of a bus cycle is autovectored in an acknowledge cycle.
Vpa == IF cpu = "ack" THEN 0 ELSE 1

Clk ==
    /\ irq_level' = Presented
    /\ irq_flagged' = Flags
    /\ intp_prev' = intp
    /\ cpu_vpa_n' = Vpa
    /\ risen' = Rising /\ acked' = Acknowledged
    /\ passed' = [i \in Lines |->
                    IF i \notin irq_flagged \/ i = Acknowledged THEN 0
                    ELSE IF Acknowledged \in 1..(i - 1) THEN passed[i] + 1
                    ELSE passed[i]]
    /\ UNCHANGED <<high, int_ctrl, cpuVars, edges>>

----------------------------------------------------------------------------
\* The CPU decides to take an interrupt above its mask and latches the level;
\* the acknowledge cycle begins some clocks later.
Recognize ==
    /\ cpu = "run" /\ cpu_vpa_n = 1 /\ 2 * irq_level > mask
    /\ cpu' = "enter" /\ vector' = irq_level
    /\ UNCHANGED <<high, int_ctrl, hwVars, mask, edges>>

BeginAck ==
    /\ cpu = "enter"
    /\ cpu' = "ack"
    /\ UNCHANGED <<high, int_ctrl, hwVars, mask, vector, edges>>

EndAck ==
    /\ cpu = "ack" /\ cpu_vpa_n = 0
    /\ cpu' = "run" /\ mask' = 2 * vector /\ vector' = 0
    /\ UNCHANGED <<high, int_ctrl, hwVars, edges>>

\* What code does to the mask: disable_interrupts, enable_interrupts, RTE.
SetMask(m) ==
    /\ cpu = "run" /\ mask # m
    /\ mask' = m
    /\ UNCHANGED <<high, int_ctrl, hwVars, cpu, vector, edges>>

\* main writes int_ctrl before its loop, draw_menu when a mode is applied.
Route ==
    /\ cpu = "run"
    /\ int_ctrl' = Routing(IF int_ctrl = Unrouted THEN "vblank" ELSE "hdmi_vblank")
    /\ UNCHANGED <<high, hwVars, cpuVars, edges>>

Change(s) ==
    /\ edges < MaxEdges
    /\ edges' = edges + 1
    /\ high' = IF s \in high THEN high \ {s} ELSE high \union {s}
    /\ UNCHANGED <<int_ctrl, hwVars, cpuVars>>

Next ==
    \/ Clk
    \/ Recognize \/ BeginAck \/ EndAck
    \/ \E m \in {0, 2, 4, 6, 7} : SetMask(m)
    \/ Route
    \/ \E s \in Sources : Change(s)

Spec == Init /\ [][Next]_vars

\* The clock runs, the CPU executes, and its code lets the mask drop to 0
\* again and again (enable_interrupts in clock_get_ticks, RTE to main).  An
\* interrupt that stays presented while the mask keeps dropping is taken.
Fairness ==
    /\ WF_vars(Clk)
    /\ SF_vars(Recognize) /\ WF_vars(BeginAck) /\ WF_vars(EndAck)
    /\ SF_vars(SetMask(0))

FairSpec == Spec /\ Fairness

----------------------------------------------------------------------------
TypeOK ==
    /\ high \subseteq Sources
    /\ int_ctrl \in [Lines -> Nibbles]
    /\ intp_prev \subseteq Lines /\ irq_flagged \subseteq Lines /\ risen \subseteq Lines
    /\ irq_level \in 0..3 /\ vector \in 0..3 /\ acked \in 0..3
    /\ cpu_vpa_n \in {0, 1}
    /\ mask \in {0, 2, 4, 6, 7} /\ cpu \in {"run", "enter", "ack"}
    /\ edges \in 0..MaxEdges
    /\ passed \in [Lines -> Nat]

\* The flag that an acknowledge cycle clears is that of the interrupt the CPU
\* takes (system.sv:210-212 uses irq_level, the CPU the level it latched), even
\* if a higher line was flagged in between.
AckMatchesVector == cpu # "run" => irq_level = (IF cpu_vpa_n = 0 THEN 0 ELSE vector)

\* What is presented is flagged: the CPU never takes an interrupt without a
\* cause (system.sv:211-216).
PresentedIsFlagged == irq_level # 0 => irq_level \in irq_flagged

\* A lower line goes first at most once while a line is waiting: irq_level does
\* not give way (system.sv:213), but is free again after one acknowledge.
BoundedInversion == \A i \in Lines : passed[i] <= 1

\* A line that was passed over is next: nothing lower is presented before it.
NextInTurn == \A i \in Lines :
    passed[i] # 0 => i \in irq_flagged /\ (irq_level = 0 \/ irq_level >= i)

EnteringIdle == cpu = "enter" => vector # 0 /\ cpu_vpa_n = 1

\* The inductive invariant behind the others (system.sv:204-224).
IInv == /\ TypeOK /\ EnteringIdle /\ AckMatchesVector /\ PresentedIsFlagged
        /\ BoundedInversion /\ NextInTurn

\* Every edge counts (system.sv:219-221): whatever the CPU acknowledges at that
\* moment, the controller implements the abstract one.
Abstract == INSTANCE IrqSpec WITH
    waiting <- irq_flagged, risen <- risen, taken <- acked, None <- 0
ImplementsIrqSpec == Abstract!Spec

\* A flagged line is served in the end, once the sources are quiet.
Served == \A i \in Lines : i \in irq_flagged ~> acked = i
=============================================================================
