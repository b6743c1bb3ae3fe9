----------------------------- MODULE ClockRead -----------------------------
(***************************************************************************)
(* clock_get_ticks (firmware/src/clock.h) against the hardware it reads    *)
(* (rtl/system.sv): the 32-bit counter runs on clk_50m, ticks2 samples it  *)
(* on every clk, a write to the port copies ticks2 to ticks_latch, and the *)
(* 68000 then reads ticks_latch as two words.  Main and every interrupt    *)
(* handler make the same call, handlers on top of each other.              *)
(*                                                                         *)
(* The two clocks are unrelated (sys_top.sdc puts them into exclusive      *)
(* groups), so a clk edge may meet a counter that is just changing: ticks2 *)
(* then takes each bit from the old or from the new count.  CONSTANT Torn  *)
(* says whether the sampled bits may disagree about which of the two.      *)
(*                                                                         *)
(* DisableNothing is a mutant of Disable; nothing uses it.                 *)
(***************************************************************************)
EXTENDS Integers

CONSTANTS
    Bits, Half, \* width and range of one of the two words read (16, 2^16)
    Torn,       \* may a sample mix bits of two successive counts?
    MaxEpoch,   \* bound: wraps of the counter
    MaxNest     \* bound: handlers active at once

ASSUME WordAssumption == Bits \in Nat /\ Half \in Nat /\ Half > 0 /\ Half = 2 ^ Bits

ASSUME BoundAssumption == Torn \in BOOLEAN /\ MaxEpoch \in Nat /\ MaxNest \in Nat

VARIABLES
    ticks, ticks2, ticks_latch,     \* registers of system.sv
    mask,                           \* interrupt mask of the 68000's SR
    depth,                          \* handlers on the stack; 0 is main
    frames,                         \* what main and each handler are doing
    epoch                           \* history: how often ticks has wrapped

vars == <<ticks, ticks2, ticks_latch, mask, depth, frames, epoch>>

TickMod == Half * Half
Ticks == 0..(TickMod - 1)
Levels == {4, 6}
Masks == {0, 7} \union Levels

Instants == [epoch: Nat, ticks: Ticks]
Now == [epoch |-> epoch, ticks |-> ticks]
NotAfter(a, b) == a.epoch < b.epoch \/ (a.epoch = b.epoch /\ a.ticks <= b.ticks)

\* clks: clk edges seen by the write cycle, as far as they matter.
\* sr: the mask that RTE restores.  from: history, when the call began.
Frames == [pc: {"idle", "write", "hi", "lo", "enable", "done"}, clks: 0..2,
           hi: 0..(Half - 1), lo: 0..(Half - 1), sr: Masks, from: Instants]

Frame(pc, sr, from) == [pc |-> pc, clks |-> 0, hi |-> 0, lo |-> 0, sr |-> sr, from |-> from]
Entered(sr) == Frame("idle", sr, [epoch |-> 0, ticks |-> 0])

Init ==
    /\ ticks = 0 /\ ticks2 = 0 /\ ticks_latch = 0
    /\ mask = 0
    /\ depth = 0 /\ frames = [i \in 0..MaxNest |-> Entered(0)]
    /\ epoch = 0

Top == frames[depth]

\* The running code goes from one place of clock_get_ticks to another.
At(from, to) == Top.pc = from /\ frames' = [frames EXCEPT ![depth] = to]

DisableNothing ==
    /\ At("idle", Frame("write", Top.sr, Now))
    /\ UNCHANGED <<ticks, ticks2, ticks_latch, mask, depth, epoch>>

Disable ==
    /\ At("idle", Frame("write", Top.sr, Now))
    /\ mask' = 7
    /\ UNCHANGED <<ticks, ticks2, ticks_latch, depth, epoch>>

\* A 68000 write cycle lasts at least four CPU clocks, eight of clk.
EndWrite ==
    /\ Top.clks = 2
    /\ At("write", [Top EXCEPT !.pc = "hi"])
    /\ UNCHANGED <<ticks, ticks2, ticks_latch, mask, depth, epoch>>

ReadHi ==
    /\ At("hi", [Top EXCEPT !.pc = "lo", !.hi = ticks_latch \div Half])
    /\ UNCHANGED <<ticks, ticks2, ticks_latch, mask, depth, epoch>>

ReadLo ==
    /\ At("lo", [Top EXCEPT !.pc = "enable", !.lo = ticks_latch % Half])
    /\ UNCHANGED <<ticks, ticks2, ticks_latch, mask, depth, epoch>>

Enable ==
    /\ At("enable", [Top EXCEPT !.pc = "done"])
    /\ mask' = 0
    /\ UNCHANGED <<ticks, ticks2, ticks_latch, depth, epoch>>

\* Main goes on, to call again some time; a handler returns.
Return ==
    /\ Top.pc = "done"
    /\ frames' = [frames EXCEPT ![depth] = Entered(0)]
    /\ IF depth = 0
         THEN UNCHANGED <<depth, mask>>
         ELSE depth' = depth - 1 /\ mask' = Top.sr
    /\ UNCHANGED <<ticks, ticks2, ticks_latch, epoch>>

\* A handler of level l is entered, between any two instructions.
Interrupt(l) ==
    /\ l > mask
    /\ depth < MaxNest
    /\ depth' = depth + 1
    /\ frames' = [frames EXCEPT ![depth + 1] = Entered(mask)]
    /\ mask' = l
    /\ UNCHANGED <<ticks, ticks2, ticks_latch, epoch>>

\* What one clk edge does, ticks2 taking the value v.
Clk(v) ==
    /\ ticks2' = v
    /\ IF Top.pc = "write"
         THEN /\ ticks_latch' = ticks2
              /\ frames' = [frames EXCEPT ![depth].clks = IF @ = 2 THEN 2 ELSE @ + 1]
         ELSE UNCHANGED <<ticks_latch, frames>>
    /\ UNCHANGED <<mask, depth>>

Sample == Clk(ticks) /\ UNCHANGED <<ticks, epoch>>

Inc(t) == IF t = TickMod - 1 THEN 0 ELSE t + 1

Count ==
    /\ ticks < TickMod - 1 \/ epoch < MaxEpoch
    /\ ticks' = Inc(ticks)
    /\ epoch' = IF ticks = TickMod - 1 THEN epoch + 1 ELSE epoch

Tick == Count /\ UNCHANGED <<ticks2, ticks_latch, mask, depth, frames>>

Bit(v, k) == (v \div 2 ^ k) % 2

\* What a sample of a counter going from a to b can give.
Sampled(a, b) ==
    IF Torn
      THEN {v \in Ticks : \A k \in 0..(2 * Bits - 1) : Bit(v, k) \in {Bit(a, k), Bit(b, k)}}
      ELSE {a, b}

\* A clk edge and a clk_50m edge that coincide.
SampleMidCount == Count /\ \E v \in Sampled(ticks, Inc(ticks)) : Clk(v)

Next ==
    \/ Disable \/ EndWrite \/ ReadHi \/ ReadLo \/ Enable \/ Return
    \/ \E l \in Levels : Interrupt(l)
    \/ Sample \/ Tick \/ SampleMidCount

Spec == Init /\ [][Next]_vars

----------------------------------------------------------------------------
TypeOK ==
    /\ ticks \in Ticks /\ ticks2 \in Ticks /\ ticks_latch \in Ticks
    /\ mask \in Masks
    /\ depth \in 0..MaxNest
    /\ frames \in [0..MaxNest -> Frames]
    /\ epoch \in Nat

\* The counter had the value v at some instant since a.
Seen(v, a) == \E e \in 0..epoch : /\ NotAfter(a, [epoch |-> e, ticks |-> v])
                                  /\ NotAfter([epoch |-> e, ticks |-> v], Now)

\* The count that a call of clock_get_ticks by frame i returns.
Result(i) == Half * frames[i].hi + frames[i].lo

\* clock_get_ticks (clock.h:26-36) returns a count that the counter really had
\* between the call and the return, though it reads the latch in two halves and
\* handlers that latch anew interrupt it and nest.
ReadIsInstant ==
    \A i \in 0..depth : frames[i].pc = "done" => Seen(Result(i), frames[i].from)

\* Frame i is between disable_interrupts and enable_interrupts.
ReadingPcs == {"write", "hi", "lo", "enable"}
Reading(i) == frames[i].pc \in ReadingPcs

\* What the frame on top has sampled, latched and read so far dates from after
\* its call.
ReadSoFar ==
    /\ Top.pc \in ReadingPcs => mask = 7 /\ NotAfter(Top.from, Now)
    /\ Top.pc = "write" /\ Top.clks > 0 => Seen(ticks2, Top.from)
    /\ (Top.pc = "write" /\ Top.clks = 2) \/ Top.pc \in {"hi", "lo", "enable"} =>
            Seen(ticks_latch, Top.from)
    /\ Top.pc \in {"lo", "enable"} => Top.hi = ticks_latch \div Half
    /\ Top.pc = "enable" => Top.lo = ticks_latch % Half

\* The inductive invariant behind ReadIsInstant (clock.h:30-33): only the frame
\* on top can be reading, and nothing can interrupt it.
IInv ==
    /\ TypeOK
    /\ \A i \in 0..(depth - 1) : ~Reading(i)
    /\ ReadSoFar
    /\ ReadIsInstant
=============================================================================
