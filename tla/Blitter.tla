------------------------------ MODULE Blitter -------------------------------
(***************************************************************************)
(* The blitter (rtl/blitter.sv) on the CPU's bus (rtl/system.sv) and the   *)
(* two functions of the firmware that use it, gfx_clear and gfx_rect       *)
(* (firmware/src/gfx.c).                                                   *)
(*                                                                         *)
(* A step is an edge of clk.  The CPU writes the blitter's registers one   *)
(* after the other and goes on after the submit; the fill runs on its own, *)
(* takes over the port of the tile memory and holds back DTACK.  Operation *)
(* k of the firmware draws with the value k, so that the tile memory shows *)
(* which operation wrote a word last.                                      *)
(*                                                                         *)
(* The CPU (fx68k, not part of the repository) is modelled by the write    *)
(* cycle of the 68000: data strobes from S4, DTACK sampled at the end of   *)
(* S4 and from then on at every second edge, strobes released at S7.       *)
(*                                                                         *)
(* BlitSkipOne, DoneLast and DtackNow are mutants of the definition that   *)
(* follows each; nothing uses them.                                        *)
(***************************************************************************)
EXTENDS Naturals, Sequences

CONSTANTS
    TILE_MAX_W,         \* words of a line of the tile memory
    TILE_MAX_H,         \* lines of the tile memory
    REG,                \* 2^16: the registers hold 0..REG-1
    Rects,              \* the rectangles drawn: records with x, y, w, h
    Pokes,              \* the words that text writes by itself
    Gaps,               \* clocks between two write cycles of the CPU
    MaxOps              \* bound: operations

Words == 0..(TILE_MAX_W * TILE_MAX_H - 1)

ASSUME BlitterAssumption ==
    /\ {TILE_MAX_W, TILE_MAX_H, MaxOps} \subseteq Nat \ {0}
    /\ REG \in Nat /\ REG > TILE_MAX_W * TILE_MAX_H
    /\ \A r \in Rects : /\ {r.x, r.y} \subseteq Nat /\ {r.w, r.h} \subseteq Nat \ {0}
                        /\ r.x + r.w <= TILE_MAX_W /\ r.y + r.h <= TILE_MAX_H
    /\ Pokes \subseteq Words /\ Gaps \subseteq Nat \ {0}

VARIABLES
    blit,               \* the registers of the blitter
    vram,               \* the tile memory
    phi2,               \* the next edge is the falling edge of the CPU clock
    cpu,                \* the write cycle: st, and the clocks n it has left
    todo,               \* the writes of the current operation still to come
    ops                 \* history: the words each operation is to write

vars == <<blit, vram, phi2, cpu, todo, ops>>

----------------------------------------------------------------------------
(* The firmware's operations as the writes they make. *)

Write(reg, data) == [reg |-> reg, at |-> 0, data |-> data]

gfx_rect(r, k) ==
    << Write("start", r.y * TILE_MAX_W + r.x),
       Write("value", k),
       Write("span", r.w - 1),
       Write("repeat", r.h - 1),
       Write("skip", TILE_MAX_W - (r.w - 1)),
       Write("submit", 1) >>

Poke(a, k) == << [reg |-> "vram", at |-> a, data |-> k] >>

RectWords(r) ==
    {(r.y + dy) * TILE_MAX_W + r.x + dx : dx \in 0..(r.w - 1), dy \in 0..(r.h - 1)}

----------------------------------------------------------------------------
(* One edge of clk in the blitter and the tile memory, while the CPU drives *)
(* the write bus, or None.                                                  *)

None == Write("none", 0)

DoneLast(b) == b.rc = b.repeat /\ b.sc > b.span
Done(b) == b.rc > b.repeat

\* One word of the fill.
BlitSkipOne(b) ==
    [b EXCEPT !.wr = TRUE, !.addr = b.next, !.dout = b.value,
              !.sc = IF b.sc = b.span THEN 0 ELSE (b.sc + 1) % REG,
              !.rc = IF b.sc = b.span THEN (b.rc + 1) % REG ELSE b.rc,
              !.next = (b.next + IF b.sc = b.span THEN b.skip - 1 ELSE 1) % REG]
BlitWord(b) ==
    [b EXCEPT !.wr = TRUE, !.addr = b.next, !.dout = b.value,
              !.sc = IF b.sc = b.span THEN 0 ELSE (b.sc + 1) % REG,
              !.rc = IF b.sc = b.span THEN (b.rc + 1) % REG ELSE b.rc,
              !.next = (b.next + IF b.sc = b.span THEN b.skip ELSE 1) % REG]

\* A write to a register.
BlitRegister(b, bus) ==
    LET c == [b EXCEPT !.wr = FALSE]
    IN  CASE bus.reg = "submit" -> [c EXCEPT !.active = TRUE, !.next = b.start, !.sc = 0, !.rc = 0]
          [] bus.reg \in {"value", "span", "skip", "repeat", "start"} ->
                [c EXCEPT ![bus.reg] = bus.data]
          [] OTHER -> c

BlitClk(b, bus) ==
    IF b.active
      THEN IF Done(b) THEN [b EXCEPT !.wr = FALSE, !.active = FALSE] ELSE BlitWord(b)
      ELSE BlitRegister(b, bus)

\* The tile memory decodes the low bits of the address.
WordAt(addr) == addr % (TILE_MAX_W * TILE_MAX_H)

\* The blitter has the port of the tile memory while it is active.
Port(b, bus) ==
    CASE b.active /\ b.wr -> [vram EXCEPT ![WordAt(b.addr)] = b.dout]
      [] ~b.active /\ bus.reg = "vram" -> [vram EXCEPT ![bus.at] = bus.data]
      [] OTHER -> vram

\* The write the strobes are asserted for.
Bus == IF cpu.st \in {"wait", "hold"} THEN Head(todo) ELSE None

Edge ==
    /\ blit' = BlitClk(blit, Bus)
    /\ vram' = Port(blit, Bus)
    /\ phi2' = ~phi2

----------------------------------------------------------------------------
(* The CPU. *)

DtackNow == FALSE
DTACKn == blit.active

Init ==
    /\ blit = [active |-> FALSE, wr |-> FALSE, addr |-> 0, dout |-> 0, value |-> 0, span |-> 0,
               skip |-> 0, repeat |-> 0, start |-> 0, next |-> 0, sc |-> 0, rc |-> 0]
    /\ vram = [a \in Words |-> 0]
    /\ phi2 = FALSE
    /\ cpu = [st |-> "idle", n |-> 0]
    /\ todo = <<>> /\ ops = <<>>

\* The firmware starts its next operation.
Choose(words, writes) ==
    /\ cpu.st = "idle" /\ todo = <<>> /\ Len(ops) < MaxOps
    /\ todo' = writes /\ ops' = Append(ops, words)
    /\ UNCHANGED <<blit, vram, phi2, cpu>>

\* Between two write cycles.
Idle ==
    /\ cpu.st = "idle" /\ (cpu.n > 0 \/ phi2)
    /\ todo # <<>> \/ Len(ops) = MaxOps
    /\ cpu' = [cpu EXCEPT !.n = IF @ > 0 THEN @ - 1 ELSE 0]
    /\ Edge /\ UNCHANGED <<todo, ops>>

\* Nothing left to do: only the clock goes on.
Rest ==
    /\ cpu.st = "idle" /\ cpu.n = 0 /\ ~phi2 /\ todo = <<>> /\ Len(ops) = MaxOps
    /\ Edge /\ UNCHANGED <<cpu, todo, ops>>

\* S4: the data strobes.
Strobe ==
    /\ cpu.st = "idle" /\ cpu.n = 0 /\ ~phi2 /\ todo # <<>>
    /\ cpu' = [st |-> "wait", n |-> 0]
    /\ Edge /\ UNCHANGED <<todo, ops>>

\* A wait state, or the first half of one.
Wait ==
    /\ cpu.st = "wait" /\ (phi2 => DTACKn)
    /\ Edge /\ UNCHANGED <<cpu, todo, ops>>

\* DTACK is sampled low: S5 and S6 follow.
Sample ==
    /\ cpu.st = "wait" /\ phi2 /\ ~DTACKn
    /\ cpu' = [st |-> "hold", n |-> 1]
    /\ Edge /\ UNCHANGED <<todo, ops>>

Hold ==
    /\ cpu.st = "hold" /\ cpu.n > 0
    /\ cpu' = [cpu EXCEPT !.n = @ - 1]
    /\ Edge /\ UNCHANGED <<todo, ops>>

\* S7: the strobes go.
Release ==
    /\ cpu.st = "hold" /\ cpu.n = 0
    /\ \E n \in Gaps : cpu' = [st |-> "idle", n |-> n]
    /\ todo' = Tail(todo)
    /\ Edge /\ UNCHANGED ops

Next ==
    \/ \E r \in Rects : Choose(RectWords(r), gfx_rect(r, Len(ops) + 1))
    \/ \E a \in Pokes : Choose({a}, Poke(a, Len(ops) + 1))
    \/ Idle \/ Rest \/ Strobe \/ Wait \/ Sample \/ Hold \/ Release

\* The clock runs.
Spec == Init /\ [][Next]_vars /\ WF_vars(Next)

----------------------------------------------------------------------------
\* The value of a word once the operations have been drawn one after the other.
Drawn(a) ==
    LET over == {k \in 1..Len(ops) : a \in ops[k]}
    IN  IF over = {} THEN 0 ELSE CHOOSE k \in over : \A j \in over : j <= k

\* When the CPU is done with an operation and the blitter idle, the tile memory
\* is what drawing the rectangles and the text one by one gives: each fill wrote
\* its rectangle, all of it, and the write of the CPU that followed was neither
\* lost nor overwritten (blitter.sv:32-85, system.sv:248 and 370-384).
DrawsInOrder ==
    todo = <<>> /\ ~blit.active => \A a \in Words : vram[a] = Drawn(a)

\* A word is only written by an operation that draws it, and never again by an
\* earlier one: a fill still running never wipes text written after it was
\* submitted, nor takes the register values of the next (blitter.sv:36-52).
NeverBackwards ==
    [][\A a \in Words : vram'[a] # vram[a] =>
            vram'[a] > vram[a] /\ a \in ops[vram'[a]]]_vars

\* The CPU is held back by a fill, never for good: every operation is drawn and
\* the blitter comes to rest (blitter.sv:37-38, system.sv:248).
AllDrawn == <>[](Len(ops) = MaxOps /\ todo = <<>> /\ ~blit.active)
=============================================================================
