------------------------------ MODULE PllFifo -------------------------------
(***************************************************************************)
(* How the settings of the pixel clock reach the PLL: crt_set_mode and     *)
(* crtc_write_pll (firmware/src/hdmi.c), the register that starts a        *)
(* transfer (rtl/crtc.sv), the FIFO between the two clocks                 *)
(* (rtl/pll_fifo.v) and its reader (MiSTerLaggy.sv).                       *)
(*                                                                         *)
(* Setting mode k writes the entries <<k, 1>> .. <<k, N>>: N - 1           *)
(* parameters and then the one that starts the reconfiguration.  SysEdge   *)
(* is an edge of clk_sys, on which the CPU and the CRTC run, RefEdge one   *)
(* of CLK_50M, on which the reader and the reconfiguration core run.       *)
(*                                                                         *)
(* The FIFO is a library cell: an entry becomes visible to the reader some *)
(* time after it was written.  The reconfiguration core, PllCore, takes a  *)
(* write in the clock it comes in or not at all.                           *)
(*                                                                         *)
(* The PLL itself is external.  It may lose its lock for any reason at any *)
(* time, but for the few clocks in which a mode is on its way: then only a *)
(* reconfiguration, one that this mode has started, takes the lock.        *)
(*                                                                         *)
(* PollNever and TakeBusy are mutants of the definition that follows each; *)
(* nothing uses them.                                                      *)
(***************************************************************************)
EXTENDS Naturals, Sequences, PllCore

CONSTANTS
    N,                  \* entries of a mode, 8 in the code
    Depth,              \* words of the FIFO, 32 in the code
    Strobe,             \* clocks a write cycle of the CPU lasts
    MaxModes            \* bound: modes set

ASSUME PllFifoAssumption ==
    N \in Nat /\ N > 2 /\ Depth \in Nat \ {0} /\ Strobe \in Nat \ {0} /\ MaxModes \in Nat \ {0}

VARIABLES
    cpu,                \* st: "rest", "poll" or "io"; n: clocks left of the write cycle
    entry,              \* pll_address and pll_data: the entry being written
    prev, pll_write,    \* pll_io_req_prev; the request to the FIFO
    fifo, visible,      \* the words, and how many of them the reader sees
    rdack, cfg,         \* pll_fifo_rdack; the write to the core, <<>> if none
    core, locked,       \* the state of the core and the lock of the PLL, as in PllCore
    changed,            \* a parameter was written since the last start
    regs, started       \* in the core: the mode each parameter is of, the last started

sysVars == <<cpu, entry, prev, pll_write>>
refVars == <<rdack, cfg, core, locked, changed, regs, started>>
vars == <<sysVars, fifo, visible, refVars>>

Params == 1..(N - 1)

Init ==
    /\ cpu = [st |-> "rest", n |-> 0] /\ entry = <<0, N>>
    /\ prev = FALSE /\ pll_write = FALSE
    /\ fifo = <<>> /\ visible = 0
    /\ rdack = FALSE /\ cfg = <<>>
    /\ core = "idle" /\ locked \in BOOLEAN /\ changed = FALSE
    /\ regs = [i \in Params |-> 0] /\ started = 0

----------------------------------------------------------------------------
(* clk_sys: the CPU, the CRTC and the write side of the FIFO. *)

\* The word is written unless the FIFO is full (overflow_checking).
Pushed == IF pll_write /\ Len(fifo) < Depth THEN Append(fifo, entry) ELSE fifo

Request(req) == prev' = req /\ pll_write' = (req /\ ~prev)

CrtcEdge ==
    /\ Request(cpu.st = "io")
    /\ fifo' = Pushed
    /\ UNCHANGED <<visible, refVars>>

Drained == fifo = <<>> /\ ~pll_write /\ ~rdack /\ cfg = <<>> /\ core = "idle"

\* crt_set_mode is called: by draw_menu many frames after the last call, or by main
\* when it has cleared its memory after a reset; the FIFO has run empty by then, and
\* a reconfiguration that was started is through.
SetMode ==
    /\ cpu.st = "rest" /\ entry[1] < MaxModes /\ Drained
    /\ cpu' = [st |-> "poll", n |-> 0] /\ entry' = <<entry[1] + 1, 0>>
    /\ CrtcEdge

\* crtc_write_pll: while (crtc->pll_io != 0) {}; then data, address and the request.
PollNever ==
    /\ cpu.st = "poll"
    /\ cpu' = [st |-> "io", n |-> Strobe] /\ entry' = <<entry[1], entry[2] + 1>>
    /\ CrtcEdge
Poll ==
    /\ cpu.st = "poll" /\ Len(fifo) < Depth
    /\ cpu' = [st |-> "io", n |-> Strobe] /\ entry' = <<entry[1], entry[2] + 1>>
    /\ CrtcEdge

\* The write cycle goes on, or ends.
Io ==
    /\ cpu.st = "io"
    /\ cpu' = IF cpu.n > 0 THEN [cpu EXCEPT !.n = @ - 1]
              ELSE [st |-> IF entry[2] = N THEN "rest" ELSE "poll", n |-> 0]
    /\ UNCHANGED entry
    /\ CrtcEdge

\* A reset of the core stops the CPU where it is.
Reset ==
    /\ cpu' = [st |-> "rest", n |-> 0] /\ UNCHANGED entry
    /\ CrtcEdge

\* Anything else the CPU does, a failed poll included.
Other ==
    /\ cpu.st # "io" /\ UNCHANGED <<cpu, entry>>
    /\ CrtcEdge

----------------------------------------------------------------------------
(* CLK_50M: the reader and the core. *)

waitrequest == WaitRequest(core, locked)

TakeBusy == visible > 0
Take == ~waitrequest /\ visible > 0

\* The reader copies the word that shows and asks for the next one a clock later.
Reader ==
    /\ cfg' = IF Take THEN Head(fifo) ELSE <<>>
    /\ rdack' = Take

\* The read side of the FIFO; later words become visible in their own time.
Pops == rdack /\ visible > 0
ReadSide ==
    /\ fifo' = IF Pops THEN Tail(fifo) ELSE fifo
    /\ visible' \in (IF Pops THEN visible - 1 ELSE visible)..Len(fifo')

\* The core takes the write of the last clock; the first entry is the mode register,
\* which is no change.
Core ==
    LET taken == cfg # <<>> /\ ~waitrequest
        start == taken /\ cfg[2] = N /\ StartsHere(core, locked, changed)
    IN  /\ regs' = IF taken /\ cfg[2] < N THEN [regs EXCEPT ![cfg[2]] = cfg[1]] ELSE regs
        /\ started' = IF start THEN cfg[1] ELSE started
        /\ core' \in NextStates(core, locked, start)
        /\ changed' = ((changed \/ (taken /\ cfg[2] \in 2..(N - 1))) /\ core' # "locking")

\* The lock of the PLL.
OnItsWay == cpu.st # "rest" \/ pll_write \/ fifo # <<>> \/ cfg # <<>>
Lock == locked' \in (IF locked /\ OnItsWay /\ core = "idle" THEN {TRUE} ELSE BOOLEAN)

RefEdge == Reader /\ ReadSide /\ Core /\ Lock /\ UNCHANGED sysVars

Sys == SetMode \/ Poll \/ Io \/ Other
Next == Sys \/ Reset \/ RefEdge

Spec == Init /\ [][Next]_vars

----------------------------------------------------------------------------
TypeOK ==
    /\ cpu \in [st : {"rest", "poll", "io"}, n : 0..Strobe]
    /\ entry \in (0..MaxModes) \X (0..N)
    /\ prev \in BOOLEAN /\ pll_write \in BOOLEAN
    /\ rdack \in BOOLEAN /\ core \in CoreStates /\ locked \in BOOLEAN /\ changed \in BOOLEAN
    /\ fifo \in Seq((1..MaxModes) \X (1..N)) /\ Len(fifo) <= Depth
    /\ visible \in 0..Len(fifo)
    /\ cfg \in {<<>>} \union ((1..MaxModes) \X (1..N))
    /\ regs \in [Params -> 0..MaxModes] /\ started \in 0..MaxModes

\* A reconfiguration only starts with all the parameters of its own mode in the
\* core: none was lost at a full FIFO, at the FIFO's read request, which comes a
\* clock late, or at waitrequest (hdmi.c:215-222, MiSTerLaggy.sv:312-323).
StartHasAll == [][started' # started => \A i \in Params : regs'[i] = started']_vars
=============================================================================
