-------------------------------- MODULE Vio ---------------------------------
(***************************************************************************)
(* The HDMI output: what hdmi_set_mode writes (firmware/src/hdmi.c), the   *)
(* command port it writes to (rtl/system.sv, sys/sys_top.v), the HPS,      *)
(* which configures the same registers, the adjuster between these and the *)
(* PLL, which tunes the HDMI clock by itself (sys/pll_hdmi_adj.vhd), and   *)
(* the reconfiguration core of the PLL (sys/pll_cfg/pll_cfg_hdmi.v).       *)
(*                                                                         *)
(* A word is <<mode, number>>: field 1 .. Fields of the timing of a mode,  *)
(* half of setting 1 .. Settings of its clock, or a plain number, which is *)
(* of mode 0.  Mode 0 is also the one the HPS configures and the one the   *)
(* registers hold at power-up.  A value that is made of others is of       *)
(* their mode, or Mixed if they are of two modes.  A step of the firmware  *)
(* is a write to vio_en or to vio_data.                                    *)
(*                                                                         *)
(* The 50 MHz side takes a setting, and the start of a reconfiguration,    *)
(* in 3 clocks; the CPU's next write is later than that.  The core writes  *)
(* what was changed to the PLL in one step: nothing can be written to it   *)
(* meanwhile.                                                              *)
(*                                                                         *)
(* ProgramEager, GotKept and HeedsAlways are mutants of the definition     *)
(* that follows each; nothing uses them.                                   *)
(***************************************************************************)
EXTENDS Integers, Sequences, PllCore

CONSTANTS
    Fields,             \* of a timing, 8 in the code
    Settings,           \* of the clock, 7 in the code
    MaxEvents           \* bound: commands of the HPS, resets, losses of lock by themselves
                        \* and pulses of the adjuster while settings are written

ASSUME VioAssumption ==
    Fields \in Nat /\ Fields > 1 /\ Settings \in Nat /\ Settings > 2 /\ MaxEvents \in Nat

\* The settings in the order of setPLL: the first is the mode of the core, the last the
\* fraction of the multiplier; and the register that starts a reconfiguration.
MODE == 1
M == 2
K == Settings
START == Settings + 1
Values == M..K

VARIABLES
    todo,               \* the writes hdmi_set_mode has yet to make
    vio_en, vio_has_cmd, vio_cmd, vio_cnt,
    vio_override,
    timing, lowlat,     \* WIDTH .. VBP: the mode each field is of
    custom,             \* cfg_custom_p1 and the mode of the low half of cfg_custom_p2
    cfg_set, cfg_got, cfg_ready,
    hdmi_core, hdmi_locked,     \* as in PllCore
    settings, running,  \* of the PLL: the mode each setting is of, if it was written
                        \* since the last start; and the settings in effect
    adj,                \* the adjuster: the write it waits for and the mode of its data; the
                        \* modes of M and K in mfrac, _ref and _mem together; modo
    hps,                \* words of its command 0x20 that the HPS has sent
    events,             \* how many of the events that MaxEvents bounds have been
    hit                 \* history: since the settings were last begun, by SET_CFG 0 or by
                        \* the HPS, something came in between, or the core missed or lost one

port == <<vio_en, vio_has_cmd, vio_cmd, vio_cnt>>
coreVars == <<hdmi_core, hdmi_locked, settings, running>>
pllVars == <<cfg_set, cfg_got, cfg_ready, coreVars, adj, hit>>
cmdVars == <<todo, port, vio_override, timing, lowlat, custom, hps>>
vioVars == <<cmdVars, pllVars, events>>

Unwritten == -1
Mixed == -2
Mix(a, b) == IF a = b THEN a ELSE Mixed

NoCustom == [addr |-> MODE, lo |-> 0]
Unchanged == [i \in Values |-> Unwritten]

VioInit ==
    /\ todo = <<>>
    /\ vio_en = FALSE /\ vio_has_cmd = FALSE /\ vio_cmd = 0 /\ vio_cnt = 0
    /\ vio_override = FALSE
    /\ timing = [f \in 1..Fields |-> 0] /\ lowlat = FALSE
    /\ custom = NoCustom
    /\ cfg_set = FALSE /\ cfg_got = FALSE /\ cfg_ready = FALSE
    /\ hdmi_core = "idle" /\ hdmi_locked = TRUE
    /\ settings = Unchanged /\ running = [i \in Values |-> 0]
    /\ adj = [st |-> "idle", data |-> 0, m |-> 0, k |-> 0, modo |-> FALSE]
    /\ hps = 0 /\ hit = FALSE /\ events = 0

Event == events < MaxEvents /\ events' = events + 1

----------------------------------------------------------------------------
(* The firmware. *)

SET_MODE == 1
SET_PLL == 2
SET_OVERRIDE == 3
SET_CFG == 4

Enable == <<"en">>
Disable == <<"dis">>
W16(mode, n) == <<"w16", mode, n>>

Cmd(cmd, data) == <<Enable, W16(0, cmd), W16(0, data), Disable>>
WritePll(mode, i) ==
    <<Enable, W16(0, SET_PLL), W16(0, i), W16(mode, i), W16(mode, i), Disable>>

\* hdmi_set_mode, with setPLL in its place.
Timing(mode) ==
    <<Enable, W16(0, SET_MODE)>> \o [f \in 1..Fields |-> W16(mode, f)] \o <<W16(0, 1), Disable>>
setPLL(mode) == [k \in 1..(6 * Settings) |-> WritePll(mode, ((k - 1) \div 6) + 1)[((k - 1) % 6) + 1]]

ProgramEager(mode) ==
    Cmd(SET_OVERRIDE, 1) \o Cmd(SET_CFG, 0) \o Timing(mode) \o Cmd(SET_CFG, 1) \o setPLL(mode)
Program(mode) ==
    Cmd(SET_OVERRIDE, 1) \o Cmd(SET_CFG, 0) \o Timing(mode) \o setPLL(mode) \o Cmd(SET_CFG, 1)

----------------------------------------------------------------------------
(* The reconfiguration core of the PLL, and the adjuster in front of it. *)

Waits == WaitRequest(hdmi_core, hdmi_locked)

\* A write to the core, which it takes or not; a start puts what was changed in effect.
CoreWrite(i, mode) ==
    LET starts == i = START /\ StartsHere(hdmi_core, hdmi_locked, settings # Unchanged)
    IN  /\ settings' = IF starts THEN Unchanged
                       ELSE IF i \in Values /\ ~Waits THEN [settings EXCEPT ![i] = mode]
                       ELSE settings
        /\ running' = IF ~starts THEN running
                      ELSE [k \in Values |-> IF settings[k] = Unwritten THEN running[k] ELSE settings[k]]
        /\ hdmi_core' \in NextStates(hdmi_core, hdmi_locked, starts)
        /\ UNCHANGED hdmi_locked

\* cfg_ready rises when the wait that the adjuster passes on ends while cfg_got is up;
\* the adjuster hides the wait while it is busy.
AdjWaits == Waits /\ adj.st = "idle"
CfgReady == cfg_ready' = (cfg_ready \/ (cfg_got /\ AdjWaits /\ ~AdjWaits'))

\* The clock of the core and the PLL.  The PLL is external: its lock comes and goes.
\* While the core writes nothing looks at it.
PllEdge ==
    /\ hdmi_core' \in NextStates(hdmi_core, hdmi_locked, FALSE)
    /\ hdmi_locked' \in IF hdmi_core' = "writing" THEN {hdmi_locked} ELSE BOOLEAN
    /\ IF hdmi_core = "idle" /\ hdmi_locked /\ ~hdmi_locked' THEN Event ELSE UNCHANGED events
    /\ UNCHANGED <<cmdVars, cfg_set, cfg_got, settings, running, adj, hit>>
    /\ CfgReady

\* Something has begun to write the settings and is not through.
Middle == todo # <<>> \/ (hps > 0 /\ ~vio_override)

\* A pulse: in low latency mode the adjuster has a new frequency; else it takes back
\* the one that was set, once.  It writes M, unless that is as it was, K and a start.
\* A pulse that comes while it is busy counts for the frequency; the next one writes it.
AdjTune ==
    /\ lowlat \/ adj.modo
    /\ LET f == Mix(adj.m, adj.k)
       IN  IF adj.st # "idle" THEN adj' = [adj EXCEPT !.m = f, !.k = f]
           ELSE \E st \in {"M", "K"} :
                    adj' = [st |-> st, data |-> f, m |-> f, k |-> f, modo |-> lowlat /\ adj.modo]
    /\ hit' = (hit \/ Middle)
    /\ IF Middle THEN Event ELSE UNCHANGED events
    /\ UNCHANGED <<cmdVars, cfg_set, cfg_got, coreVars>>
    /\ CfgReady

\* What it does once it sees its write taken.
AdjNext ==
    CASE adj.st = "M" -> [adj EXCEPT !.st = "K", !.data = adj.k]
      [] adj.st = "K" -> [adj EXCEPT !.st = "start", !.data = 0]
      [] adj.st = "start" -> [adj EXCEPT !.st = "idle"]

AdjWrite ==
    /\ adj.st # "idle" /\ ~Waits
    /\ CoreWrite(CASE adj.st = "M" -> M [] adj.st = "K" -> K [] adj.st = "start" -> START, adj.data)
    /\ adj' = AdjNext
    /\ hit' = (hit \/ Middle)
    /\ UNCHANGED <<cmdVars, cfg_set, cfg_got, events>>
    /\ CfgReady

\* Another write comes for one clock, whether the core takes it or not.  It goes before
\* a write of the adjuster, which may be lost in the same clock, and the adjuster sees
\* what M and K are.
Pulse(i, mode) ==
    /\ CoreWrite(i, mode)
    /\ \E a \in {adj} \cup (IF adj.st # "idle" /\ ~Waits THEN {AdjNext} ELSE {}) :
           adj' = [a EXCEPT !.m = IF i = M THEN mode ELSE @, !.k = IF i = K THEN mode ELSE @,
                            !.modo = @ \/ i \in {M, K}]
    /\ CfgReady

\* cfg_set follows the command; cfg_got follows it at once, except that once a
\* reconfiguration has completed its rise waits for the next HDMI frame.  The rise
\* starts a reconfiguration with the settings there are.
GotKept(set) == IF ~cfg_ready THEN set ELSE cfg_got
Got(set) == IF ~set \/ ~cfg_ready THEN set ELSE cfg_got

Rise(got) ==
    /\ cfg_got' = got
    /\ IF got /\ ~cfg_got THEN Pulse(START, 0) ELSE UNCHANGED <<coreVars, adj, cfg_ready>>

Set(set) == cfg_set' = set /\ Rise(Got(set))

\* A setting that arrives while cfg_got is up is dropped.
Write(i, mode) ==
    /\ IF cfg_got THEN UNCHANGED <<coreVars, adj, cfg_ready>> ELSE Pulse(i, mode)
    /\ hit' = (hit \/ Waits \/ adj.st # "idle")
    /\ UNCHANGED <<cfg_set, cfg_got>>

\* The next frame of the HDMI output starts.
Vsync ==
    /\ cfg_set /\ cfg_ready /\ ~cfg_got
    /\ Rise(TRUE)
    /\ UNCHANGED <<cmdVars, cfg_set, hit, events>>

----------------------------------------------------------------------------
(* The command port. *)

\* While vio_en is down the port has no command.  vio_cnt and custom keep their
\* values, which nothing reads before they are written again: they are forgotten.
Closed ==
    /\ vio_en' = FALSE /\ vio_has_cmd' = FALSE /\ vio_cmd' = 0
    /\ vio_cnt' = 0 /\ custom' = NoCustom

En ==
    /\ \/ Head(todo) = Enable /\ vio_en' = TRUE /\ UNCHANGED <<vio_has_cmd, vio_cmd, vio_cnt, custom>>
       \/ Head(todo) = Disable /\ Closed
    /\ UNCHANGED <<vio_override, timing, lowlat, pllVars>>

\* The first word after vio_en is the command.
Command(n) ==
    /\ vio_has_cmd' = TRUE /\ vio_cmd' = n /\ vio_cnt' = 0
    /\ UNCHANGED <<vio_en, vio_override, timing, lowlat, custom, pllVars>>

SetTiming(mode, n) ==
    /\ vio_cmd = SET_MODE
    /\ timing' = IF vio_cnt < Fields THEN [timing EXCEPT ![vio_cnt + 1] = mode] ELSE timing
    /\ lowlat' = IF vio_cnt = Fields THEN n = 1 ELSE lowlat
    /\ UNCHANGED <<vio_override, custom, pllVars>>

SetPll(mode, n) ==
    /\ vio_cmd = SET_PLL
    /\ custom' = [addr |-> IF vio_cnt = 0 THEN n ELSE custom.addr,
                  lo |-> IF vio_cnt = 1 THEN mode ELSE custom.lo]
    /\ IF vio_cnt = 2 THEN Write(custom.addr, Mix(custom.lo, mode)) ELSE UNCHANGED pllVars
    /\ UNCHANGED <<vio_override, timing, lowlat>>

SetOverride(n) ==
    /\ vio_cmd = SET_OVERRIDE
    /\ vio_override' = (n = 1)
    /\ UNCHANGED <<timing, lowlat, custom, pllVars>>

SetCfg(n) ==
    /\ vio_cmd = SET_CFG
    /\ Set(n = 1) /\ hit' = (hit /\ n = 1)
    /\ UNCHANGED <<vio_override, timing, lowlat, custom>>

Data(mode, n) ==
    /\ vio_cnt' = vio_cnt + 1
    /\ SetTiming(mode, n) \/ SetPll(mode, n) \/ SetOverride(n) \/ SetCfg(n)
    /\ UNCHANGED <<vio_en, vio_has_cmd, vio_cmd>>

\* The next write of the firmware.
Bus ==
    /\ todo # <<>> /\ todo' = Tail(todo)
    /\ LET w == Head(todo)
       IN  \/ w \in {Enable, Disable} /\ En
           \/ Len(w) = 3 /\ ~vio_has_cmd /\ Command(w[3])
           \/ Len(w) = 3 /\ vio_has_cmd /\ Data(w[2], w[3])
    /\ UNCHANGED <<hps, events>>

----------------------------------------------------------------------------
(* The HPS, and resets. *)

HeedsAlways == TRUE
Heeds == ~vio_override

\* A word of the command 0x20: a field of the timing, with the second of which goes
\* setting 1, or the last one of the three that make a setting of the clock.  The word
\* after the timing holds lowlat, as the INI file has it.  The first word withdraws
\* cfg_set, and the others find it down.
HpsWrite ==
    IF hps = 1 THEN Write(MODE, 0)
    ELSE IF hps >= Fields THEN Write(hps - Fields + M, 0)
    ELSE /\ cfg_set' = FALSE /\ cfg_got' = FALSE
         /\ hit' = (hit /\ hps > 0)
         /\ UNCHANGED <<coreVars, adj, cfg_ready>>

HpsMode ==
    /\ \/ /\ Heeds
          /\ IF hps = 0 THEN Event ELSE UNCHANGED events
          /\ hps' = (hps + 1) % (Fields + Settings - 1)
          /\ timing' = IF hps < Fields THEN [timing EXCEPT ![hps + 1] = 0] ELSE timing
          /\ lowlat' \in IF hps = Fields THEN BOOLEAN ELSE {lowlat}
          /\ HpsWrite
       \/ /\ ~Heeds /\ hps > 0       \* the rest of the command has no effect
          /\ hps' = 0
          /\ UNCHANGED <<timing, lowlat, pllVars, events>>
    /\ UNCHANGED <<todo, port, vio_override, custom>>

\* The data word of the command 1: buttons and switches.
HpsWord ==
    /\ hps = 0 /\ Event
    /\ Set(TRUE) /\ hit' = (hit \/ Middle)
    /\ UNCHANGED cmdVars

\* A reset of the core closes the port and restarts the firmware; the framework's
\* reset, which the HPS asks for, also takes the override back and resets the
\* adjuster and the PLL with its core.
ResetPort(framework) ==
    /\ framework => hps = 0
    /\ Event
    /\ todo' = <<>> /\ Closed
    /\ vio_override' = (vio_override /\ ~framework)
    /\ hit' = (hit \/ Middle \/ (framework /\ settings # Unchanged))
    /\ IF framework
       THEN /\ hdmi_core' = "idle" /\ hdmi_locked' = FALSE /\ settings' = Unchanged
            /\ adj' = [adj EXCEPT !.st = "idle", !.modo = FALSE]
       ELSE UNCHANGED <<hdmi_core, hdmi_locked, settings, adj>>
    /\ UNCHANGED <<timing, lowlat, cfg_set, cfg_got, cfg_ready, running, hps>>
=============================================================================
