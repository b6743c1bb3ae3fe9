-------------------------------- MODULE Hdmi --------------------------------
(***************************************************************************)
(* "Apply Video Changes" of draw_menu on both outputs: gfx_set_240p sets   *)
(* the pixel clock through PllFifo, then hdmi_set_mode sets the HDMI mode  *)
(* through Vio, while the HPS uses the same registers and the core is      *)
(* reset at any moment.                                                    *)
(*                                                                         *)
(* The two share nothing, so the order of a step of each makes no          *)
(* difference: first come the calls of gfx_set_240p, clock by clock, of    *)
(* main after each of some resets and of the menu, then those of           *)
(* hdmi_set_mode.                                                          *)
(***************************************************************************)
EXTENDS PllFifo, Vio

CONSTANT
    Modes               \* bound: calls of hdmi_set_mode; the first sets mode 1, and so on

ASSUME HdmiAssumption == Modes \in Nat \ {0}

VARIABLES
    call,               \* what is followed: "240p", the main "loop" or "hdmi", hdmi_set_mode
    mode,               \* the one hdmi_set_mode was last called with, 0 if none
    video_mode_desc     \* the mode in the name, 0 in "MiSTer Default"

mainVars == <<call, mode, video_mode_desc>>
hdmiVars == <<vars, vioVars, mainVars>>

HdmiInit ==
    /\ Init /\ VioInit
    /\ call = "240p" /\ mode = 0 /\ video_mode_desc = 0

----------------------------------------------------------------------------
\* The calls of gfx_set_240p, in clk_sys and in CLK_50M.  Bound: one more follows a reset.
Pixel == call = "240p" /\ UNCHANGED <<vioVars, mainVars>>

PixelSys == Pixel /\ (Sys \/ (entry[1] < MaxModes /\ Reset))
PixelRef == Pixel /\ RefEdge

Booted ==
    /\ call = "240p" /\ entry = <<MaxModes, N>> /\ cpu.st = "rest" /\ Drained
    /\ call' = "loop"
    /\ UNCHANGED <<vars, vioVars, mode, video_mode_desc>>

\* The menu calls hdmi_set_mode.
SetHdmi ==
    /\ call = "loop" /\ call' = "hdmi"
    /\ mode < Modes /\ mode' = mode + 1 /\ todo' = Program(mode')
    /\ UNCHANGED <<vars, port, vio_override, timing, lowlat, custom, pllVars, hps, events,
                   video_mode_desc>>

\* The next write of the firmware, and the other side of the HDMI registers.  That does
\* not touch the port, so nothing is left out if it moves only while the next write
\* does more than to prepare the port.
Alone == call # "240p" /\ UNCHANGED <<vars, mainVars>>
Prepares ==
    todo # <<>> /\ (~vio_has_cmd \/ Head(todo) = Disable \/ (vio_cmd = SET_PLL /\ vio_cnt < 2))

MainBus == Alone /\ Bus
NextFrame == Alone /\ ~Prepares /\ Vsync
PllClock == Alone /\ ~Prepares /\ PllEdge
Adjust == Alone /\ ~Prepares /\ (AdjTune \/ AdjWrite)
Hps == Alone /\ ~Prepares /\ (HpsMode \/ HpsWord)

\* hdmi_set_mode returns, and the menu stores the name.
Applied ==
    /\ call = "hdmi" /\ todo = <<>> /\ call' = "loop"
    /\ video_mode_desc' = mode
    /\ UNCHANGED <<vars, vioVars, mode>>

\* A reset at any moment; the memory main finds is cleared, the registers are not.
ResetCore ==
    /\ call # "240p" /\ call' = "loop" /\ video_mode_desc' = 0
    /\ \E framework \in BOOLEAN : ResetPort(framework)
    /\ UNCHANGED <<vars, mode>>

HdmiNext ==
    \/ PixelSys \/ PixelRef \/ Booted
    \/ SetHdmi \/ MainBus \/ Applied \/ ResetCore
    \/ NextFrame \/ PllClock \/ Adjust \/ Hps

\* The clocks and the CPU run, the synchronisers work, both PLLs lock, and the
\* adjuster, whose pulses are counted from frames, has its turns.
HdmiFairness ==
    /\ SF_hdmiVars(Pixel /\ Sys)
    /\ SF_hdmiVars(PixelRef /\ visible' = Len(fifo') /\ locked' /\ (core' = "writing" => core # "writing"))
    /\ WF_hdmiVars(Booted \/ MainBus \/ Applied)
    /\ SF_hdmiVars(Adjust)
    /\ SF_hdmiVars(PllClock /\ hdmi_locked' /\ hdmi_core' # "writing")

HdmiSpec == HdmiInit /\ [][HdmiNext]_hdmiVars /\ HdmiFairness

----------------------------------------------------------------------------
Whole(set, k) == \A i \in Values : set[i] = k
Timed(k) == \A f \in 1..Fields : timing[f] = k

\* Every mode that is set on the pixel clock takes effect, after resets in the middle
\* of earlier ones (MiSTerLaggy.sv:312-323).
AllStarted == <>[](started = MaxModes)

\* While the menu names a mode, the HDMI output has the timing of that mode, whole, and
\* low latency: the HPS, whose resets may come at any moment, changes neither before
\* the name is gone too (hdmi.c:193-208, sys_top.v:380, 419, 544, main.c:250, 550).
ShownHolds == video_mode_desc # 0 /\ call # "hdmi" => Timed(video_mode_desc) /\ lowlat

\* A reconfiguration of the HDMI clock starts with all the parameters of one mode,
\* the one that the timing has; unless, while the parameters were written, a word of
\* the HPS, a reset or the adjuster came in between or the core was busy
\* (hdmi.c:193-212, sys_top.v:414-417, 556-566, 1107-1140, pll_hdmi_adj.vhd:243-425).
HdmiStartHasAll ==
    [][running' # running => hit' \/ \E k \in 0..Modes : Whole(running', k) /\ Timed(k)]_hdmiVars

\* A mode that the menu names takes effect, unless something came in between while its
\* parameters were written: at once, with the next frame of the HDMI output or, where
\* the core was busy and missed the start, with the next one that the adjuster makes
\* (sys_top.v:1110-1140, pll_hdmi_adj.vhd:303-425).
HdmiStarts ==
    video_mode_desc # 0 ~> Whole(running, video_mode_desc) \/ hit \/ video_mode_desc = 0

\* "On startup or after a reset, the core uses whatever video mode [...] you have
\* configured in your MiSTer INI file": while main shows "MiSTer Default", the HDMI
\* output does not have the timing of a mode that was applied, held against the HPS
\* (Readme.md:20, 28).
DefaultMode ==
    call = "loop" /\ video_mode_desc = 0 => ~(vio_override /\ \E k \in 1..Modes : Timed(k))
=============================================================================
