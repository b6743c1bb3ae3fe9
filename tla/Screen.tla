------------------------------- MODULE Screen -------------------------------
(***************************************************************************)
(* What is on the screen while a sample is taken: the two tilemap pages of *)
(* firmware/src/gfx.c, the main loop that flips and redraws them           *)
(* (firmware/src/main.c) and the frame starts of the video hardware.       *)
(*                                                                         *)
(* The flash is a palette write, visible at once wherever the page on      *)
(* display has the bars of the test pattern; the bars come onto the page   *)
(* behind and are displayed one flip later.  The sampling state machine is *)
(* the one of module Sampler with its times left open: a wait may end at   *)
(* any iteration.                                                          *)
(*                                                                         *)
(* DrawSamplingLit (of DrawSampling) and DrawMenuFront (of EndMenu) are    *)
(* mutants; nothing uses them.                                             *)
(***************************************************************************)
EXTENDS Naturals

VARIABLES
    pc,             \* where the main loop is
    mode, state,    \* main's MainMode, do_sampling's State
    vblank_new,     \* an interrupt for wait_vblank
    page_front,     \* the page on display
    page,           \* what each page holds: "blank", "partial" (half a menu), "pattern",
                    \* "menu" or "no_sensor"
    lit,            \* palette_ram[0x80] is 0xffff
    armed,          \* sample_seq # frame_seq: the next frame start is captured
    answer,         \* the sensor's capture against the frame's: "none", "early", "late"
    hdmi,           \* level 4 comes from the scaler's blank
    vblank          \* the core's blank

\* History.  settled: iterations since the mode last changed to MODE_SAMPLING, up
\* to 2.  disturbed: some of the time from arming to now was not the loop of
\* MODE_SAMPLING.  shown: the frame start captured was one of a lit pattern.
\* hidden: a later frame was not.
VARIABLES settled, disturbed, shown, hidden

pageVars == <<page_front, page>>
flashVars == <<lit, armed, answer>>
history == <<settled, disturbed, shown, hidden>>
screenVars == <<pc, mode, state, vblank_new, pageVars, flashVars, hdmi, vblank, history>>

Modes == {"MODE_SAMPLING", "MODE_MENU", "MODE_NO_SENSOR"}

\* After gfx_set_240p, before the loop.
ScreenInit ==
    /\ pc = "wait" /\ mode = "MODE_SAMPLING" /\ state = "ST_CLEAR"
    /\ vblank_new = FALSE
    /\ page_front = 1 /\ page = [p \in {0, 1} |-> "blank"]
    /\ lit = FALSE /\ armed = FALSE /\ answer = "none"
    /\ hdmi = FALSE /\ vblank = FALSE
    /\ settled = 0 /\ disturbed = FALSE /\ shown = FALSE /\ hidden = FALSE

PatternLit == lit /\ page[page_front] = "pattern"

----------------------------------------------------------------------------
Goes(from, to) == pc = from /\ pc' = to

\* gfx_pageflip: the page behind comes to the front.
gfx_pageflip == page_front' = 1 - page_front

\* What has been drawn since the flip: the page behind holds c.
Drawn(c) == page' = [page EXCEPT ![1 - page_front] = c]

Body == CASE mode = "MODE_SAMPLING" -> "sampling"
          [] mode = "MODE_MENU" -> "menu"
          [] mode = "MODE_NO_SENSOR" -> "no_sensor"

\* wait_vblank returns and the pages are flipped.
BeginFrame ==
    /\ vblank_new /\ vblank_new' = FALSE
    /\ Goes("wait", Body)
    /\ gfx_pageflip
    /\ settled' = IF mode # "MODE_SAMPLING" THEN 0 ELSE IF settled = 2 THEN 2 ELSE settled + 1
    /\ disturbed' = (disturbed \/ mode # "MODE_SAMPLING")
    /\ UNCHANGED <<mode, state, page, flashVars, hdmi, vblank, shown, hidden>>

\* The switch of do_sampling.  The last conjunct of each says what it leaves.
Quiet == UNCHANGED <<flashVars, disturbed, shown, hidden>>

Clear ==
    /\ state = "ST_CLEAR" /\ state' = "ST_WAIT_CLEAR"
    /\ lit' = FALSE
    /\ UNCHANGED <<armed, answer, disturbed, shown, hidden>>

WaitClear ==
    /\ state = "ST_WAIT_CLEAR" /\ state' \in {"ST_WAIT_CLEAR", "ST_START_SAMPLE"}
    /\ Quiet

StartSample ==
    /\ state = "ST_START_SAMPLE" /\ state' = "ST_WAIT_SAMPLE"
    /\ lit' = TRUE
    /\ armed' = TRUE /\ answer' = "none"
    /\ disturbed' = (settled < 2) /\ shown' = FALSE /\ hidden' = FALSE

\* It is too early, or a capture is not in, or the sample is missing.
NoNewSample ==
    /\ state = "ST_WAIT_SAMPLE" /\ state' \in {"ST_WAIT_SAMPLE", "ST_CLEAR"}
    /\ Quiet

\* record_new_sample: both captures are in, the sensor's after the frame's.
NewSample ==
    /\ state = "ST_WAIT_SAMPLE" /\ state' = "ST_CLEAR"
    /\ ~armed /\ answer = "late"
    /\ Quiet

Switch(case) ==
    /\ Goes("sampling", "draw")
    /\ case
    /\ UNCHANGED <<mode, vblank_new, pageVars, hdmi, vblank, settled>>

DrawSamplingLit ==
    /\ Goes("draw", "wait")
    /\ Drawn(IF lit THEN "pattern" ELSE "blank")
    /\ mode' \in Modes
    /\ UNCHANGED <<state, vblank_new, page_front, flashVars, hdmi, vblank, history>>

\* The rest of do_sampling draws the pattern; the gamepad and the sensor's
\* presence decide how to go on.
DrawSampling ==
    /\ Goes("draw", "wait")
    /\ Drawn("pattern")
    /\ mode' \in Modes
    /\ UNCHANGED <<state, vblank_new, page_front, flashVars, hdmi, vblank, history>>

\* draw_menu up to the Apply button.
BeginMenu ==
    /\ Goes("menu", "items")
    /\ Drawn("partial")
    /\ UNCHANGED <<mode, state, vblank_new, page_front, flashVars, hdmi, vblank, history>>

\* The Apply button: the new mode's gfx_set_240p flips the half-drawn page to
\* the front, and the rest of the menu goes to the page of the frame before.
Apply ==
    /\ Goes("items", "rest")
    /\ hdmi' = TRUE
    /\ gfx_pageflip
    /\ disturbed' = TRUE
    /\ UNCHANGED <<mode, state, vblank_new, page, flashVars, vblank, settled, shown, hidden>>

\* The rest of draw_menu, with the Apply button pressed or not.
EndApply ==
    /\ Goes("rest", "wait")
    /\ Drawn("menu")
    /\ mode' = "MODE_SAMPLING"
    /\ UNCHANGED <<state, vblank_new, page_front, flashVars, hdmi, vblank, history>>

DrawMenuFront ==
    /\ Goes("items", "wait")
    /\ page' = [page EXCEPT ![page_front] = "menu"]
    /\ mode' \in {"MODE_MENU", "MODE_SAMPLING"}
    /\ UNCHANGED <<state, vblank_new, page_front, flashVars, hdmi, vblank, history>>

EndMenu ==
    /\ Goes("items", "wait")
    /\ Drawn("menu")
    /\ mode' \in {"MODE_MENU", "MODE_SAMPLING"}
    /\ UNCHANGED <<state, vblank_new, page_front, flashVars, hdmi, vblank, history>>

DrawNoSensor ==
    /\ Goes("no_sensor", "wait")
    /\ Drawn("no_sensor")
    /\ mode' \in {"MODE_NO_SENSOR", "MODE_SAMPLING"}
    /\ UNCHANGED <<state, vblank_new, page_front, flashVars, hdmi, vblank, history>>

MainStep ==
    \/ BeginFrame
    \/ Switch(Clear) \/ Switch(WaitClear) \/ Switch(StartSample)
    \/ Switch(NoNewSample) \/ Switch(NewSample)
    \/ DrawSampling
    \/ BeginMenu \/ Apply \/ EndApply \/ EndMenu
    \/ DrawNoSensor

----------------------------------------------------------------------------
\* level4_handler, and what the frame that starts shows.
Level4 ==
    /\ armed' = FALSE
    /\ shown' = IF armed THEN PatternLit ELSE shown
    /\ hidden' = (hidden \/ (~armed /\ state = "ST_WAIT_SAMPLE" /\ ~PatternLit))

\* The core's blank begins: level2_handler.
BlankStart ==
    /\ ~vblank /\ vblank' = TRUE
    /\ vblank_new' = TRUE
    /\ UNCHANGED <<pc, mode, state, pageVars, flashVars, hdmi, history>>

\* It ends, and level 4 is requested if it is routed so.
BlankEnd ==
    /\ vblank /\ vblank' = FALSE
    /\ IF hdmi THEN UNCHANGED <<armed, shown, hidden>> ELSE Level4
    /\ UNCHANGED <<pc, mode, state, vblank_new, pageVars, lit, answer, hdmi, settled, disturbed>>

\* The scaler's blank ends, at any time of the core's frame.
HdmiBlankEnd ==
    /\ hdmi
    /\ Level4
    /\ UNCHANGED <<pc, mode, state, vblank_new, pageVars, lit, answer, hdmi, vblank, settled,
                   disturbed>>

\* level6_handler: the sensor sees the lit pattern.
SensorEdge ==
    /\ PatternLit
    /\ answer = "none" /\ answer' = IF armed THEN "early" ELSE "late"
    /\ UNCHANGED <<pc, mode, state, vblank_new, pageVars, lit, armed, hdmi, vblank, history>>

ScreenNext == MainStep \/ BlankStart \/ BlankEnd \/ HdmiBlankEnd \/ SensorEdge

ScreenSpec == ScreenInit /\ [][ScreenNext]_screenVars

----------------------------------------------------------------------------
\* A recorded latency counts from a frame that showed the pattern lit, and the
\* pattern stayed on display until the answer (main.c:389-393, 428-441, gfx.c:
\* 124-135), if the loop was and stayed in MODE_SAMPLING.
MeasuresPattern ==
    [][Switch(NewSample) => disturbed \/ (shown /\ ~hidden)]_screenVars

\* No frame shows a page that is being drawn (gfx.c:126-131), but for the one in
\* which new video settings are applied (main.c:243).
WholePages == page[page_front] = "partial" => hdmi /\ pc \in {"rest", "wait"}

\* Readme.md:14 promises the time from a flash of the pattern on the screen until
\* the sensor sees it: every recorded latency (main.c:416-417), menu visits or not,
\* counts from a frame that showed the pattern lit, and it stayed on display.
AlwaysMeasuresPattern == [][Switch(NewSample) => shown /\ ~hidden]_screenVars
=============================================================================
