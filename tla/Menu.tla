-------------------------------- MODULE Menu --------------------------------
(***************************************************************************)
(* The video configuration menu: draw_menu and the mode changes of the     *)
(* main loop (firmware/src/main.c), the immediate-mode menu it is built on *)
(* (gfx_begin_menu, gfx_menuitem_* in firmware/src/gfx.c) and the edge     *)
(* detection of the gamepad (firmware/src/input.c).                        *)
(*                                                                         *)
(* One action is one iteration of the main loop with what the gamepad and  *)
(* the sensor's presence pin read in it.  The menu keeps only the index of *)
(* the highlighted item and the number of items of the last frame; which   *)
(* items a frame has depends on the options as they are while it is drawn. *)
(*                                                                         *)
(* PressedHeld, ClampEarly, ClampNever and ResetNever are mutants of the   *)
(* definition that follows each; nothing uses them.                        *)
(***************************************************************************)
EXTENDS Integers, FiniteSets

CONSTANTS
    NumModes, NumRates,         \* lengths of hdmi_resolutions, hdmi_refresh_rates
    Wide,                       \* indices of the wide resolutions
    DefaultMode, DefaultRate,   \* selected when the menu is first opened
    MaxHeld                     \* bound: buttons down at once

ASSUME MenuAssumption ==
    /\ NumModes \in Nat /\ DefaultMode \in 0..(NumModes - 1) /\ Wide \subseteq 0..(NumModes - 1)
    /\ NumRates \in Nat /\ DefaultRate \in 0..(NumRates - 1)
    /\ MaxHeld \in Nat

Buttons == {"RIGHT", "LEFT", "DOWN", "UP", "OK", "BACK", "MENU"}
Modes == {"MODE_SAMPLING", "MODE_MENU", "MODE_NO_SENSOR"}
Options == [mode: 0..(NumModes - 1), rate: 0..(NumRates - 1), aspect: 0..1]

\* applied_mode_idx and its companions before anything is applied.
Unset == [mode |-> -1, rate |-> -1, aspect |-> -1]

VARIABLES
    gamepad,            \* buttons down at the last poll
    mode, new_mode,
    opts,               \* mode_idx, refresh_idx and aspect_idx
    applied,            \* and the applied_ ones
    test_position,
    index, count        \* of menuctx

\* What the video hardware was last set to: gfx_set_240p, hdmi_set_mode.
VARIABLE video

\* History: the item highlighted by the last frame of the menu; the number of
\* frames in a row that highlighted none.
VARIABLES item, blind

menuVars == <<opts, applied, test_position, index, count, video, item, blind>>
loopVars == <<gamepad, mode, new_mode, menuVars>>

Default == [mode |-> -1, rate |-> -1, wide |-> FALSE]

MenuInit ==
    /\ gamepad = {}
    /\ mode = "MODE_SAMPLING" /\ new_mode = TRUE
    /\ opts = [mode |-> 0, rate |-> 0, aspect |-> 0] /\ applied = Unset
    /\ test_position = 0
    /\ index = -1 /\ count = -1
    /\ video = Default
    /\ item = "none" /\ blind = 0

----------------------------------------------------------------------------
\* input_poll: what is down now and was not at the last poll.
PressedHeld(now) == now
Pressed(now) == now \ gamepad

\* gfx_begin_menu: the highlighted index for this frame.
Moved(p) == index - (IF "UP" \in p THEN 1 ELSE 0) + (IF "DOWN" \in p THEN 1 ELSE 0)

ClampEarly(i) == IF i >= count - 1 THEN 0 ELSE IF i < 0 THEN count - 1 ELSE i
ClampNever(i) == i
Clamp(i) == IF i >= count THEN 0 ELSE IF i < 0 THEN count - 1 ELSE i

\* gfx_menuitem_select_func: a step through n options, left or right.
Step(i, n, p) ==
    LET j == i + (IF "RIGHT" \in p THEN 1 ELSE 0) - (IF "LEFT" \in p THEN 1 ELSE 0)
    IN  IF j < 0 THEN n - 1 ELSE IF j >= n THEN 0 ELSE j

\* What draw_menu starts from when it is opened.
ResetNever == opts
Reset ==
    IF ~new_mode THEN opts
    ELSE IF applied # Unset THEN applied
    ELSE [mode |-> DefaultMode, rate |-> DefaultRate, aspect |-> 0]

\* Where a frame with the options o has its last items: the aspect ratio takes a
\* place only for a wide resolution, Apply only if something would change.
ApplyAt(o) == IF o.mode \in Wide THEN 3 ELSE 2
TestAt(o) == ApplyAt(o) + (IF o # applied THEN 1 ELSE 0)

\* The options after the selects; there is an aspect ratio only for a resolution
\* that the first select has left wide.
Selected(o, i, p) ==
    LET m == IF i = 0 THEN [o EXCEPT !.mode = Step(@, NumModes, p)] ELSE o
        r == IF i = 1 THEN [m EXCEPT !.rate = Step(@, NumRates, p)] ELSE m
    IN  IF r.mode \in Wide /\ i = 2 THEN [r EXCEPT !.aspect = Step(@, 2, p)] ELSE r

\* The name of item i of a frame that draws the options o.
ItemOf(o, i) ==
    IF i = 0 THEN "resolution"
    ELSE IF i = 1 THEN "rate"
    ELSE IF i = TestAt(o) THEN "test"
    ELSE IF i = 2 /\ o.mode \in Wide THEN "aspect"
    ELSE IF i = ApplyAt(o) THEN "apply"
    ELSE "none"

VideoOf(o) == [mode |-> o.mode, rate |-> o.rate, wide |-> o.mode \in Wide /\ o.aspect = 1]

\* draw_menu, with the buttons p just pressed.  Apply sets the video mode and
\* closes the menu.
draw_menu(p) ==
    LET i == Clamp(Moved(p))
        o == Selected(Reset, i, p)
        apply == ItemOf(o, i) = "apply" /\ "OK" \in p
        close == apply \/ p \intersect {"MENU", "BACK"} # {}
    IN  /\ index' = i
        /\ opts' = o
        /\ applied' = IF apply THEN o ELSE applied
        /\ video' = IF apply THEN VideoOf(o) ELSE video
        /\ test_position' = IF i = TestAt(o) THEN Step(test_position, 2, p) ELSE test_position
        /\ count' = TestAt(o) + 1
        /\ item' = ItemOf(o, i)
        /\ blind' = IF item' = "none" THEN blind + 1 ELSE 0
        /\ mode' = IF close THEN "MODE_SAMPLING" ELSE "MODE_MENU"
        /\ new_mode' = close

----------------------------------------------------------------------------
\* do_sampling, then the gamepad, then the sensor's pin.
SamplingFrame(p, sensor) ==
    /\ mode = "MODE_SAMPLING"
    /\ mode' = IF ~sensor THEN "MODE_NO_SENSOR"
               ELSE IF "MENU" \in p THEN "MODE_MENU" ELSE "MODE_SAMPLING"
    /\ new_mode' = (~sensor \/ "MENU" \in p)
    /\ UNCHANGED menuVars

MenuFrame(p) == mode = "MODE_MENU" /\ draw_menu(p)

NoSensorFrame(sensor) ==
    /\ mode = "MODE_NO_SENSOR"
    /\ mode' = IF sensor THEN "MODE_SAMPLING" ELSE mode
    /\ new_mode' = (sensor \/ new_mode)
    /\ UNCHANGED menuVars

MenuNext ==
    \E now \in SUBSET Buttons, sensor \in BOOLEAN :
        /\ Cardinality(now) <= MaxHeld
        /\ gamepad' = now
        /\ \/ SamplingFrame(Pressed(now), sensor)
           \/ MenuFrame(Pressed(now))
           \/ NoSensorFrame(sensor)

MenuSpec == MenuInit /\ [][MenuNext]_loopVars

----------------------------------------------------------------------------
\* What indexes hdmi_resolutions, hdmi_refresh_rates and aspects is in range
\* (main.c:222-241), and the menu's counts are those of its items.
MenuTypeOK ==
    /\ gamepad \subseteq Buttons /\ mode \in Modes /\ new_mode \in BOOLEAN
    /\ opts \in Options /\ applied \in Options \union {Unset}
    /\ test_position \in 0..1
    /\ index \in -2..4 /\ count \in {-1} \union 3..5

\* The menu may lose its highlight for one frame, when it is opened with fewer
\* items than it was left with or with UP as the very first key, but never for
\* two: the index of gfx_begin_menu recovers (gfx.c:243-245).
HighlightRecovers == blind <= 1

\* Without UP or DOWN the highlight stays on its item from one frame to the next,
\* though items come and go with the options (gfx.c:256-359, main.c:222-258).
HighlightStays ==
    [][mode = "MODE_MENU" /\ ~new_mode /\ mode' = "MODE_MENU" /\ item # "none"
            /\ {"UP", "DOWN"} \intersect (gamepad' \ gamepad) = {}
         => item' = item]_loopVars

\* The menu shows what the hardware is set to: whatever is selected and
\* abandoned, the settings it opens with are those of the current mode (main.c:
\* 202-216, 245-247).
OpensOnCurrent ==
    [][mode = "MODE_MENU" /\ new_mode /\ video # Default
            /\ {"LEFT", "RIGHT"} \intersect (gamepad' \ gamepad) = {}
         => VideoOf(opts') = video]_loopVars

\* A press acts once: a button that is held neither closes the menu it opened nor
\* applies anything (input.c:12-20, main.c:262-265, 575-579).
PressActsOnce ==
    [][(mode # mode' /\ "MODE_MENU" \in {mode, mode'}) \/ video # video'
         => {"MENU", "BACK", "OK"} \intersect (gamepad' \ gamepad) # {}]_loopVars
=============================================================================
