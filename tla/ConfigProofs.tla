---------------------------- MODULE ConfigProofs ----------------------------
(***************************************************************************)
(* The menu and what it programs.                                          *)
(*                                                                         *)
(* First the menu: its properties for every table of resolutions and       *)
(* refresh rates, whichever resolutions are wide and whatever is selected  *)
(* first.  Then the mode: what is programmed into a PLL is close to what   *)
(* was asked for, whatever the tables hold, and the timing of every mode a *)
(* monitor may have fits the registers.                                    *)
(***************************************************************************)
EXTENDS Menu, VideoMode, TLAPS

----------------------------------------------------------------------------
(* The menu. *)

\* What the menu opens with.
Opening == IF applied # Unset THEN applied ELSE [mode |-> DefaultMode, rate |-> DefaultRate, aspect |-> 0]

\* While the menu stays open the index is one of the items that the last frame drew.
\* A frame without a highlight has changed no option, so the next one has the same
\* items, even if the menu is closed and opened again.
MenuIInv ==
    /\ MenuTypeOK
    /\ blind \in 0..1
    /\ mode = "MODE_MENU" /\ ~new_mode => count = TestAt(opts) + 1 /\ item = ItemOf(opts, index)
    /\ blind = 1 => count = TestAt(opts) + 1 /\ opts = Opening
    /\ video = IF applied # Unset THEN VideoOf(applied) ELSE Default

----------------------------------------------------------------------------
USE MenuAssumption

\* A select stays in its table, and only LEFT and RIGHT move it.
LEMMA StepInRange ==
    ASSUME NEW n \in Nat, NEW i \in 0..(n - 1), NEW p
    PROVE  /\ Step(i, n, p) \in 0..(n - 1)
           /\ {"LEFT", "RIGHT"} \intersect p = {} => Step(i, n, p) = i
  BY DEF Step

\* Only the highlighted select changes.
LEMMA SelectedIs ==
    ASSUME NEW o \in Options, NEW i \in Int, NEW p
    PROVE  /\ Selected(o, i, p) \in Options
           /\ {"LEFT", "RIGHT"} \intersect p = {} => Selected(o, i, p) = o
           /\ i # 0 => Selected(o, i, p).mode = o.mode
           /\ i \notin 0..2 \/ (i = 2 /\ o.mode \notin Wide) => Selected(o, i, p) = o
  <1>1. /\ o.mode \in 0..(NumModes - 1) /\ o.rate \in 0..(NumRates - 1) /\ o.aspect \in 0..1
        /\ o = [o EXCEPT !.mode = o.mode] /\ o = [o EXCEPT !.rate = o.rate] /\ o = [o EXCEPT !.aspect = o.aspect]
    BY DEF Options
  <1> DEFINE s == IF i = 0 THEN [o EXCEPT !.mode = Step(o.mode, NumModes, p)] ELSE o
             r == IF i = 1 THEN [s EXCEPT !.rate = Step(s.rate, NumRates, p)] ELSE s
  <1>2. Selected(o, i, p) = IF r.mode \in Wide /\ i = 2 THEN [r EXCEPT !.aspect = Step(r.aspect, 2, p)] ELSE r
    BY DEF Selected
  <1>3. CASE i = 0
    <2>1. Selected(o, i, p) = [o EXCEPT !.mode = Step(o.mode, NumModes, p)]
      BY <1>2, <1>3
    <2>2. Step(o.mode, NumModes, p) \in 0..(NumModes - 1)
      BY <1>1, StepInRange
    <2>3. {"LEFT", "RIGHT"} \intersect p = {} => Step(o.mode, NumModes, p) = o.mode
      BY <1>1, StepInRange
    <2>4. [o EXCEPT !.mode = Step(o.mode, NumModes, p)] \in Options
      BY <2>2 DEF Options
    <2> QED
      BY <1>1, <1>3, <2>1, <2>3, <2>4
  <1>4. CASE i = 1
    <2>1. Selected(o, i, p) = [o EXCEPT !.rate = Step(o.rate, NumRates, p)]
      BY <1>2, <1>4
    <2>2. Step(o.rate, NumRates, p) \in 0..(NumRates - 1)
      BY <1>1, StepInRange
    <2>3. {"LEFT", "RIGHT"} \intersect p = {} => Step(o.rate, NumRates, p) = o.rate
      BY <1>1, StepInRange
    <2>4. [o EXCEPT !.rate = Step(o.rate, NumRates, p)] \in Options
      BY <2>2 DEF Options
    <2>5. [o EXCEPT !.rate = Step(o.rate, NumRates, p)].mode = o.mode
      BY DEF Options
    <2>6. {"LEFT", "RIGHT"} \intersect p = {} => Selected(o, i, p) = o
      BY <1>1, <2>1, <2>3
    <2>9. Selected(o, i, p).mode = o.mode /\ Selected(o, i, p) \in Options
      BY <2>1, <2>4, <2>5
    <2>10. ~(i \notin 0..2 \/ (i = 2 /\ o.mode \notin Wide))
      BY <1>4
    <2> QED
      BY <2>6, <2>9, <2>10
  <1>5. CASE i = 2 /\ o.mode \in Wide
    <2>1. Selected(o, i, p) = [o EXCEPT !.aspect = Step(o.aspect, 2, p)]
      BY <1>2, <1>5
    <2>7. 2 \in Nat /\ o.aspect \in 0..(2 - 1)
      BY <1>1
    <2>8. /\ Step(o.aspect, 2, p) \in 0..(2 - 1)
          /\ {"LEFT", "RIGHT"} \intersect p = {} => Step(o.aspect, 2, p) = o.aspect
      BY <2>7, StepInRange
    <2>2. Step(o.aspect, 2, p) \in 0..1
      BY <2>8
    <2>3. {"LEFT", "RIGHT"} \intersect p = {} => Step(o.aspect, 2, p) = o.aspect
      BY <2>8
    <2>4. [o EXCEPT !.aspect = Step(o.aspect, 2, p)] \in Options
      BY <2>2 DEF Options
    <2>5. [o EXCEPT !.aspect = Step(o.aspect, 2, p)].mode = o.mode
      BY DEF Options
    <2>6. {"LEFT", "RIGHT"} \intersect p = {} => Selected(o, i, p) = o
      BY <1>1, <2>1, <2>3
    <2>9. Selected(o, i, p).mode = o.mode /\ Selected(o, i, p) \in Options
      BY <2>1, <2>4, <2>5
    <2>10. ~(i \notin 0..2 \/ (i = 2 /\ o.mode \notin Wide))
      BY <1>5
    <2> QED
      BY <2>6, <2>9, <2>10
  <1>6. CASE i \notin 0..2 \/ (i = 2 /\ o.mode \notin Wide)
    BY <1>2, <1>6
  <1> QED
    BY <1>3, <1>4, <1>5, <1>6

\* The items of a frame are those from 0 to the test position.
LEMMA Items ==
    ASSUME NEW o, NEW i \in Int
    PROVE  TestAt(o) \in 2..4 /\ (ItemOf(o, i) = "none" <=> i \notin 0..TestAt(o))
  BY DEF TestAt, ApplyAt, ItemOf

\* What a frame of the menu starts from.
LEMMA Opened ==
    ASSUME MenuIInv, NEW p
    PROVE  /\ Reset \in Options /\ Opening \in Options
           /\ Reset = IF new_mode THEN Opening ELSE opts
           /\ Clamp(Moved(p)) \in -2..4
           /\ count # -1 => Clamp(Moved(p)) \in 0..(count - 1)
           /\ count # -1 /\ index \in 0..(count - 1) /\ {"UP", "DOWN"} \intersect p = {} => Clamp(Moved(p)) = index
  <1>1. opts \in Options /\ applied \in Options \union {Unset} /\ new_mode \in BOOLEAN
    BY DEF MenuIInv, MenuTypeOK
  <1>2. [mode |-> DefaultMode, rate |-> DefaultRate, aspect |-> 0] \in Options
    BY DEF Options
  <1>3. Opening \in Options
    BY <1>1, <1>2 DEF Opening
  <1>4. Reset = IF new_mode THEN Opening ELSE opts
    BY <1>1 DEF Reset, Opening
  <1>5. index \in -2..4 /\ count \in {-1} \union 3..5
    BY DEF MenuIInv, MenuTypeOK
  <1>6. Moved(p) \in {index - 1, index, index + 1} /\ ({"UP", "DOWN"} \intersect p = {} => Moved(p) = index)
    BY <1>5 DEF Moved
  <1>7. /\ Clamp(Moved(p)) \in -2..4
        /\ count # -1 => Clamp(Moved(p)) \in 0..(count - 1)
        /\ count # -1 /\ index \in 0..(count - 1) /\ {"UP", "DOWN"} \intersect p = {} => Clamp(Moved(p)) = index
    BY <1>5, <1>6 DEF Clamp
  <1> QED
    BY <1>1, <1>3, <1>4, <1>7

\* What it leaves.
LEMMA FrameLeaves ==
    ASSUME MenuIInv, NEW p, draw_menu(p)
    PROVE  /\ opts' \in Options /\ index' = Clamp(Moved(p)) /\ opts' = Selected(Reset, index', p)
           /\ item' = ItemOf(opts', index') /\ count' = TestAt(opts') + 1
           /\ test_position' \in 0..1 /\ mode' \in Modes /\ new_mode' \in BOOLEAN
           /\ \/ applied' = applied /\ video' = video
              \/ /\ applied' = opts' /\ video' = VideoOf(opts')
                 /\ mode' = "MODE_SAMPLING" /\ new_mode' /\ item' = "apply" /\ "OK" \in p
           /\ blind' = IF item' = "none" THEN blind + 1 ELSE 0
           /\ mode' = "MODE_MENU" => ~new_mode'
           /\ mode' # "MODE_MENU" => p \intersect {"MENU", "BACK", "OK"} # {}
  <1> DEFINE i == Clamp(Moved(p))
             o == Selected(Reset, i, p)
             apply == ItemOf(o, i) = "apply" /\ "OK" \in p
             close == apply \/ p \intersect {"MENU", "BACK"} # {}
  <1>1. /\ index' = i /\ opts' = o /\ count' = TestAt(o) + 1 /\ item' = ItemOf(o, i)
        /\ applied' = (IF apply THEN o ELSE applied) /\ video' = (IF apply THEN VideoOf(o) ELSE video)
        /\ test_position' = (IF i = TestAt(o) THEN Step(test_position, 2, p) ELSE test_position)
        /\ blind' = (IF item' = "none" THEN blind + 1 ELSE 0)
        /\ mode' = (IF close THEN "MODE_SAMPLING" ELSE "MODE_MENU") /\ new_mode' = close
    BY DEF draw_menu
  <1>2. i \in Int /\ Reset \in Options
    BY Opened
  <1>3. o \in Options
    BY <1>2, SelectedIs
  <1>4. test_position' \in 0..1
    <2>1. 2 \in Nat /\ test_position \in 0..(2 - 1)
      BY DEF MenuIInv, MenuTypeOK
    <2>2. Step(test_position, 2, p) \in 0..(2 - 1)
      BY <2>1, StepInRange
    <2> QED
      BY <1>1, <2>1, <2>2
  <1> HIDE DEF o, i
  <1>5. mode' \in Modes /\ new_mode' \in BOOLEAN
    BY <1>1 DEF Modes
  <1>6. \/ applied' = applied /\ video' = video
        \/ /\ applied' = opts' /\ video' = VideoOf(opts')
           /\ mode' = "MODE_SAMPLING" /\ new_mode' /\ item' = "apply" /\ "OK" \in p
    BY <1>1, Zenon
  <1>7. /\ mode' = "MODE_MENU" => ~new_mode'
        /\ mode' # "MODE_MENU" => p \intersect {"MENU", "BACK", "OK"} # {}
    BY <1>1, Zenon
  <1> USE DEF o, i
  <1> QED
    BY <1>1, <1>3, <1>4, <1>5, <1>6, <1>7

----------------------------------------------------------------------------
LEMMA MenuInitInv == MenuInit => MenuIInv
  <1> SUFFICES ASSUME MenuInit PROVE MenuIInv
    OBVIOUS
  <1>1. opts \in Options
    BY DEF MenuInit, Options
  <1> QED
    BY <1>1 DEF MenuInit, MenuIInv, MenuTypeOK, Modes, Buttons

LEMMA MenuInv == ASSUME MenuIInv, NEW p, MenuFrame(p), gamepad' \subseteq Buttons PROVE MenuIInv'
  <1> USE DEF MenuFrame
  <1>1. /\ opts' \in Options /\ opts' = Selected(Reset, index', p)
        /\ item' = ItemOf(opts', index') /\ count' = TestAt(opts') + 1
        /\ test_position' \in 0..1 /\ mode' \in Modes /\ new_mode' \in BOOLEAN
        /\ \/ applied' = applied /\ video' = video
           \/ /\ applied' = opts' /\ video' = VideoOf(opts')
              /\ mode' = "MODE_SAMPLING" /\ item' = "apply"
        /\ blind' = IF item' = "none" THEN blind + 1 ELSE 0
    BY FrameLeaves
  <1>2. /\ Reset \in Options /\ Reset = (IF new_mode THEN Opening ELSE opts)
        /\ index' \in -2..4 /\ (count # -1 => index' \in 0..(count - 1))
    <2>1. index' = Clamp(Moved(p))
      BY FrameLeaves
    <2> QED
      BY <2>1, Opened
  <1>3. TestAt(opts') \in 2..4 /\ (item' = "none" => index' \notin 0..TestAt(opts'))
    BY <1>1, <1>2, Items
  <1>4. item' = "none" => opts' = Reset
    BY <1>1, <1>2, <1>3, SelectedIs
  <1>5. blind = 1 \/ ~new_mode => item' # "none"
    <2> SUFFICES ASSUME blind = 1 \/ ~new_mode, item' = "none" PROVE FALSE
      OBVIOUS
    <2>1. count = TestAt(opts) + 1 /\ Reset = opts
      BY <1>2 DEF MenuIInv
    <2>2. TestAt(opts) \in 2..4
      BY Items, <1>2
    <2>3. index' \in 0..TestAt(opts)
      BY <1>2, <2>1, <2>2
    <2> QED
      BY <1>3, <1>4, <2>1, <2>3
  <1>6. item' = "none" => applied' = applied /\ video' = video
    BY <1>1
  <1>7. applied' = applied => /\ TestAt(opts)' = TestAt(opts') /\ Opening' = Opening
                              /\ ItemOf(opts, index)' = ItemOf(opts', index')
    BY DEF TestAt, ApplyAt, ItemOf, Opening
  <1>8. blind' \in 0..1
    BY <1>1, <1>5 DEF MenuIInv
  <1>9. mode' = "MODE_MENU" /\ ~new_mode' => count' = TestAt(opts)' + 1 /\ item' = ItemOf(opts, index)'
    BY <1>1, <1>7
  <1>10. blind' = 1 => count' = TestAt(opts)' + 1 /\ opts' = Opening'
    BY <1>1, <1>2, <1>4, <1>5, <1>6, <1>7
  <1>11. video' = IF applied' # Unset THEN VideoOf(applied)' ELSE Default
    <2>1. opts' # Unset
      BY <1>1 DEF Options, Unset
    <2> QED
      BY <1>1, <2>1 DEF MenuIInv, VideoOf
  <1>12. MenuTypeOK'
    <2>1. count' \in 3..5
      BY <1>1, <1>3
    <2> QED
      BY <1>1, <1>2, <2>1 DEF MenuIInv, MenuTypeOK
  <1> QED
    BY <1>8, <1>9, <1>10, <1>11, <1>12 DEF MenuIInv

LEMMA MenuNextInv == MenuIInv /\ [MenuNext]_loopVars => MenuIInv'
  <1> SUFFICES ASSUME MenuIInv, [MenuNext]_loopVars PROVE MenuIInv'
    OBVIOUS
  <1>1. CASE UNCHANGED loopVars
    BY <1>1 DEF MenuIInv, MenuTypeOK, loopVars, menuVars, TestAt, ApplyAt, ItemOf, Opening, VideoOf
  <1>2. CASE MenuNext
    <2> PICK now \in SUBSET Buttons, sensor \in BOOLEAN :
               /\ gamepad' = now
               /\ SamplingFrame(Pressed(now), sensor) \/ MenuFrame(Pressed(now)) \/ NoSensorFrame(sensor)
      BY <1>2 DEF MenuNext
    <2>1. CASE MenuFrame(Pressed(now))
      BY <2>1, MenuInv
    <2>2. ASSUME UNCHANGED menuVars, mode' \in Modes, new_mode' \in BOOLEAN, mode' = "MODE_MENU" => new_mode'
          PROVE  MenuIInv'
      <3>1. MenuTypeOK'
        BY <2>2 DEF MenuIInv, MenuTypeOK, menuVars
      <3>2. TestAt(opts)' = TestAt(opts) /\ Opening' = Opening /\ VideoOf(applied)' = VideoOf(applied)
        BY <2>2 DEF menuVars, TestAt, ApplyAt, Opening, VideoOf
      <3> QED
        BY <2>2, <3>1, <3>2 DEF MenuIInv, menuVars
    <2>3. CASE SamplingFrame(Pressed(now), sensor)
      BY <2>2, <2>3 DEF SamplingFrame, Modes
    <2>4. CASE NoSensorFrame(sensor)
      <3>1. new_mode' \in BOOLEAN
        BY <2>4 DEF NoSensorFrame
      <3> QED
        BY <2>2, <2>4, <3>1 DEF NoSensorFrame, Modes
    <2> QED
      BY <2>1, <2>3, <2>4
  <1> QED
    BY <1>1, <1>2

LEMMA MenuInvariance == MenuSpec => []MenuIInv
  BY MenuInitInv, MenuNextInv, PTL DEF MenuSpec

----------------------------------------------------------------------------
\* For every table, the menu has lost its highlight by the next frame at most once in
\* a row (gfx.c:243-245).
THEOREM AlwaysRecovers == MenuSpec => []HighlightRecovers
  <1>1. MenuIInv => HighlightRecovers
    BY DEF MenuIInv, HighlightRecovers
  <1> QED
    BY <1>1, MenuInvariance, PTL

\* For every table, the highlight stays on its item while items come and go
\* (gfx.c:256-359, main.c:222-258).
THEOREM AlwaysStays == MenuSpec => HighlightStays
  <1> DEFINE Stays == mode = "MODE_MENU" /\ ~new_mode /\ mode' = "MODE_MENU" /\ item # "none"
                         /\ {"UP", "DOWN"} \intersect (gamepad' \ gamepad) = {}
                      => item' = item
  <1>1. MenuIInv /\ [MenuNext]_loopVars => [Stays]_loopVars
    <2> SUFFICES ASSUME MenuIInv, MenuNext, mode = "MODE_MENU", ~new_mode, item # "none",
                        {"UP", "DOWN"} \intersect (gamepad' \ gamepad) = {}
                 PROVE  item' = item
      OBVIOUS
    <2> DEFINE p == gamepad' \ gamepad
    <2>1. draw_menu(p)
      BY DEF MenuNext, SamplingFrame, MenuFrame, NoSensorFrame, Pressed
    <2>2. /\ count = TestAt(opts) + 1 /\ item = ItemOf(opts, index) /\ opts \in Options
          /\ index \in Int /\ count # -1
      BY DEF MenuIInv, MenuTypeOK, TestAt, ApplyAt
    <2>3. index \in 0..(count - 1)
      BY <2>2, Items
    <2>4. index' = Clamp(Moved(p)) /\ opts' = Selected(Reset, index', p) /\ item' = ItemOf(opts', index')
      BY <2>1, FrameLeaves
    <2>5. Reset = opts /\ Clamp(Moved(p)) = index
      BY <2>2, <2>3, Opened
    <2>6. index' = index /\ opts' = Selected(opts, index, p)
      BY <2>4, <2>5
    <2>7. CASE index \in 0..1
      BY <2>2, <2>4, <2>6, <2>7 DEF ItemOf
    <2>8. CASE index = 2 /\ opts.mode \in Wide
      <3>1. opts'.mode = opts.mode
        BY <2>2, <2>6, <2>8, SelectedIs
      <3> QED
        BY <2>2, <2>4, <2>6, <2>8, <3>1 DEF ItemOf, TestAt, ApplyAt
    <2>9. CASE index \notin 0..2 \/ (index = 2 /\ opts.mode \notin Wide)
      <3>1. opts' = opts
        BY <2>2, <2>6, <2>9, SelectedIs
      <3> QED
        BY <2>2, <2>4, <2>6, <3>1
    <2> QED
      BY <2>2, <2>7, <2>8, <2>9
  <1> QED
    BY <1>1, MenuInvariance, PTL DEF MenuSpec, HighlightStays

\* For every table, the menu opens on the settings the hardware has (main.c:202-216,
\* 245-247).
THEOREM AlwaysOpensOnCurrent == MenuSpec => OpensOnCurrent
  <1> DEFINE Opens == mode = "MODE_MENU" /\ new_mode /\ video # Default
                         /\ {"LEFT", "RIGHT"} \intersect (gamepad' \ gamepad) = {}
                      => VideoOf(opts') = video
  <1>1. MenuIInv /\ [MenuNext]_loopVars => [Opens]_loopVars
    <2> SUFFICES ASSUME MenuIInv, MenuNext, mode = "MODE_MENU", new_mode, video # Default,
                        {"LEFT", "RIGHT"} \intersect (gamepad' \ gamepad) = {}
                 PROVE  VideoOf(opts') = video
      OBVIOUS
    <2> DEFINE p == gamepad' \ gamepad
    <2>1. draw_menu(p)
      BY DEF MenuNext, SamplingFrame, MenuFrame, NoSensorFrame, Pressed
    <2>2. applied # Unset /\ video = VideoOf(applied)
      BY DEF MenuIInv
    <2>3. Reset = applied /\ Reset \in Options /\ Clamp(Moved(p)) \in Int
      BY <2>2, Opened DEF Opening
    <2>4. opts' = Selected(Reset, Clamp(Moved(p)), p)
      BY <2>1, FrameLeaves
    <2>5. opts' = applied
      BY <2>3, <2>4, SelectedIs
    <2> QED
      BY <2>2, <2>5
  <1> QED
    BY <1>1, MenuInvariance, PTL DEF MenuSpec, OpensOnCurrent

\* For every table, only a press opens or closes the menu or sets the video: a button
\* that is held does neither (input.c:12-20, main.c:262-265, 575-579).
THEOREM AlwaysActsOnce == MenuSpec => PressActsOnce
  <1> DEFINE Acts == (mode # mode' /\ "MODE_MENU" \in {mode, mode'}) \/ video # video'
                     => {"MENU", "BACK", "OK"} \intersect (gamepad' \ gamepad) # {}
  <1>1. MenuIInv /\ [MenuNext]_loopVars => [Acts]_loopVars
    <2> SUFFICES ASSUME MenuIInv, MenuNext, (mode # mode' /\ "MODE_MENU" \in {mode, mode'}) \/ video # video'
                 PROVE  {"MENU", "BACK", "OK"} \intersect (gamepad' \ gamepad) # {}
      OBVIOUS
    <2> DEFINE p == gamepad' \ gamepad
    <2> PICK sensor \in BOOLEAN : SamplingFrame(p, sensor) \/ MenuFrame(p) \/ NoSensorFrame(sensor)
      BY DEF MenuNext, Pressed
    <2>1. CASE SamplingFrame(p, sensor)
      BY <2>1 DEF SamplingFrame, menuVars
    <2>2. CASE MenuFrame(p)
      <3>1. /\ mode' # "MODE_MENU" => p \intersect {"MENU", "BACK", "OK"} # {}
            /\ video' = video \/ "OK" \in p
        BY <2>2, FrameLeaves, Zenon DEF MenuFrame
      <3>2. mode = "MODE_MENU"
        BY <2>2 DEF MenuFrame
      <3> QED
        BY <3>1, <3>2, Zenon
    <2>3. CASE NoSensorFrame(sensor)
      BY <2>3 DEF NoSensorFrame, menuVars
    <2> QED
      BY <2>1, <2>2, <2>3
  <1> QED
    BY <1>1, MenuInvariance, PTL DEF MenuSpec, PressActsOnce
----------------------------------------------------------------------------
(* The timing of a mode. *)

LEMMA DivMod ==
    ASSUME NEW d \in Nat, d > 0, NEW v \in Nat
    PROVE  /\ v \div d \in Nat /\ v % d \in 0..(d - 1)
           /\ v = d * (v \div d) + (v % d)
  <1>1. v = d * (v \div d) + (v % d)
    OBVIOUS
  <1>2. v % d \in 0..(d - 1)
    OBVIOUS
  <1>3. v \div d \in Nat
    OBVIOUS
  <1> QED
    BY <1>1, <1>2, <1>3

\* The lines of a frame with the front porch, and bounds of its blanking and sync.
Frames == {l \in Nat : 200 <= l /\ l <= 3603}
Blanks == 1..212
Syncs == 4..10

Intervals == {460, 550}

LEMMA WidthIs == ASSUME NEW w \in Widths PROVE w \in Nat /\ 160 <= w /\ w <= 2800
  BY SMT DEF Widths

LEMMA HeightIs == ASSUME NEW h \in Heights PROVE h \in Nat /\ 200 <= h /\ h <= 3600
  BY SMT DEF Heights

LEMMA RateIs == ASSUME NEW hz \in Rates PROVE hz \in Nat /\ 1 <= hz /\ hz <= 100
  BY SMT DEF Rates

LEMMA FrameIs == ASSUME NEW l \in Frames PROVE l \in Nat /\ 200 <= l /\ l <= 3603
  BY SMT DEF Frames

LEMMA LinesAreFrames == ASSUME NEW h \in Heights PROVE h \in Frames /\ h + 3 \in Frames
  <1>1. h \in Nat /\ 200 <= h /\ h <= 3600
    BY HeightIs
  <1> QED
    BY <1>1, SMT DEF Frames

LEMMA InField == ASSUME NEW n \in Int, 1 <= n, n <= 4095 PROVE n \in Field
  BY SMT DEF Field

LEMMA IsShort ==
    ASSUME NEW active \in Int, NEW front \in Int, NEW sync \in Int, NEW back \in Int,
           active + front + sync + back < 4096
    PROVE  Short(active, front, sync, back)
  BY SMT DEF Short

\* A quotient is the greatest number of times.
LEMMA Quotient ==
    ASSUME NEW d \in Nat, d > 0, NEW v \in Nat
    PROVE  /\ v \div d \in Nat /\ d * (v \div d) <= v /\ v < d * (v \div d) + d
           /\ \A q \in Nat : d * q <= v => q <= v \div d
  <1>1. PICK s, r : s = v \div d /\ r = v % d
    OBVIOUS
  <1>2. s \in Nat /\ r \in 0..(d - 1) /\ v = d * s + r
    BY <1>1, DivMod
  <1>3. d * s \in Nat
    BY <1>2
  <1>4. d * s <= v /\ v < d * s + d
    BY <1>2, <1>3
  <1>5. ASSUME NEW q \in Nat, d * q <= v, q >= s + 1 PROVE FALSE
    <2>1. d * q >= d * (s + 1)
      BY <1>2, <1>5
    <2>2. d * (s + 1) = d * s + d /\ d * q \in Nat
      BY <1>2
    <2> QED
      BY <1>3, <1>4, <1>5, <2>1, <2>2
  <1>6. \A q \in Nat : d * q <= v => q <= s
    BY <1>2, <1>5
  <1> QED
    BY <1>1, <1>2, <1>4, <1>6, Zenon

\* The horizontal blanking in units of 8 pixels: never less than a 32nd of the line,
\* the least duty cycle, and at most 46% of it.
LEMMA BlankBounds ==
    ASSUME NEW w \in Widths, NEW l \in Frames, NEW hz \in Rates
    PROVE  \E b \in Nat : HBlank(w, l, hz) = 8 * b /\ w \div 32 <= b /\ 800 * b <= 46 * w
  <1> w \in Nat /\ 160 <= w /\ w <= 2800
    BY WidthIs, SMT
  <1> l \in Nat /\ 200 <= l /\ l <= 3603
    BY FrameIs, SMT
  <1> hz \in Nat /\ 1 <= hz /\ hz <= 100
    BY RateIs, SMT
  <1>1. PICK x \in Nat : x = l * hz
    BY SMT
  <1>2. x >= 200 * hz
    BY <1>1, SMT
  <1>3. PICK duty \in Int : duty = 6 * x + 33 * hz - 60000
    BY <1>1
  <1>4. Duty(l, hz) = duty
    <2>1. 6 * l * hz = 6 * x
      BY <1>1
    <2> QED
      BY <1>3, <2>1 DEF Duty
  <1>5. 4 * l * hz = 4 * x /\ 20 * l * hz = 20 * x
    BY <1>1
  <1>6. PICK k \in Nat : k = w \div 32
    OBVIOUS
  <1>7. 32 * k <= w /\ w < 32 * k + 32
    BY <1>6
  <1>8. CASE duty < 4 * x
    <2>1. HBlank(w, l, hz) = 8 * k
      BY <1>4, <1>5, <1>6, <1>8 DEF HBlank
    <2>2. 800 * k <= 46 * w
      BY <1>7
    <2> QED
      BY <1>6, <2>1, <2>2
  <1>9. CASE duty >= 4 * x
    <2>1. PICK d \in Int : d = 20 * x - duty
      BY <1>1, <1>3
    <2>2. duty \in Nat /\ d \in Nat /\ d > 0 /\ 4 * duty >= d /\ 100 * duty <= 46 * d
      BY <1>1, <1>2, <1>3, <1>9, <2>1
    <2>3. PICK num, den : num = w * duty /\ den = 8 * d
      OBVIOUS
    <2>4. num \in Nat /\ den \in Nat /\ den > 0
      BY <2>2, <2>3
    <2>5. PICK b : b = num \div den
      OBVIOUS
    <2>6. b \in Nat /\ den * b <= num /\ \A q \in Nat : den * q <= num => q <= b
      BY <2>4, <2>5, Quotient
    <2>7. HBlank(w, l, hz) = 8 * b
      <3>1. ~(duty < 4 * x)
        BY <1>1, <1>9
      <3>2. ~(Duty(l, hz) < 4 * l * hz)
        BY <1>4, <1>5, <3>1
      <3>3. HBlank(w, l, hz) = 8 * ((w * Duty(l, hz)) \div (8 * (20 * l * hz - Duty(l, hz))))
        BY <3>2 DEF HBlank
      <3>4. w * Duty(l, hz) = num /\ 8 * (20 * l * hz - Duty(l, hz)) = den
        BY <1>4, <1>5, <2>1, <2>3
      <3> QED
        BY <2>5, <3>3, <3>4
    <2>8. k <= b
      <3>1. 32 * (k * d) <= w * d
        BY <1>7, <2>2
      <3>2. w * d <= w * (4 * duty)
        BY <2>2
      <3>3. w * (4 * duty) = 4 * num /\ den * k = 8 * (k * d)
        BY <2>2, <2>3
      <3>4. PICK kd, wd, dk : kd = k * d /\ wd = w * d /\ dk = den * k
        OBVIOUS
      <3>5. kd \in Nat /\ wd \in Nat
        BY <2>2, <3>4
      <3>6. 32 * kd <= wd /\ wd <= 4 * num /\ dk = 8 * kd
        BY <3>1, <3>2, <3>3, <3>4
      <3>7. dk <= num
        BY <2>4, <3>5, <3>6
      <3> QED
        BY <2>6, <3>4, <3>7
    <2>9. 800 * b <= 46 * w
      <3> SUFFICES ASSUME 800 * b >= 46 * w + 1 PROVE FALSE
        BY <2>6
      <3>1. d * (800 * b) >= d * (46 * w + 1)
        BY <2>2, <2>6
      <3>2. d * (800 * b) = 100 * (den * b) /\ d * (46 * w + 1) = 46 * (w * d) + d
        BY <2>2, <2>3, <2>6
      <3>3. w * (100 * duty) <= w * (46 * d)
        BY <2>2
      <3>4. w * (100 * duty) = 100 * num /\ w * (46 * d) = 46 * (w * d)
        BY <2>2, <2>3
      <3>5. PICK wd, db : wd = w * d /\ db = den * b
        OBVIOUS
      <3>6. wd \in Nat /\ db \in Nat
        BY <2>2, <2>4, <2>6, <3>5
      <3>7. 100 * db >= 46 * wd + d
        BY <3>1, <3>2, <3>5
      <3>8. 100 * num <= 46 * wd /\ db <= num
        BY <2>6, <3>3, <3>4, <3>5
      <3> QED
        BY <2>2, <2>4, <3>6, <3>7, <3>8
    <2> QED
      BY <1>6, <2>6, <2>7, <2>8, <2>9
  <1> QED
    BY <1>1, <1>3, <1>8, <1>9

\* Lines of the vertical blanking: at most a 17th of the frame, and one.
LEMMA BlankLinesBounds ==
    ASSUME NEW us \in Intervals, NEW l \in Frames, NEW hz \in Rates
    PROVE  BlankLines(us, l, hz) \in Blanks
  <1> l \in Nat /\ 200 <= l /\ l <= 3603
    BY FrameIs, SMT
  <1> hz \in Nat /\ 1 <= hz /\ hz <= 100
    BY RateIs, SMT
  <1> us \in {460, 550}
    BY SMT DEF Intervals
  <1>1. PICK num, den : num = us * l * hz /\ den = 1000000 - us * hz
    OBVIOUS
  <1>2. us * hz \in Nat /\ us * hz <= 55000
    OBVIOUS
  <1>3. den \in Nat /\ den >= 945000
    BY <1>1, <1>2
  <1>4. num = (us * hz) * l
    BY <1>1
  <1>5. (us * hz) * l <= 55000 * l
    BY <1>2
  <1>6. num \in Nat /\ num <= 55000 * l
    BY <1>2, <1>4, <1>5
  <1>7. PICK b : b = num \div den
    OBVIOUS
  <1>8. b \in Nat /\ den * b <= num
    BY <1>3, <1>6, <1>7, Quotient
  <1>9. 945000 * b <= den * b
    BY <1>3, <1>8
  <1>10. 945000 * b <= 55000 * l
    BY <1>3, <1>6, <1>8, <1>9
  <1>11. b <= 211
    <2>1. 55000 * l <= 55000 * 3603
      OBVIOUS
    <2>2. 945000 * b < 945000 * 210
      BY <1>8, <1>10, <2>1, SMT
    <2> QED
      BY <1>8, <2>2, SMT
  <1>12. BlankLines(us, l, hz) = b + 1
    <2>1. (us * l * hz) \div (1000000 - us * hz) = b
      BY <1>1, <1>7, SMT
    <2>2. BlankLines(us, l, hz) = (us * l * hz) \div (1000000 - us * hz) + 1
      BY SMT DEF BlankLines
    <2> QED
      BY <2>1, <2>2, SMT
  <1> QED
    BY <1>8, <1>11, <1>12, SMT DEF Blanks

\* The width of the vertical sync.
LEMMA VSyncBounds ==
    ASSUME NEW w \in Nat, NEW h \in Nat
    PROVE  determine_vsync(w, h) \in Syncs
  <1> DEFINE ratios == <<<<4, 3, 4>>, <<16, 9, 5>>, <<16, 10, 6>>, <<5, 4, 7>>, <<15, 9, 7>>>>
             fits == {i \in 1..5 : ((h * ratios[i][1]) \div (ratios[i][2] * 4)) * 4 = w}
             least == CHOOSE i \in fits : \A j \in fits : i <= j
  <1>1. determine_vsync(w, h) = IF fits = {} THEN 10 ELSE ratios[least][3]
    BY Zenon DEF determine_vsync
  <1>2. \A i \in 1..5 : ratios[i][3] \in Syncs
    BY DEF Syncs
  <1>3. fits \subseteq 1..5
    BY Zenon
  <1>4. fits # {} => least \in fits
    <2> SUFFICES ASSUME fits # {} PROVE \E i \in fits : \A j \in fits : i <= j
      BY Zenon
    <2> HIDE DEF fits
    <2>1. CASE 1 \in fits
      BY <1>3, <2>1
    <2>2. CASE 1 \notin fits /\ 2 \in fits
      BY <1>3, <2>2
    <2>3. CASE 1 \notin fits /\ 2 \notin fits /\ 3 \in fits
      BY <1>3, <2>3
    <2>4. CASE 1 \notin fits /\ 2 \notin fits /\ 3 \notin fits /\ 4 \in fits
      BY <1>3, <2>4
    <2>5. CASE 1 \notin fits /\ 2 \notin fits /\ 3 \notin fits /\ 4 \notin fits
      <3>1. \A i \in fits : i = 5
        BY <1>3, <2>5
      <3>2. 5 <= 5
        OBVIOUS
      <3> QED
        BY <3>1, <3>2, Zenon
    <2> QED
      BY <2>1, <2>2, <2>3, <2>4, <2>5, Zenon
  <1> HIDE DEF ratios, fits, least
  <1>5. fits # {} => ratios[least][3] \in Syncs
    BY <1>2, <1>3, <1>4, Zenon
  <1>6. 10 \in Syncs
    BY DEF Syncs
  <1> QED
    BY <1>1, <1>5, <1>6, Zenon

LEMMA U16Is == ASSUME NEW n \in Field PROVE U16(n) = n
  BY SMT DEF U16, Field

\* The fields of a line or of a frame.
Spans(active, front, sync, back) ==
    /\ active \in Field /\ front \in Field /\ sync \in Field /\ back \in Field
    /\ Short(active, front, sync, back)

LEMMA FieldsFit ==
    ASSUME NEW hact, NEW hfp, NEW hs, NEW hbp, NEW vact, NEW vfp, NEW vs, NEW vbp,
           Spans(hact, hfp, hs, hbp), Spans(vact, vfp, vs, vbp)
    PROVE  Fits([hact |-> hact, hfp |-> hfp, hs |-> hs, hbp |-> hbp,
                 vact |-> vact, vfp |-> vfp, vs |-> vs, vbp |-> vbp])
  <1>1. PICK t : t = [hact |-> hact, hfp |-> hfp, hs |-> hs, hbp |-> hbp,
                      vact |-> vact, vfp |-> vfp, vs |-> vs, vbp |-> vbp]
    BY Zenon
  <1>2. /\ t.hact = hact /\ t.hfp = hfp /\ t.hs = hs /\ t.hbp = hbp
        /\ t.vact = vact /\ t.vfp = vfp /\ t.vs = vs /\ t.vbp = vbp
    BY <1>1, Zenon
  <1>3. DOMAIN t = {"hact", "hfp", "hs", "hbp", "vact", "vfp", "vs", "vbp"}
    BY <1>1, SMT
  <1>4. \A f \in DOMAIN t : t[f] \in Field
    BY <1>2, <1>3, Zenon DEF Spans
  <1>5. Short(t.hact, t.hfp, t.hs, t.hbp) /\ Short(t.vact, t.vfp, t.vs, t.vbp)
    BY <1>2, Zenon DEF Spans
  <1> QED
    BY <1>1, <1>4, <1>5, Zenon DEF Fits

LEMMA FourFits == ASSUME NEW hp \in Widths PROVE (hp \div 4) * 4 \in Widths
  BY SMT DEF Widths

\* The vertical fields of a mode.
LEMMA VerticalFits ==
    ASSUME NEW vl \in Heights, NEW vs \in Syncs, NEW vbp \in Nat, 1 <= vbp, vbp <= 220
    PROVE  Spans(vl, 2, vs, vbp)
  <1>1. vl \in Nat /\ 200 <= vl /\ vl <= 3600
    BY HeightIs, SMT
  <1>2. vs \in Nat /\ 4 <= vs /\ vs <= 10
    BY SMT DEF Syncs
  <1>3. vl \in Field
    BY <1>1, InField, SMT
  <1>4. 2 \in Field
    BY InField, SMT
  <1>5. vs \in Field
    BY <1>2, InField, SMT
  <1>6. vbp \in Field
    BY InField, SMT
  <1>7. Short(vl, 2, vs, vbp)
    BY <1>1, <1>2, IsShort, SMT
  <1> QED
    BY <1>3, <1>4, <1>5, <1>6, <1>7, Zenon DEF Spans

\* With reduced blanking.
LEMMA ReducedFits ==
    ASSUME NEW hp \in Widths, NEW vl \in Heights, NEW hz \in Rates
    PROVE  Fits(calculate_cvt(hp, vl, hz, TRUE))
  <1>1. PICK w \in Widths : w = (hp \div 4) * 4
    BY FourFits, Zenon
  <1>2. w \in Nat /\ 160 <= w /\ w <= 2800
    BY WidthIs, SMT
  <1>3. vl \in Nat
    BY HeightIs, SMT
  <1>4. PICK vs : vs = determine_vsync(w, vl)
    OBVIOUS
  <1>5. vs \in Syncs
    BY <1>2, <1>3, <1>4, VSyncBounds, SMT
  <1>6. PICK us \in Intervals : us = 460
    BY SMT DEF Intervals
  <1>7. PICK bl : bl = BlankLines(us, vl, hz)
    OBVIOUS
  <1>8. bl \in Blanks
    BY <1>7, BlankLinesBounds, LinesAreFrames, Zenon
  <1>9. PICK vbp : vbp = AtLeast(bl, 3 + vs + 6) - 3 - vs + 1
    OBVIOUS
  <1>10. vbp \in Nat /\ 1 <= vbp /\ vbp <= 220
    BY <1>5, <1>8, <1>9, SMT DEF AtLeast, Syncs, Blanks
  <1>11. PICK hfp, hs, hbp : hfp = 160 - 32 - 80 /\ hs = 32 /\ hbp = 80
    OBVIOUS
  <1>12. calculate_cvt(hp, vl, hz, TRUE) =
            [hact |-> U16(w), hfp |-> U16(hfp), hs |-> U16(hs), hbp |-> U16(hbp),
             vact |-> U16(vl), vfp |-> 2, vs |-> U16(vs), vbp |-> U16(vbp)]
    BY <1>1, <1>4, <1>6, <1>7, <1>9, <1>11, SMTT(30) DEF calculate_cvt
  <1>13. w \in Field
    BY <1>2, InField, SMT
  <1>14. hfp \in Field
    BY <1>11, InField, SMT
  <1>15. hs \in Field
    BY <1>11, InField, SMT
  <1>16. hbp \in Field
    BY <1>11, InField, SMT
  <1>17. Short(w, hfp, hs, hbp)
    BY <1>2, <1>11, IsShort, SMT
  <1>18. Spans(vl, 2, vs, vbp)
    BY <1>5, <1>10, VerticalFits, SMT
  <1>19. /\ U16(w) = w /\ U16(hfp) = hfp /\ U16(hs) = hs /\ U16(hbp) = hbp
         /\ U16(vl) = vl /\ U16(vs) = vs /\ U16(vbp) = vbp
    BY <1>13, <1>14, <1>15, <1>16, <1>18, U16Is, Zenon DEF Spans
  <1>20. Fits([hact |-> w, hfp |-> hfp, hs |-> hs, hbp |-> hbp,
              vact |-> vl, vfp |-> 2, vs |-> vs, vbp |-> vbp])
    <2>1. Spans(w, hfp, hs, hbp)
      BY <1>13, <1>14, <1>15, <1>16, <1>17, Zenon DEF Spans
    <2> QED
      BY <1>18, <2>1, FieldsFit, Zenon
  <1> QED
    BY <1>12, <1>19, <1>20, Zenon

\* With the blanking of a CRT: the front porch is what the sync and the back porch
\* leave of it.
LEMMA PlainFits ==
    ASSUME NEW hp \in Widths, NEW vl \in Heights, NEW hz \in Rates
    PROVE  Fits(calculate_cvt(hp, vl, hz, FALSE))
  <1>1. PICK w \in Widths : w = (hp \div 4) * 4
    BY FourFits, Zenon
  <1>2. w \in Nat /\ 160 <= w /\ w <= 2800
    BY WidthIs, SMT
  <1>3. vl \in Nat
    BY HeightIs, SMT
  <1>4. PICK vs : vs = determine_vsync(w, vl)
    OBVIOUS
  <1>5. vs \in Syncs
    BY <1>2, <1>3, <1>4, VSyncBounds, SMT
  <1>6. PICK us \in Intervals : us = 550
    BY SMT DEF Intervals
  <1>7. PICK l \in Frames : l = vl + 3
    BY LinesAreFrames, Zenon
  <1>8. PICK bl : bl = BlankLines(us, l, hz)
    OBVIOUS
  <1>9. bl \in Blanks
    BY <1>8, BlankLinesBounds, Zenon
  <1>10. PICK vbp : vbp = AtLeast(bl, vs + 6) - vs + 1
    OBVIOUS
  <1>11. vbp \in Nat /\ 1 <= vbp /\ vbp <= 220
    BY <1>5, <1>9, <1>10, SMT DEF AtLeast, Syncs, Blanks
  <1>12. PICK b \in Nat : HBlank(w, l, hz) = 8 * b /\ w \div 32 <= b /\ 800 * b <= 46 * w
    BY BlankBounds, SMT
  <1>13. 5 <= b /\ w < 42 * b /\ w + 8 * b < 4096
    BY <1>2, <1>12, SMT
  <1>14. PICK blank, s : blank = HBlank(w, l, hz) /\ s = (w + blank) \div 50
    OBVIOUS
  <1>15. blank = 8 * b
    BY <1>12, <1>14, Zenon
  <1>16. s \in Nat /\ 1 <= s /\ s < b
    BY <1>2, <1>13, <1>14, <1>15, SMT
  <1>17. PICK hs, hbp, hfp : hs = HSync(w + blank) /\ hbp = blank \div 2 /\ hfp = blank - hs - hbp
    OBVIOUS
  <1>18. hs = s * 4
    BY <1>14, <1>17, SMT DEF HSync
  <1>19. hbp = 4 * b /\ hs = 4 * s /\ hfp = 4 * b - 4 * s
    BY <1>15, <1>16, <1>17, <1>18, SMT
  <1>20. calculate_cvt(hp, vl, hz, FALSE) =
            [hact |-> U16(w), hfp |-> U16(hfp), hs |-> U16(hs), hbp |-> U16(hbp),
             vact |-> U16(vl), vfp |-> 2, vs |-> U16(vs), vbp |-> U16(vbp)]
    BY <1>1, <1>4, <1>6, <1>7, <1>8, <1>10, <1>14, <1>17, SMTT(30) DEF calculate_cvt
  <1>21. w \in Field
    BY <1>2, InField, SMT
  <1>22. hfp \in Field
    BY <1>2, <1>13, <1>16, <1>19, InField, SMT
  <1>23. hs \in Field
    BY <1>2, <1>13, <1>16, <1>19, InField, SMT
  <1>24. hbp \in Field
    BY <1>2, <1>13, <1>16, <1>19, InField, SMT
  <1>25. Short(w, hfp, hs, hbp)
    BY <1>2, <1>13, <1>16, <1>19, IsShort, SMT
  <1>26. Spans(vl, 2, vs, vbp)
    BY <1>5, <1>11, VerticalFits, SMT
  <1>27. /\ U16(w) = w /\ U16(hfp) = hfp /\ U16(hs) = hs /\ U16(hbp) = hbp
         /\ U16(vl) = vl /\ U16(vs) = vs /\ U16(vbp) = vbp
    BY <1>21, <1>22, <1>23, <1>24, <1>26, U16Is, Zenon DEF Spans
  <1>28. Fits([hact |-> w, hfp |-> hfp, hs |-> hs, hbp |-> hbp,
              vact |-> vl, vfp |-> 2, vs |-> vs, vbp |-> vbp])
    <2>1. Spans(w, hfp, hs, hbp)
      BY <1>21, <1>22, <1>23, <1>24, <1>25, Zenon DEF Spans
    <2> QED
      BY <1>26, <2>1, FieldsFit, Zenon
  <1> QED
    BY <1>20, <1>27, <1>28, Zenon

----------------------------------------------------------------------------
(* The settings of a PLL. *)

\* The counters of a PLL divide by the number that getPLLdiv was given as long as its
\* halves fit 8 bits: up to 510, and not at 511 (hdmi.c:84-88).
LEMMA DividerIsDiv ==
    ASSUME NEW div \in 1..511
    PROVE  Divider(getPLLdiv(div)) = div <=> div <= 510
<1> DEFINE low == div \div 2
           high == low + (div % 2)
<1>1. low \in 0..255 /\ high \in 0..256 /\ low + high = div /\ (high = 256 <=> div = 511)
  BY SMT
<1>2. Bit(high, 8) <=> high = 256
  <2>1. 2^8 = 256
    BY SMT
  <2> HIDE DEF high
  <2> QED
    BY <1>1, <2>1, SMT DEF Bit
<1>3. ~Bit(low, 16)
  <2>1. 2^16 = 65536
    BY SMT
  <2> HIDE DEF low
  <2> QED
    BY <1>1, <2>1, SMT DEF Bit
<1>4. /\ getPLLdiv(div).bypass <=> high = 256
      /\ getPLLdiv(div).hi = high % 256 /\ getPLLdiv(div).lo = low % 256
  <2>1. low < 256
    BY <1>1
  <2> QED
    BY <1>2, <1>3, <2>1, Zenon DEF getPLLdiv
<1> HIDE DEF low, high
<1>5. CASE high = 256
  BY <1>1, <1>4, <1>5 DEF Divider
<1>6. CASE high # 256
  <2>1. high % 256 = high /\ low % 256 = low
    BY <1>1, <1>6, SMT
  <2> QED
    BY <1>1, <1>4, <1>6, <2>1 DEF Divider
<1> QED
  BY <1>5, <1>6

----------------------------------------------------------------------------
\* PllClose is a fact about the step that ends the search; before it, the VCO has
\* been raised to its minimum, and the timing the clock is computed from is that
\* of the request.
Inv ==
    /\ TypeOK
    /\ request \in {Boot} \union Requests
    /\ timing = [crt |-> timing.crt, hdmi |-> timing.hdmi]
    /\ pc \in {"search", "fallback"} => Fout * c >= VcoMin
    /\ pc \in {"mode", "clock"} => request \in Requests
    /\ pc = "clock" => timing.hdmi = FoundMode(request)
    /\ PllClose

\* The bounds of the search in terms of the reference clock.
LEMMA Scale ==
    /\ Ref \in Nat \ {0} /\ VcoMin = 8 * Ref
    /\ KLow \in Nat /\ 20 * KLow = Ref /\ KHigh = Ref - KLow
BY SMT DEF Ref, VcoMin, KLow, KHigh

\* The multiplier and the fraction are those of the VCO.
LEMMA WholeAndFraction ==
    ASSUME Fout \in Nat \ {0}, c \in Nat \ {0}
    PROVE  /\ Fout * c \in Nat /\ Whole \in Nat /\ Fraction \in Nat /\ Fraction < Ref
           /\ Ref * Whole + Fraction = Fout * c
<1>1. Fout * c \in Nat
  OBVIOUS
<1>2. ASSUME NEW v \in Nat
      PROVE  /\ v \div Ref \in Nat /\ v % Ref \in Nat /\ v % Ref < Ref
             /\ Ref * (v \div Ref) + (v % Ref) = v
  BY Scale, SMT
<1> QED
  BY <1>1, <1>2 DEF Whole, Fraction

LEMMA InitInv == Init => Inv
<1> SUFFICES ASSUME Init PROVE Inv
  OBVIOUS
<1>1. Fout \in Nat \ {0}
  BY ClockAssumption, Zenon DEF Init
<1> QED
  <2>1. TypeOK
    <3>1. pc = "raise" /\ pll = "crt" /\ exact = TRUE /\ c = 1 /\ m = 0 /\ ko = 0
      BY Zenon DEF Init
    <3> QED
      BY <1>1, <3>1 DEF TypeOK
  <2>2. request \in {Boot} \union Requests /\ timing = [crt |-> timing.crt, hdmi |-> timing.hdmi]
    BY Zenon DEF Init
  <2> QED
    BY <2>1, <2>2, Zenon DEF Init, Inv, PllClose

\* The settings a search ends with: the fraction is usable or there is none.
LEMMA FoundClose ==
    ASSUME Inv, ~Unusable, Fout * c >= VcoMin, pc' = "program",
           m' = Whole, ko' = Fraction, Fout' = Fout, c' = c
    PROVE  PllClose' /\ m' \in Nat /\ ko' \in Nat
<1>1. /\ Fout * c \in Nat /\ Whole \in Nat /\ Fraction \in Nat /\ Fraction < Ref
      /\ Ref * Whole + Fraction = Fout * c
  BY WholeAndFraction DEF Inv, TypeOK
<1>2. Gap(Ref * m' + ko', Fout' * c') = 0
  BY <1>1, SMT DEF Gap
<1> QED
  BY <1>1, <1>2, Scale, SMT DEF PllClose, Unusable

\* The settings of the fallback: a fraction that is not usable is at most 2.5 MHz,
\* one part in 160 of the lowest VCO.
LEMMA FallbackClose ==
    ASSUME Inv, Fallback
    PROVE  PllClose' /\ m' \in Nat /\ ko' \in Nat
<1>1. /\ Fout * c \in Nat /\ Whole \in Nat /\ Fraction \in Nat /\ Fraction < Ref
      /\ Ref * Whole + Fraction = Fout * c
  BY WholeAndFraction DEF Inv, TypeOK
<1>2. Fout * c >= VcoMin /\ Fout' = Fout /\ c' = c /\ pc' = "program"
  BY DEF Inv, Fallback
<1>3. m' = (IF Fraction >= KHigh THEN Whole + 1 ELSE Whole)
      /\ ko' = (IF Fraction <= KLow \/ Fraction >= KHigh THEN 0 ELSE Fraction)
  BY DEF Fallback
<1> DEFINE F == Fout * c
<1>4. PllClose' <=> /\ Ref * m' + ko' >= VcoMin
                    /\ ko' = 0 \/ (KLow < ko' /\ ko' < KHigh)
                    /\ 160 * Gap(Ref * m' + ko', F) <= F
  BY <1>2 DEF PllClose
<1>5. F \in Nat /\ F >= VcoMin /\ Ref * Whole + Fraction = F
  BY <1>1, <1>2
<1> HIDE DEF F
<1>6. CASE Fraction <= KLow
  BY <1>1, <1>3, <1>4, <1>5, <1>6, Scale, SMTT(20) DEF Gap
<1>7. CASE Fraction >= KHigh
  BY <1>1, <1>3, <1>4, <1>5, <1>7, Scale, SMTT(20) DEF Gap
<1>8. CASE KLow < Fraction /\ Fraction < KHigh
  <2>1. m' = Whole /\ ko' = Fraction
    BY <1>1, <1>3, <1>8, Scale, SMTT(20)
  <2>2. Gap(F, F) = 0
    BY <1>5, SMTT(20) DEF Gap
  <2> QED
    BY <1>1, <1>4, <1>5, <1>8, <2>1, <2>2, SMTT(20)
<1> QED
  BY <1>1, <1>6, <1>7, <1>8, Scale, SMTT(20)

LEMMA NextInv == Inv /\ [Next]_vars => Inv'
<1> SUFFICES ASSUME Inv, [Next]_vars PROVE Inv'
  OBVIOUS
<1> USE DEF Inv
<1>1. ASSUME NEW res \in DOMAIN hdmi_resolutions,
             NEW refresh \in DOMAIN hdmi_refresh_rates, NEW aspect \in BOOLEAN,
             Apply(res, refresh, aspect)
      PROVE  Inv'
  <2>1. request' \in Requests
    BY <1>1, VideoModeAssumption DEF Apply, Requests
  <2>2. Fout' \in Nat \ {0}
    BY <1>1, <2>1, ClockAssumption DEF Apply
  <2> QED
    BY <1>1, <2>1, <2>2 DEF Apply, TypeOK, PllClose
<1>2. CASE Raise
  <2>1. Fout * c \in Nat /\ VcoMin \in Nat
    BY Scale, WholeAndFraction DEF TypeOK
  <2>2. c' \in Nat \ {0} /\ (pc' # "raise" => Fout' * c' >= VcoMin)
    BY <1>2, <2>1 DEF Raise, TypeOK
  <2> QED
    BY <1>2, <2>2 DEF Raise, TypeOK, PllClose
<1>3. CASE Search
  <2>1. CASE Unusable
    <3>1. Fout * c \in Nat /\ VcoMin \in Nat /\ Fout * (c + 1) >= Fout * c
      BY Scale, WholeAndFraction, SMT DEF TypeOK
    <3>2. c' \in Nat \ {0} /\ (pc' # "raise" => Fout' * c' >= VcoMin)
      BY <1>3, <2>1, <3>1, SMT DEF Search, TypeOK
    <3> QED
      BY <1>3, <2>1, <3>2, Zenon DEF Search, TypeOK, PllClose
  <2>2. CASE ~Unusable
    <3>1. PllClose' /\ m' \in Nat /\ ko' \in Nat
      BY <1>3, <2>2, FoundClose DEF Search
    <3> QED
      BY <1>3, <2>2, <3>1 DEF Search, TypeOK
  <2> QED
    BY <2>1, <2>2
<1>4. CASE Fallback
  <2>1. PllClose' /\ m' \in Nat /\ ko' \in Nat
    BY <1>4, FallbackClose
  <2> QED
    BY <1>4, <2>1 DEF Fallback, TypeOK
<1>5. CASE ProgramCrt
  BY <1>5 DEF ProgramCrt, search, TypeOK, PllClose
<1>6. CASE FindMode
  BY <1>6 DEF FindMode, search, TypeOK, PllClose
<1>7. CASE FindClock
  <2>1. Fout' \in Nat \ {0}
    BY <1>7, ClockAssumption DEF FindClock
  <2> QED
    BY <1>7, <2>1 DEF FindClock, TypeOK, PllClose
<1>8. CASE ProgramHdmi
  BY <1>8, Zenon DEF ProgramHdmi, search, TypeOK, PllClose
<1>9. CASE UNCHANGED vars
  BY <1>9 DEF vars, TypeOK, PllClose
<1> QED
  BY <1>1, <1>2, <1>3, <1>4, <1>5, <1>6, <1>7, <1>8, <1>9 DEF Next, Run

\* For every table of resolutions and rates, what is programmed is at most one part
\* in 160 off, with the VCO at 400 MHz or above and a fraction the PLL can work with
\* (hdmi.c:90-172, 232-252).
THEOREM ProgrammedClose == Spec => []PllClose
<1>1. Inv => PllClose
  BY DEF Inv
<1> QED
  BY <1>1, InitInv, NextInv, PTL DEF Spec

\* The divider c is at most one above what takes the VCO to its limit.
Raised == Fout * (c - 1) <= VcoStop

LEMMA RaisedNext == Inv /\ Raised /\ [Next]_vars => Raised'
<1> SUFFICES ASSUME Inv, Raised, [Next]_vars PROVE Raised'
  OBVIOUS
<1>1. Fout \in Nat \ {0} /\ c \in Nat \ {0} /\ Fout * c \in Nat /\ Fout * ((c + 1) - 1) = Fout * c
  BY SMT DEF Inv, TypeOK
<1>2. VcoMin \in Nat /\ VcoStop \in Nat /\ VcoMin <= VcoStop
  BY SMT DEF VcoMin, VcoStop
<1>3. \/ Fout' = Fout /\ c' = c
      \/ Fout' = Fout /\ c' = c + 1 /\ Fout * c <= VcoStop
      \/ c' = 1
  <2>1. CASE Raise
    BY <1>1, <1>2, <2>1 DEF Raise
  <2>2. CASE Search
    BY <2>2, Zenon DEF Search
  <2>3. CASE Fallback \/ ProgramCrt \/ FindMode \/ ProgramHdmi \/ UNCHANGED vars
    BY <2>3, Zenon DEF Fallback, ProgramCrt, FindMode, ProgramHdmi, vars, search
  <2>4. ASSUME FindClock \/ \E resolution \in DOMAIN hdmi_resolutions,
                   refresh \in DOMAIN hdmi_refresh_rates, aspect \in BOOLEAN :
                       Apply(resolution, refresh, aspect)
        PROVE  c' = 1
    BY <2>4, Zenon DEF FindClock, Apply
  <2> QED
    BY <2>1, <2>2, <2>3, <2>4, Zenon DEF Next, Run
<1>4. CASE c' = 1
  <2>1. Fout' \in Nat
    BY NextInv, Zenon DEF Inv, TypeOK
  <2>2. ASSUME NEW f \in Nat, NEW d, d = 1 PROVE f * (d - 1) = 0
    <3>1. d - 1 = 0
      BY <2>2
    <3> QED
      BY <3>1
  <2>3. Fout' * (c' - 1) = 0
    BY <1>4, <2>1, <2>2, Zenon
  <2> QED
    BY <1>2, <2>3 DEF Raised
<1> QED
  BY <1>1, <1>3, <1>4 DEF Raised

\* For every clock from 3 MHz to 1 GHz, the counts that are programmed divide by the
\* m and the c that were found: neither reaches the 511 that getPLLdiv cannot pack
\* (hdmi.c:84-88, 90-172, 232-268).
THEOREM CountersExact ==
    Spec => [](pc = "program" /\ 3000000 <= Fout /\ Fout <= 1000000000 =>
                  Divider(getPLLdiv(c)) = c /\ Divider(getPLLdiv(m)) = m)
<1>1. Init => Raised
  <2>1. Init => Fout \in Nat \ {0} /\ c = 1
    BY ClockAssumption, Zenon DEF Init
  <2> QED
    BY <2>1 DEF Raised, VcoStop
<1> DEFINE Exact == pc = "program" /\ 3000000 <= Fout /\ Fout <= 1000000000 =>
                        Divider(getPLLdiv(c)) = c /\ Divider(getPLLdiv(m)) = m
<1>2. Inv /\ Raised => Exact
  <2> SUFFICES ASSUME Inv, Raised, pc = "program", 3000000 <= Fout, Fout <= 1000000000
               PROVE  Divider(getPLLdiv(c)) = c /\ Divider(getPLLdiv(m)) = m
    OBVIOUS
  <2>1. c \in Nat \ {0} /\ m \in Nat /\ ko \in Nat /\ Fout \in Nat
    BY DEF Inv, TypeOK
  <2>2. c - 1 <= 500
    <3>1. ASSUME NEW f \in Nat, NEW d \in Nat, f >= 3000000, f * d <= 1500000000
          PROVE  d <= 500
      <4>1. 3000000 * d <= f * d
        BY <3>1, SMT
      <4> QED
        BY <3>1, <4>1, SMT
    <3> QED
      BY <2>1, <3>1 DEF Raised, VcoStop
  <2>3. PICK v \in Nat : v = Fout * c
    BY <2>1
  <2>4. v <= 2500000000
    <3>1. Fout * c = Fout * (c - 1) + Fout
      BY <2>1, SMT
    <3> QED
      BY <2>1, <2>3, <3>1 DEF Raised, VcoStop
  <2>5. 50000000 * m + ko >= 400000000 /\ (ko = 0 \/ ko < 47500000)
        /\ 160 * Gap(50000000 * m + ko, v) <= v
    BY <2>1, <2>3 DEF Inv, PllClose, Ref, VcoMin, KHigh
  <2>6. m \in 1..510
    BY <2>1, <2>4, <2>5, SMT DEF Gap
  <2>7. c \in 1..510
    BY <2>1, <2>2
  <2> QED
    BY <2>6, <2>7, DividerIsDiv
<1> HIDE DEF Exact
<1>3. Spec => []Exact
  BY <1>1, <1>2, InitInv, NextInv, RaisedNext, PTL DEF Spec
<1> QED
  BY <1>3 DEF Exact

----------------------------------------------------------------------------
(* The timings that are programmed. *)

LEMMA Fits240p == ASSUME NEW wide \in BOOLEAN PROVE Fits(Mode240p(wide))
<1>1. PICK t : t = Mode240p(wide)
  BY Zenon
<1>2. t = [hact |-> t.hact, hfp |-> t.hfp, hs |-> t.hs, hbp |-> t.hbp,
           vact |-> t.vact, vfp |-> t.vfp, vs |-> t.vs, vbp |-> t.vbp]
  BY <1>1, SMT DEF Mode240p
<1>3. Spans(t.hact, t.hfp, t.hs, t.hbp)
  BY <1>1, SMT DEF Mode240p, Spans, Field, Short
<1>4. Spans(t.vact, t.vfp, t.vs, t.vbp)
  BY <1>1, SMT DEF Mode240p, Spans, Field, Short
<1>5. Fits(t)
  BY <1>2, <1>3, <1>4, FieldsFit, Zenon
<1> QED
  BY <1>1, <1>5, Zenon

LEMMA FoundFits == ASSUME NEW r \in Requests PROVE Fits(FoundMode(r))
<1>1. PICK i \in DOMAIN hdmi_resolutions, j \in DOMAIN hdmi_refresh_rates :
          r.mode = i /\ r.refresh = j
  BY Zenon DEF Requests
<1>2. hdmi_resolutions[i].width \in Widths /\ hdmi_resolutions[i].height \in Heights
  BY MonitorAssumption, Zenon
<1>3. 60 \in Rates
  BY SMT DEF Rates
<1>4. Hz(r) \in Rates
  BY <1>1, <1>3, MonitorAssumption, Zenon DEF Hz
<1>5. PICK w \in Widths, h \in Heights, hz \in Rates :
          w = hdmi_resolutions[i].width /\ h = hdmi_resolutions[i].height /\ hz = Hz(r)
  BY <1>2, <1>4, Zenon
<1>6. FoundMode(r) = hdmi_find_mode(w, h, hz)
  BY <1>1, <1>5, Zenon DEF FoundMode
<1>7. CASE w * h > FullHd
  <2>1. (w * h > FullHd) = TRUE
    BY <1>7, Zenon
  <2> QED
    BY <1>6, <2>1, ReducedFits, Zenon DEF hdmi_find_mode
<1>8. CASE ~(w * h > FullHd)
  <2>1. (w * h > FullHd) = FALSE
    BY <1>8
  <2> QED
    BY <1>6, <2>1, PlainFits, Zenon DEF hdmi_find_mode
<1> QED
  BY <1>7, <1>8, Zenon

LEMMA NextFits == Inv /\ PorchesFit /\ [Next]_vars => PorchesFit'
<1> SUFFICES ASSUME Inv, PorchesFit, [Next]_vars PROVE PorchesFit'
  OBVIOUS
<1>1. CASE ProgramCrt
  <2>1. timing'.crt = Mode240p(request.wide) /\ timing'.hdmi = timing.hdmi
    BY <1>1, Zenon DEF ProgramCrt, Inv
  <2>2. request.wide \in BOOLEAN
    <3>1. Boot.wide = FALSE
      BY SMT DEF Boot
    <3>2. \A r \in Requests : r.wide \in BOOLEAN
      BY Zenon DEF Requests
    <3> QED
      BY <3>1, <3>2, Zenon DEF Inv
  <2> QED
    BY <2>1, <2>2, Fits240p, Zenon DEF PorchesFit
<1>2. CASE FindMode
  <2>1. timing'.hdmi = FoundMode(request) /\ timing'.crt = timing.crt /\ request \in Requests
    BY <1>2, Zenon DEF FindMode, Inv
  <2> QED
    BY <2>1, FoundFits, Zenon DEF PorchesFit
<1>3. CASE UNCHANGED timing
  BY <1>3, Zenon DEF PorchesFit
<1> QED
  BY <1>1, <1>2, <1>3, Zenon
     DEF Next, Run, Apply, Raise, Search, Fallback, FindClock, ProgramHdmi, vars

\* For every table of modes a monitor may have (160 to 2800 pixels, 200 to 3600 lines,
\* 1 to 100 Hz) no field of a timing is empty or outgrows the 12 bits of its register,
\* with reduced blanking or without (hdmi.c:325-402, gfx.c:76-101).
THEOREM TimingsFit == Spec => []PorchesFit
<1>1. Init => PorchesFit
  <2>1. Init => timing = [crt |-> <<>>, hdmi |-> <<>>]
    BY Zenon DEF Init
  <2>2. ASSUME timing = [crt |-> <<>>, hdmi |-> <<>>]
        PROVE  timing["crt"] = <<>> /\ timing["hdmi"] = <<>>
    BY <2>2
  <2> QED
    BY <2>1, <2>2, Zenon DEF PorchesFit
<1> QED
  BY <1>1, InitInv, NextInv, NextFits, PTL DEF Spec
=============================================================================
