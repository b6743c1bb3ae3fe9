------------------------------ MODULE Sampler ------------------------------
(***************************************************************************)
(* The measurement core of the firmware (firmware/src/main.c): the main    *)
(* loop with its sampling state machine, the three interrupt handlers that *)
(* capture the start of a frame and the sensor's answer, and the 68000     *)
(* stack of nested handlers between them.                                  *)
(*                                                                         *)
(* The main loop takes one step per access to state it shares with the     *)
(* handlers, and any interrupt may come between two of them.               *)
(* clock_get_ticks is one step: module ClockRead shows that the latch and  *)
(* the interrupt mask make it so.  It ends with enable_interrupts, which   *)
(* drops the mask to 0 inside a handler as well, so that every level, the  *)
(* handler's own included, may interrupt the rest of it.  An interrupt     *)
(* that has to wait for the mask is one that comes when the mask is down.  *)
(*                                                                         *)
(* set_state_untimed, TimeoutForgotten, CompareNoFrame, AnsweredAlways,    *)
(* AnsweredLate, DrawUntilSensor and DueAlways are mutants of the          *)
(* definition that follows each of them: bugs the properties must catch.   *)
(* Nothing uses them.                                                      *)
(***************************************************************************)
EXTENDS Integers

CONSTANTS
    TickMod,            \* the tick counter wraps here (2^32 in the hardware)
    SeqMod,             \* the sample sequence wraps here (2^16 in the code)
    WAIT_CLEAR_TICKS,   \* how long the pattern stays dark before a flash
    MIN_SAMPLE_TICKS,   \* no verdict on a sample before this
    MAX_SAMPLE_TICKS,   \* a sample without an answer is missing after this
    MaxEpoch,           \* bound: wraps of the tick counter that are explored
    MaxNest             \* bound: interrupt handlers active at once

ASSUME ModAssumption == /\ TickMod \in Nat \ {0}
                        /\ SeqMod \in Nat \ {0}

ASSUME LimitAssumption == /\ WAIT_CLEAR_TICKS \in Nat
                          /\ MIN_SAMPLE_TICKS \in Nat
                          /\ MAX_SAMPLE_TICKS \in Nat

ASSUME BoundAssumption == /\ MaxEpoch \in Nat
                          /\ MaxNest \in Nat \ {0}

VARIABLES
    pc,                 \* where the main loop is
    mode,               \* main's MainMode
    state,              \* the sampling State
    state_start_ticks,  \* when set_state was last called
    todo,               \* the two stores of ST_START_SAMPLE still to be made
    lit,                \* palette_ram[0x80] is 0xffff
    sample_seq, frame_seq, sensor_seq,
    frame_ticks, sensor_ticks,
    vblank_new,         \* vblank_count # vblank_int_count
    verdict,            \* sample_status, with latest_sample while it is NEW_SAMPLE
    ticks,              \* the hardware counter behind clock_get_ticks
    depth,              \* how many handlers are on the stack
    frames              \* the stack, entries 1..depth

\* History variables: no step depends on them.
VARIABLES
    epoch,                      \* how often ticks has wrapped
    sample_no,                  \* how many samples were armed
    frame_no, sensor_no,        \* the sample each capture was made for
    frame_epoch, sensor_epoch,  \* the epoch each captured tick belongs to
    arm, dark                   \* when sample_seq was incremented for this sample
                                \* and when the pattern was turned dark for it

stateVars == <<state, state_start_ticks>>
flashVars == <<todo, lit, sample_seq, sample_no, arm, dark>>
mainVars == <<pc, mode, stateVars, flashVars, verdict>>
frameVars == <<frame_seq, frame_ticks, frame_no, frame_epoch>>
sensorVars == <<sensor_seq, sensor_ticks, sensor_no, sensor_epoch>>
captureVars == <<frameVars, sensorVars>>
stackVars == <<depth, frames>>
clockVars == <<ticks, epoch>>
vars == <<mainVars, captureVars, vblank_new, stackVars, clockVars>>

Ticks == 0..(TickMod - 1)
Seqs == 0..(SeqMod - 1)
Modes == {"MODE_SAMPLING", "MODE_MENU", "MODE_NO_SENSOR"}
States == {"ST_CLEAR", "ST_WAIT_CLEAR", "ST_START_SAMPLE", "ST_WAIT_SAMPLE"}
Verdicts == [status: {"NO_SAMPLE", "MISSING_SAMPLE", "NEW_SAMPLE"}, ticks: Ticks]
Pcs == {"wait", "poll", "clear", "start", "flash", "pair", "timeout",
        "cmp_frame", "cmp_sensor", "judge", "record", "draw", "menu", "no_sensor"}
Instants == [epoch: Nat, ticks: Ticks]
Frames == [lvl: {4, 6}, pc: {"store", "seq"}, res: Ticks, epoch: Nat]

Now == [epoch |-> epoch, ticks |-> ticks]
NotAfter(a, b) == a.epoch < b.epoch \/ (a.epoch = b.epoch /\ a.ticks <= b.ticks)
FrameAt == [epoch |-> frame_epoch, ticks |-> frame_ticks]
SensorAt == [epoch |-> sensor_epoch, ticks |-> sensor_ticks]
Elapsed(a, b) == (b.epoch - a.epoch) * TickMod + b.ticks - a.ticks

\* uint32_t subtraction and uint16_t increment.
Sub(a, b) == IF a >= b THEN a - b ELSE a - b + TickMod
Inc(s) == IF s = SeqMod - 1 THEN 0 ELSE s + 1

NO_SAMPLE == [status |-> "NO_SAMPLE", ticks |-> 0]
MISSING_SAMPLE == [status |-> "MISSING_SAMPLE", ticks |-> 0]
NEW_SAMPLE(diff) == [status |-> "NEW_SAMPLE", ticks |-> diff]

Boot == [epoch |-> 0, ticks |-> 0]

\* A stack entry that is not in use.
Free == [lvl |-> 4, pc |-> "store", res |-> 0, epoch |-> 0]

Init ==
    /\ pc = "wait" /\ mode = "MODE_SAMPLING" /\ state = "ST_CLEAR"
    /\ state_start_ticks = 0 /\ todo = {} /\ lit = FALSE
    /\ sample_seq = 0 /\ frame_seq = 0 /\ sensor_seq = 0
    /\ frame_ticks = 0 /\ sensor_ticks = 0
    /\ vblank_new = FALSE
    /\ verdict = NO_SAMPLE
    /\ ticks = 0
    /\ depth = 0 /\ frames = [i \in 1..MaxNest |-> Free]
    /\ epoch = 0 /\ sample_no = 0 /\ frame_no = 0 /\ sensor_no = 0
    /\ frame_epoch = 0 /\ sensor_epoch = 0
    /\ arm = Boot /\ dark = Boot

----------------------------------------------------------------------------
(* The main loop.  It runs only while no handler is on the stack. *)

Main(from, to) ==
    /\ depth = 0
    /\ pc = from /\ pc' = to
    /\ UNCHANGED <<captureVars, stackVars, clockVars>>

set_state_untimed(s) == state' = s /\ UNCHANGED state_start_ticks

\* set_state: the new state and the tick at which it was entered.
set_state(s) ==
    /\ state' = s
    /\ state_start_ticks' = ticks

wait_vblank ==
    /\ vblank_new
    /\ vblank_new' = FALSE
    /\ Main("wait", CASE mode = "MODE_SAMPLING" -> "poll"
                      [] mode = "MODE_MENU" -> "menu"
                      [] mode = "MODE_NO_SENSOR" -> "no_sensor")
    /\ UNCHANGED <<mode, stateVars, flashVars, verdict>>

\* A step of main that only decides where to go on.
Branch(from, to) ==
    /\ Main(from, to)
    /\ UNCHANGED <<mode, stateVars, flashVars, verdict, vblank_new>>

\* The case of do_sampling's switch that state and state_ticks select.
CaseOf(state_ticks) ==
    CASE state = "ST_CLEAR" -> "clear"
      [] state = "ST_WAIT_CLEAR" ->
            IF state_ticks >= WAIT_CLEAR_TICKS THEN "start" ELSE "draw"
      [] state = "ST_START_SAMPLE" -> "flash"
      [] state = "ST_WAIT_SAMPLE" ->
            IF state_ticks < MIN_SAMPLE_TICKS THEN "draw"
            ELSE IF state_ticks > MAX_SAMPLE_TICKS THEN "timeout"
            ELSE "cmp_frame"

\* do_sampling reads the clock once, on entry, and decides by that reading.
do_sampling == Branch("poll", CaseOf(Sub(ticks, state_start_ticks)))

Clear ==
    /\ Main("clear", "draw")
    /\ lit' = FALSE
    /\ dark' = Now /\ arm' = Boot
    /\ set_state("ST_WAIT_CLEAR")
    /\ UNCHANGED <<mode, todo, sample_seq, sample_no, verdict, vblank_new>>

WaitClear ==
    /\ Main("start", "draw")
    /\ set_state("ST_START_SAMPLE")
    /\ UNCHANGED <<mode, flashVars, verdict, vblank_new>>

\* palette_ram is not volatile and sample_seq is, so the compiler may emit
\* the two stores that follow set_state in either order.
StartSample ==
    /\ Main("flash", "pair")
    /\ set_state("ST_WAIT_SAMPLE")
    /\ todo' = {"flash", "arm"}
    /\ UNCHANGED <<mode, lit, sample_seq, sample_no, arm, dark, verdict,
                   vblank_new>>

StoreOf(what) ==
    /\ what \in todo
    /\ todo' = todo \ {what}
    /\ Main("pair", IF todo = {what} THEN "draw" ELSE "pair")
    /\ UNCHANGED <<mode, stateVars, verdict, vblank_new>>

Flash ==
    /\ StoreOf("flash")
    /\ lit' = TRUE /\ dark' = Boot
    /\ UNCHANGED <<sample_seq, sample_no, arm>>

Arm ==
    /\ StoreOf("arm")
    /\ sample_seq' = Inc(sample_seq)
    /\ sample_no' = sample_no + 1 /\ arm' = Now
    /\ UNCHANGED <<lit, dark>>

TimeoutForgotten ==
    /\ Main("timeout", "draw")
    /\ verdict' = MISSING_SAMPLE
    /\ UNCHANGED <<mode, stateVars, flashVars, vblank_new>>

Timeout ==
    /\ Main("timeout", "draw")
    /\ set_state("ST_CLEAR")
    /\ verdict' = MISSING_SAMPLE
    /\ UNCHANGED <<mode, flashVars, vblank_new>>

CompareNoFrame == Branch("cmp_frame", "cmp_sensor")

CompareFrame ==
    Branch("cmp_frame", IF sample_seq = frame_seq THEN "cmp_sensor" ELSE "draw")

CompareSensor ==
    \/ /\ sample_seq # sensor_seq
       /\ Branch("cmp_sensor", "draw")
    \/ /\ sample_seq = sensor_seq
       /\ Main("cmp_sensor", "judge")
       /\ set_state("ST_CLEAR")
       /\ UNCHANGED <<mode, flashVars, verdict, vblank_new>>

\* The sensor's tick is greater than the frame's.
AnsweredAlways == TRUE
AnsweredLate == frame_ticks + 1 < sensor_ticks
Answered == frame_ticks < sensor_ticks

Judge ==
    \/ /\ Answered
       /\ Branch("judge", "record")
    \/ /\ ~Answered
       /\ Main("judge", "draw")
       /\ verdict' = MISSING_SAMPLE
       /\ UNCHANGED <<mode, stateVars, flashVars, vblank_new>>

record_new_sample ==
    /\ Main("record", "draw")
    /\ verdict' = NEW_SAMPLE(Sub(sensor_ticks, frame_ticks))
    /\ UNCHANGED <<mode, stateVars, flashVars, vblank_new>>

\* The rest of do_sampling and of the loop body.  The gamepad and the sensor's
\* presence pin decide the mode of the next iteration.
Draw ==
    /\ Main("draw", "wait")
    /\ verdict' = NO_SAMPLE
    /\ mode' \in Modes
    /\ UNCHANGED <<stateVars, flashVars, vblank_new>>

\* draw_menu keeps the menu open or closes it (module Menu).
DrawMenu ==
    /\ Main("menu", "wait")
    /\ mode' \in {"MODE_MENU", "MODE_SAMPLING"}
    /\ UNCHANGED <<stateVars, flashVars, verdict, vblank_new>>

DrawUntilSensor ==
    /\ Main("no_sensor", "no_sensor")
    /\ UNCHANGED <<mode, stateVars, flashVars, verdict, vblank_new>>

DrawNoSensor ==
    /\ Main("no_sensor", "wait")
    /\ mode' \in {"MODE_NO_SENSOR", "MODE_SAMPLING"}
    /\ UNCHANGED <<stateVars, flashVars, verdict, vblank_new>>

MainStep ==
    \/ wait_vblank \/ do_sampling
    \/ Clear \/ WaitClear \/ StartSample \/ Flash \/ Arm
    \/ Timeout \/ CompareFrame \/ CompareSensor \/ Judge \/ record_new_sample
    \/ Draw \/ DrawMenu \/ DrawNoSensor

----------------------------------------------------------------------------
(* Interrupt handlers. *)

\* Only whether vblank_int_count moved matters (wait_vblank compares it for
\* inequality).  The handler is one instruction and never lowers the mask.
level2_handler ==
    /\ vblank_new' = TRUE
    /\ UNCHANGED <<mainVars, captureVars, stackVars, clockVars>>

DueAlways(seq) == TRUE
Due(seq) == seq # sample_seq

ReadClock(l, seq) ==
    /\ Due(seq)
    /\ depth < MaxNest
    /\ depth' = depth + 1
    /\ frames' = [frames EXCEPT ![depth + 1] =
                    [lvl |-> l, pc |-> "store", res |-> ticks, epoch |-> epoch]]
    /\ UNCHANGED <<mainVars, captureVars, vblank_new, clockVars>>

\* The handler of level l is on top of the stack, at p.
Running(l, p) ==
    /\ depth > 0
    /\ frames[depth].lvl = l /\ frames[depth].pc = p

Stored ==
    /\ frames' = [frames EXCEPT ![depth].pc = "seq"]
    /\ UNCHANGED <<mainVars, vblank_new, depth, clockVars>>

Rte ==
    /\ frames' = [frames EXCEPT ![depth] = Free]
    /\ depth' = depth - 1
    /\ UNCHANGED <<mainVars, vblank_new, clockVars>>

level4_handler == ReadClock(4, frame_seq)

StoreFrameTicks ==
    /\ Running(4, "store")
    /\ frame_ticks' = frames[depth].res /\ frame_epoch' = frames[depth].epoch
    /\ Stored
    /\ UNCHANGED <<frame_seq, frame_no, sensorVars>>

StoreFrameSeq ==
    /\ Running(4, "seq")
    /\ frame_seq' = sample_seq /\ frame_no' = sample_no
    /\ Rte
    /\ UNCHANGED <<frame_ticks, frame_epoch, sensorVars>>

level6_handler == ReadClock(6, sensor_seq)

StoreSensorTicks ==
    /\ Running(6, "store")
    /\ sensor_ticks' = frames[depth].res /\ sensor_epoch' = frames[depth].epoch
    /\ Stored
    /\ UNCHANGED <<sensor_seq, sensor_no, frameVars>>

StoreSensorSeq ==
    /\ Running(6, "seq")
    /\ sensor_seq' = sample_seq /\ sensor_no' = sample_no
    /\ Rte
    /\ UNCHANGED <<sensor_ticks, sensor_epoch, frameVars>>

HandlerStep ==
    \/ StoreFrameTicks \/ StoreFrameSeq
    \/ StoreSensorTicks \/ StoreSensorSeq

----------------------------------------------------------------------------
Tick ==
    /\ \/ /\ ticks < TickMod - 1
          /\ ticks' = ticks + 1
          /\ UNCHANGED epoch
       \/ /\ ticks = TickMod - 1 /\ epoch < MaxEpoch
          /\ ticks' = 0
          /\ epoch' = epoch + 1
    /\ UNCHANGED <<mainVars, captureVars, vblank_new, stackVars>>

Next ==
    \/ MainStep
    \/ level2_handler \/ level4_handler \/ level6_handler \/ HandlerStep
    \/ Tick

Spec == Init /\ [][Next]_vars

\* The CPU executes instructions: handlers return, and the main loop advances
\* even if interrupts keep coming, for video and sensor edges are far apart.
\* Ticks come from a free-running oscillator, level 2 from the CRTC.
Fairness ==
    /\ SF_vars(MainStep)
    /\ WF_vars(HandlerStep)
    /\ WF_vars(level2_handler)
    /\ WF_vars(Tick)

FairSpec == Spec /\ Fairness

----------------------------------------------------------------------------
TypeOK ==
    /\ pc \in Pcs /\ mode \in Modes /\ state \in States
    /\ state_start_ticks \in Ticks
    /\ todo \subseteq {"flash", "arm"} /\ lit \in BOOLEAN
    /\ sample_seq \in Seqs /\ frame_seq \in Seqs /\ sensor_seq \in Seqs
    /\ frame_ticks \in Ticks /\ sensor_ticks \in Ticks
    /\ vblank_new \in BOOLEAN
    /\ verdict \in Verdicts
    /\ ticks \in Ticks
    /\ depth \in 0..MaxNest
    /\ frames \in [1..MaxNest -> Frames]
    /\ epoch \in Nat /\ sample_no \in Nat /\ frame_no \in Nat /\ sensor_no \in Nat
    /\ frame_epoch \in Nat /\ sensor_epoch \in Nat
    /\ arm \in Instants /\ dark \in Instants

\* The four unlocked reads of frame_ticks and sensor_ticks in ST_WAIT_SAMPLE
\* (main.c:407-416) see one pair of captures: once main has found frame_seq
\* (sensor_seq) equal to sample_seq, no handler writes that capture before
\* main is done with it, however the handlers interrupt main and each other.
UnlockedReadsAgree ==
    [][/\ pc \in {"cmp_sensor", "judge", "record"} =>
            UNCHANGED <<frame_seq, frame_ticks>>
       /\ pc \in {"judge", "record"} => UNCHANGED <<sensor_seq, sensor_ticks>>
      ]_vars

\* No counter has wrapped between what main is about to compare: both captured
\* ticks are of the same epoch, and neither capture is a full turn of the
\* 16-bit sequence old.
NoWrap ==
    /\ frame_epoch = sensor_epoch
    /\ sample_no - frame_no < SeqMod /\ sample_no - sensor_no < SeqMod

\* The captures were made for the sample that was armed last, the frame's
\* first, both after sample_seq was incremented.
SeenAfterFrame ==
    /\ frame_no = sample_no /\ sensor_no = sample_no
    /\ NotAfter(arm, FrameAt)
    /\ NotAfter(FrameAt, SensorAt) /\ FrameAt # SensorAt

\* A recorded latency (main.c:416-417) is the time from the frame start to the
\* sensor's answer, both seen after this sample was armed: never a capture of
\* an earlier sample, whatever menu visits, missed answers and nested handlers
\* came between.
GenuineSample ==
    [][pc = "record" /\ verdict' # verdict /\ NoWrap =>
            SeenAfterFrame /\ verdict' = NEW_SAMPLE(Elapsed(FrameAt, SensorAt))]_vars

\* A sample whose two captures are in is called missing (main.c:410-413) only
\* if the sensor did not answer after the frame start.
MissingUnseen ==
    [][pc = "judge" /\ verdict' # verdict /\ NoWrap =>
            ~SeenAfterFrame]_vars

\* The pattern has been dark for WAIT_CLEAR_TICKS of real time when it is lit
\* (main.c:383-391), also when the counter wraps or a menu visit comes between.
DarkBeforeFlash ==
    [][~lit /\ lit' => Elapsed(dark, Now) >= WAIT_CLEAR_TICKS]_vars

\* As long as it is left in MODE_SAMPLING, the loop gives every sample it arms
\* a verdict: it leaves ST_WAIT_SAMPLE (main.c:396-420).  The premise leaves
\* time for it before the bound on the clock.
VerdictReached ==
    (/\ state = "ST_WAIT_SAMPLE" /\ epoch = MaxEpoch
     /\ state_start_ticks <= ticks
     /\ state_start_ticks + MAX_SAMPLE_TICKS < TickMod - 1)
      ~> (state # "ST_WAIT_SAMPLE" \/ mode # "MODE_SAMPLING")

\* The main loop turns for ever: wait_vblank (main.c:270-276) never misses the
\* interrupt that ends it.
LoopTurns == []<>(pc = "wait") /\ []<>(pc # "wait")
=============================================================================
