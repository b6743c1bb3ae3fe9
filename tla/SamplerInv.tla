---------------------------- MODULE SamplerInv ----------------------------
(* The inductive invariants of Sampler: checked by TLC, used by the proofs. *)
EXTENDS Sampler

\* A frame of level l is on the stack between its clock read and its return.
Active(l) == \E i \in 1..depth : frames[i].lvl = l

\* It has stored its ticks and not yet its sequence number.
HalfDone(l) == \E i \in 1..depth : frames[i].lvl = l /\ frames[i].pc = "seq"

FrameTime(i) == [epoch |-> frames[i].epoch, ticks |-> frames[i].res]

\* Main has found a capture in place and has not yet used it: the capture is
\* this sample's and no handler that could rewrite it is on the stack.
FrameHeld == pc \in {"cmp_sensor", "judge", "record"} =>
                frame_seq = sample_seq /\ ~Active(4)
SensorHeld == pc \in {"judge", "record"} =>
                sensor_seq = sample_seq /\ ~Active(6)

Ordered == pc = "record" => frame_ticks < sensor_ticks

\* How the sequence numbers follow the sample numbers, short of a full turn.
Gap(seq, no) ==
    /\ no <= sample_no
    /\ sample_no - no < SeqMod =>
            \/ sample_seq = seq + (sample_no - no)
            \/ sample_seq = seq + (sample_no - no) - SeqMod
FrameGap == Gap(frame_seq, frame_no)
SensorGap == Gap(sensor_seq, sensor_no)

\* What is captured for the current sample was captured after it was armed.
StackTimes == \A i \in 1..depth : NotAfter(arm, FrameTime(i))
ArmPast == NotAfter(arm, Now)
FrameTimes == frame_no = sample_no \/ HalfDone(4) => NotAfter(arm, FrameAt)
SensorTimes == sensor_no = sample_no \/ HalfDone(6) => NotAfter(arm, SensorAt)

\* The inductive invariant behind UnlockedReadsAgree and GenuineSample: while
\* main uses a capture (main.c:407-417) no handler can rewrite it, and every
\* capture on its way to main was made after the sample was armed.
IInv == /\ TypeOK
        /\ FrameHeld /\ SensorHeld /\ Ordered
        /\ FrameGap /\ SensorGap
        /\ StackTimes /\ ArmPast /\ FrameTimes /\ SensorTimes

\* Real time since the pattern was turned dark.
DarkTime == Elapsed(dark, Now)

\* The inductive invariant behind DarkBeforeFlash: ST_WAIT_CLEAR counts from
\* the instant the pattern went dark (main.c:377-380), and what follows it up to
\* the flash (main.c:389-391) is reached with the time over.
DarkInv ==
    /\ NotAfter(dark, Now)
    /\ state = "ST_WAIT_CLEAR" => state_start_ticks = dark.ticks
    /\ pc = "start" \/ state = "ST_START_SAMPLE" \/ "flash" \in todo =>
            DarkTime >= WAIT_CLEAR_TICKS
    /\ pc = "flash" => state = "ST_START_SAMPLE"
    /\ todo # {} => pc = "pair" /\ state = "ST_WAIT_SAMPLE"
    /\ pc = "start" => state = "ST_WAIT_CLEAR"
=============================================================================
