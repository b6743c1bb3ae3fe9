--------------------------- MODULE SamplerProofs ---------------------------
(***************************************************************************)
(* Proofs about Sampler for every value of the constants: its typing, that *)
(* main's unlocked reads agree, and that a recorded sample is genuine.     *)
(***************************************************************************)
EXTENDS SamplerInv, TLAPS

\* Sub, Inc: unsigned arithmetic stays in range.
LEMMA SubType == \A a, b \in Ticks : Sub(a, b) \in Ticks
BY ModAssumption DEF Ticks, Sub

LEMMA IncType == \A s \in Seqs : Inc(s) \in Seqs
BY ModAssumption DEF Seqs, Inc

\* The tick counter stays in range when it counts and when it wraps.
LEMMA TickType == TypeOK /\ Tick => ticks' \in Ticks /\ epoch' \in Nat
BY ModAssumption DEF TypeOK, Tick, Ticks

\* The constant records have their types.
LEMMA ConstantTypes ==
    /\ Free \in Frames /\ Boot \in Instants
    /\ NO_SAMPLE \in Verdicts /\ MISSING_SAMPLE \in Verdicts
    /\ \A d \in Ticks : NEW_SAMPLE(d) \in Verdicts
<1>1. 0 \in Ticks
  BY ModAssumption DEF Ticks
<1> QED
  BY <1>1 DEF Free, Frames, Boot, Instants, Verdicts, NO_SAMPLE, MISSING_SAMPLE,
              NEW_SAMPLE

\* The initial values have their types.
LEMMA TypeInit == Init => TypeOK
<1> SUFFICES ASSUME Init PROVE TypeOK
  OBVIOUS
<1>1. 0 \in Ticks /\ 0 \in Seqs
  BY ModAssumption DEF Ticks, Seqs
<1>2. depth \in 0..MaxNest
  BY BoundAssumption DEF Init
<1>3. frames \in [1..MaxNest -> Frames]
  BY ConstantTypes DEF Init
<1> QED
  BY <1>1, <1>2, <1>3, ConstantTypes, Zenon DEF Init, TypeOK, Pcs, Modes, States

\* One step keeps the types.
LEMMA TypeStep == TypeOK /\ [Next]_vars => TypeOK'
<1> SUFFICES ASSUME TypeOK, [Next]_vars PROVE TypeOK'
  OBVIOUS
<1> USE ModAssumption, BoundAssumption, SubType, ConstantTypes
    DEF TypeOK, mainVars, stateVars, flashVars, captureVars, frameVars,
        sensorVars, stackVars, clockVars
<1>1. CASE wait_vblank
  BY <1>1, Zenon DEF wait_vblank, Main, Pcs, Modes
<1>2. CASE do_sampling
  BY <1>2 DEF do_sampling, Branch, Main, CaseOf, Pcs, States
<1>3. CASE Clear
  BY <1>3, Zenon DEF Clear, Main, set_state, Pcs, States, Instants, Now
<1>4. CASE WaitClear
  BY <1>4 DEF WaitClear, Main, set_state, Pcs, States
<1>5. CASE StartSample
  BY <1>5 DEF StartSample, Main, set_state, Pcs, States
<1>6. CASE Flash
  BY <1>6 DEF Flash, StoreOf, Main, Pcs
<1>7. CASE Arm
  BY <1>7, IncType DEF Arm, StoreOf, Main, Pcs, Instants, Now
<1>8. CASE Timeout
  BY <1>8 DEF Timeout, Main, set_state, Pcs, States
<1>9. CASE CompareFrame
  BY <1>9 DEF CompareFrame, Branch, Main, Pcs
<1>10. CASE CompareSensor
  BY <1>10, Zenon DEF CompareSensor, Branch, Main, set_state, Pcs, States
<1>11. CASE Judge
  BY <1>11, Zenon DEF Judge, Branch, Main, Pcs
<1>12. CASE record_new_sample
  BY <1>12 DEF record_new_sample, Main, Pcs
<1>13. CASE Draw
  BY <1>13 DEF Draw, Main, Pcs
<1>14. CASE DrawMenu
  BY <1>14 DEF DrawMenu, Main, Pcs, Modes
<1>15. CASE DrawNoSensor
  BY <1>15 DEF DrawNoSensor, Main, Pcs, Modes
<1>16. CASE level2_handler
  BY <1>16 DEF level2_handler
<1>17. CASE level4_handler
  BY <1>17 DEF level4_handler, ReadClock, Frames
<1>18. CASE StoreFrameTicks
  <2>1. depth \in 1..MaxNest /\ frames[depth] \in Frames
    BY <1>18 DEF StoreFrameTicks, Running
  <2>2. frames' \in [1..MaxNest -> Frames]
    BY <1>18, <2>1, Zenon DEF StoreFrameTicks, Stored, Frames
  <2>3. frames[depth].res \in Ticks /\ frames[depth].epoch \in Nat
    BY <2>1 DEF Frames
  <2> QED
    BY <1>18, <2>2, <2>3 DEF StoreFrameTicks, Stored
<1>19. CASE StoreFrameSeq
  BY <1>19 DEF StoreFrameSeq, Running, Rte
<1>20. CASE level6_handler
  BY <1>20 DEF level6_handler, ReadClock, Frames
<1>21. CASE StoreSensorTicks
  <2>1. depth \in 1..MaxNest /\ frames[depth] \in Frames
    BY <1>21 DEF StoreSensorTicks, Running
  <2>2. frames' \in [1..MaxNest -> Frames]
    BY <1>21, <2>1, Zenon DEF StoreSensorTicks, Stored, Frames
  <2>3. frames[depth].res \in Ticks /\ frames[depth].epoch \in Nat
    BY <2>1 DEF Frames
  <2> QED
    BY <1>21, <2>2, <2>3 DEF StoreSensorTicks, Stored
<1>22. CASE StoreSensorSeq
  BY <1>22 DEF StoreSensorSeq, Running, Rte
<1>23. CASE Tick
  <2>1. ticks' \in Ticks /\ epoch' \in Nat
    BY <1>23, TickType
  <2> QED
    BY <1>23, <2>1 DEF Tick
<1>24. CASE UNCHANGED vars
  BY <1>24 DEF vars
<1> QED
  BY <1>1, <1>2, <1>3, <1>4, <1>5, <1>6, <1>7, <1>8, <1>9, <1>10, <1>11, <1>12, Zenon,
     <1>13, <1>14, <1>15, <1>16, <1>17, <1>18, <1>19, <1>20, <1>21, <1>22, <1>23,
     <1>24 DEF Next, MainStep, HandlerStep
\* Every variable keeps its type, among them the 32-bit ticks and the 16-bit
\* sequence numbers of main.c:36-43 and the stack of handlers.
THEOREM TypeCorrect == Spec => []TypeOK
<1>1. Init => TypeOK
  BY TypeInit
<1>2. TypeOK /\ [Next]_vars => TypeOK'
  BY TypeStep
<1> QED
  BY <1>1, <1>2, PTL DEF Spec

\* Boot is not after any instant, and an instant is not after itself.
LEMMA BootFirst == \A e \in Nat, t \in Ticks : NotAfter(Boot, [epoch |-> e, ticks |-> t])
BY ModAssumption DEF NotAfter, Boot, Ticks

\* The invariant holds when main starts.
LEMMA InvInit == Init => IInv
<1> SUFFICES ASSUME Init PROVE IInv
  OBVIOUS
<1>1. TypeOK
  BY TypeInit
<1>2. FrameHeld /\ SensorHeld /\ Ordered
  BY DEF Init, FrameHeld, SensorHeld, Ordered
<1>3. FrameGap /\ SensorGap
  BY ModAssumption DEF Init, FrameGap, SensorGap, Gap
<1>4. StackTimes /\ ArmPast /\ FrameTimes /\ SensorTimes
  BY DEF Init, StackTimes, ArmPast, FrameTimes, SensorTimes, HalfDone, NotAfter,
         Boot, Now, FrameAt, SensorAt
<1> QED
  BY <1>1, <1>2, <1>3, <1>4 DEF IInv

\* A step of main that leaves the sequence numbers, the captures and the arming
\* time alone, and does not go on to use a capture, keeps the invariant.
LEMMA QuietStep ==
    ASSUME IInv, TypeOK', depth = 0, pc' \notin {"cmp_sensor", "judge", "record"},
           UNCHANGED <<captureVars, stackVars, clockVars, sample_seq, sample_no, arm>>
    PROVE  IInv'
BY DEF IInv, FrameHeld, SensorHeld, Ordered, FrameGap, SensorGap, Gap, StackTimes,
       ArmPast, FrameTimes, SensorTimes, HalfDone, NotAfter, FrameTime, Now, FrameAt,
       SensorAt, captureVars, frameVars, sensorVars, stackVars, clockVars

\* Every step keeps the invariant.
LEMMA InvStep == IInv /\ [Next]_vars => IInv'
<1> SUFFICES ASSUME IInv, [Next]_vars PROVE IInv'
  OBVIOUS
<1>t. TypeOK /\ TypeOK'
  BY TypeStep DEF IInv
<1> USE DEF mainVars, stateVars, flashVars
<1>1. CASE wait_vblank
  <2>1. pc' \in {"poll", "menu", "no_sensor"}
    BY <1>1, <1>t DEF wait_vblank, Main, TypeOK, Modes
  <2> QED
    BY <1>1, <1>t, <2>1, QuietStep, Zenon DEF wait_vblank, Main
<1>2. CASE do_sampling
  <2>1. pc' \notin {"cmp_sensor", "judge", "record"}
    BY <1>2, <1>t DEF do_sampling, Branch, Main, CaseOf, TypeOK, States
  <2> QED
    BY <1>2, <1>t, <2>1, QuietStep DEF do_sampling, Branch, Main
<1>3. CASE WaitClear \/ StartSample \/ Flash \/ Timeout \/ Draw \/ DrawMenu \/ DrawNoSensor
  BY <1>3, <1>t, QuietStep
     DEF WaitClear, StartSample, Flash, StoreOf, Timeout, Draw, DrawMenu,
         DrawNoSensor, Main
<1>4. CASE Clear
  <2>1. NotAfter(arm', FrameAt') /\ NotAfter(arm', SensorAt') /\ NotAfter(arm', Now')
    BY <1>4, <1>t, BootFirst DEF Clear, TypeOK, FrameAt, SensorAt, Now
  <2> QED
    BY <1>4, <1>t, <2>1
       DEF Clear, Main, IInv, FrameHeld, SensorHeld, Ordered, FrameGap, SensorGap,
           Gap, StackTimes, ArmPast, FrameTimes, SensorTimes, captureVars,
           frameVars, sensorVars, stackVars, clockVars
<1>5. CASE Arm
  <2>1. /\ depth = 0 /\ pc' \in {"pair", "draw"}
        /\ UNCHANGED <<captureVars, stackVars, clockVars>>
    BY <1>5 DEF Arm, StoreOf, Main
  <2>2. FrameGap' /\ SensorGap'
    BY <1>5, <1>t, <2>1, ModAssumption
       DEF Arm, Inc, IInv, FrameGap, SensorGap, Gap, TypeOK, Seqs, captureVars,
           frameVars, sensorVars
  <2>3. frame_no' # sample_no' /\ sensor_no' # sample_no'
    BY <1>5, <1>t, <2>1
       DEF Arm, IInv, FrameGap, SensorGap, Gap, TypeOK, captureVars, frameVars,
           sensorVars
  <2>4. FrameHeld' /\ SensorHeld' /\ Ordered'
    BY <2>1 DEF FrameHeld, SensorHeld, Ordered
  <2>5. StackTimes' /\ ArmPast' /\ FrameTimes' /\ SensorTimes'
    BY <1>5, <1>t, <2>1, <2>3
       DEF Arm, StackTimes, ArmPast, FrameTimes, SensorTimes, HalfDone, NotAfter,
           Now, TypeOK, Ticks, stackVars, clockVars
  <2> QED
    BY <1>t, <2>2, <2>4, <2>5 DEF IInv
<1>6. CASE CompareFrame \/ CompareSensor \/ Judge \/ record_new_sample
  <2>1. /\ depth = 0 /\ UNCHANGED <<captureVars, stackVars, clockVars, flashVars>>
    BY <1>6 DEF CompareFrame, CompareSensor, Judge, record_new_sample, Branch, Main
  <2>2. FrameHeld' /\ SensorHeld' /\ Ordered'
    <3>1. /\ ~Active(4)' /\ ~Active(6)'
          /\ UNCHANGED <<frame_seq, sensor_seq, frame_ticks, sensor_ticks, sample_seq>>
      BY <2>1 DEF Active, captureVars, frameVars, sensorVars, stackVars, flashVars
    <3>2. \/ pc' = "draw"
          \/ pc' = "cmp_sensor" /\ frame_seq = sample_seq
          \/ pc = "cmp_sensor" /\ pc' = "judge" /\ sensor_seq = sample_seq
          \/ pc = "judge" /\ pc' = "record" /\ frame_ticks < sensor_ticks
      BY <1>6 DEF CompareFrame, CompareSensor, Judge, Answered, record_new_sample, Branch, Main
    <3>3. /\ pc \in {"cmp_sensor", "judge"} => frame_seq = sample_seq
          /\ pc = "judge" => sensor_seq = sample_seq
      BY DEF IInv, FrameHeld, SensorHeld
    <3> QED
      BY <3>1, <3>2, <3>3 DEF FrameHeld, SensorHeld, Ordered
  <2>3. FrameGap' /\ SensorGap'
    BY <2>1 DEF IInv, FrameGap, SensorGap, Gap, captureVars, frameVars, sensorVars
  <2>4. StackTimes' /\ ArmPast'
    BY <2>1 DEF IInv, StackTimes, ArmPast, FrameTime, Now, flashVars, stackVars, clockVars
  <2>5. FrameTimes' /\ SensorTimes'
    BY <2>1 DEF IInv, FrameTimes, SensorTimes, HalfDone, FrameAt, SensorAt,
                captureVars, frameVars, sensorVars, flashVars, stackVars
  <2> QED
    BY <1>t, <2>2, <2>3, <2>4, <2>5 DEF IInv
<1>7. CASE level2_handler
  BY <1>7, <1>t
     DEF level2_handler, IInv, FrameHeld, SensorHeld, Ordered, FrameGap, SensorGap,
         Gap, StackTimes, ArmPast, FrameTimes, SensorTimes, Active, HalfDone, Now,
         FrameAt, SensorAt, FrameTime, captureVars, frameVars, sensorVars,
         stackVars, clockVars
<1>8. ASSUME NEW l \in {4, 6}, NEW seq, ReadClock(l, seq),
             l = 4 => seq = frame_seq, l = 6 => seq = sensor_seq
      PROVE  IInv'
  <2>1. /\ depth \in Nat /\ depth' = depth + 1 /\ depth' \in 1..MaxNest
        /\ frames \in [1..MaxNest -> Frames]
        /\ \A i \in 1..depth : i \in 1..MaxNest /\ frames'[i] = frames[i]
        /\ frames'[depth'] = [lvl |-> l, pc |-> "store", res |-> ticks, epoch |-> epoch]
        /\ UNCHANGED <<mainVars, captureVars, clockVars>>
    <3>1. /\ depth \in Nat /\ depth + 1 \in 1..MaxNest
          /\ \A i \in 1..depth : i \in 1..MaxNest /\ i # depth + 1
          /\ frames \in [1..MaxNest -> Frames]
      BY <1>8, <1>t, BoundAssumption DEF ReadClock, TypeOK
    <3> QED
      BY <1>8, <3>1 DEF ReadClock
  <2>2. \A k \in {4, 6} : Active(k)' => Active(k) \/ k = l
    BY <2>1 DEF Active
  <2>3. \A k \in {4, 6} : HalfDone(k)' => HalfDone(k)
    BY <2>1 DEF HalfDone
  <2>4. FrameHeld' /\ SensorHeld' /\ Ordered'
    BY <1>8, <2>1, <2>2
       DEF ReadClock, Due, IInv, FrameHeld, SensorHeld, Ordered, captureVars, frameVars,
           sensorVars
  <2>5. FrameGap' /\ SensorGap'
    BY <2>1 DEF IInv, FrameGap, SensorGap, Gap, captureVars, frameVars, sensorVars
  <2>6. StackTimes'
    BY <2>1 DEF IInv, StackTimes, ArmPast, FrameTime, NotAfter, Now, clockVars
  <2>7. ArmPast' /\ FrameTimes' /\ SensorTimes'
    BY <2>1, <2>3 DEF IInv, ArmPast, FrameTimes, SensorTimes, Now, FrameAt, SensorAt,
                      captureVars, frameVars, sensorVars, clockVars
  <2> QED
    BY <1>t, <2>4, <2>5, <2>6, <2>7 DEF IInv
<1>9. CASE HandlerStep
  <2> DEFINE f == frames[depth]
  <2>1. /\ depth \in 1..MaxNest /\ depth \in Nat
        /\ frames \in [1..MaxNest -> Frames]
        /\ \A i \in 1..depth : i \in 1..MaxNest
        /\ UNCHANGED <<mainVars, clockVars>>
    <3>1. depth > 0 /\ UNCHANGED <<mainVars, clockVars>>
      BY <1>9 DEF HandlerStep, StoreFrameTicks, StoreFrameSeq, StoreSensorTicks,
                  StoreSensorSeq, Running, Stored, Rte
    <3>2. depth \in 0..MaxNest /\ frames \in [1..MaxNest -> Frames]
      BY DEF IInv, TypeOK
    <3> QED
      BY <3>1, <3>2, BoundAssumption
  <2>2. ASSUME Stored
        PROVE  /\ depth' = depth
               /\ \A i \in 1..depth : i # depth => frames'[i] = frames[i]
               /\ frames'[depth].lvl = f.lvl /\ frames'[depth].pc = "seq"
               /\ frames'[depth].res = f.res /\ frames'[depth].epoch = f.epoch
    BY <2>1, <2>2 DEF Stored, Frames
  <2>3. ASSUME Rte
        PROVE  /\ depth' = depth - 1 /\ depth' \in Nat
               /\ \A i \in 1..depth' : i \in 1..depth /\ frames'[i] = frames[i]
    BY <2>1, <2>3 DEF Rte
  <2>4. Active(f.lvl)
    BY <2>1 DEF Active
  <2>5. \A k \in {4, 6} : Active(k)' => Active(k)
    BY <1>9, <2>1, <2>2, <2>3
       DEF HandlerStep, StoreFrameTicks, StoreFrameSeq, StoreSensorTicks,
           StoreSensorSeq, Active
  <2>6. StackTimes'
    BY <1>9, <2>1, <2>2, <2>3
       DEF HandlerStep, StoreFrameTicks, StoreFrameSeq, StoreSensorTicks,
           StoreSensorSeq, IInv, StackTimes, FrameTime
  <2>7. ArmPast'
    BY <2>1 DEF IInv, ArmPast, Now, clockVars
  <2>8. NotAfter(arm, [epoch |-> f.epoch, ticks |-> f.res])
    BY <2>1 DEF IInv, StackTimes, FrameTime
  <2>9. CASE StoreFrameTicks
    <3>1. f.lvl = 4 /\ \A k \in {6} : HalfDone(k)' => HalfDone(k)
      BY <2>9, <2>1, <2>2 DEF StoreFrameTicks, Running, HalfDone
    <3>2. FrameHeld' /\ SensorHeld' /\ Ordered'
      BY <2>9, <2>1, <2>4, <2>5, <3>1
         DEF StoreFrameTicks, IInv, FrameHeld, SensorHeld, Ordered, sensorVars
    <3>3. FrameGap' /\ SensorGap'
      BY <2>9, <2>1 DEF StoreFrameTicks, IInv, FrameGap, SensorGap, Gap, sensorVars
    <3>4. FrameTimes' /\ SensorTimes'
      BY <2>9, <2>1, <2>8, <3>1
         DEF StoreFrameTicks, IInv, FrameTimes, SensorTimes, FrameAt, SensorAt,
             sensorVars
    <3> QED
      BY <1>t, <2>6, <2>7, <3>2, <3>3, <3>4 DEF IInv
  <2>10. CASE StoreFrameSeq
    <3>1. f.lvl = 4 /\ HalfDone(4) /\ (HalfDone(6)' => HalfDone(6))
      <4>1. f.lvl = 4 /\ f.pc = "seq" /\ Rte
        BY <2>10 DEF StoreFrameSeq, Running
      <4>2. HalfDone(4)
        BY <2>1, <4>1 DEF HalfDone
      <4>3. HalfDone(6)' => HalfDone(6)
        BY <2>3, <4>1 DEF HalfDone
      <4> QED
        BY <4>1, <4>2, <4>3
    <3>2. FrameHeld' /\ SensorHeld' /\ Ordered'
      BY <2>10, <2>1, <2>4, <2>5, <3>1
         DEF StoreFrameSeq, IInv, FrameHeld, SensorHeld, Ordered, sensorVars
    <3>3. FrameGap' /\ SensorGap'
      <4>1. /\ frame_seq' = sample_seq /\ frame_no' = sample_no
            /\ UNCHANGED <<sensor_seq, sensor_no, sample_seq, sample_no>>
        BY <2>10, <2>1 DEF StoreFrameSeq, sensorVars, mainVars, stateVars, flashVars
      <4>2. sample_seq \in Nat /\ sample_no \in Nat
        BY ModAssumption DEF IInv, TypeOK, Seqs
      <4>3. FrameGap'
        BY <4>1, <4>2 DEF FrameGap, Gap
      <4>4. SensorGap'
        BY <4>1 DEF IInv, SensorGap, Gap
      <4> QED
        BY <4>3, <4>4
    <3>4. FrameTimes' /\ SensorTimes'
      BY <2>10, <2>1, <3>1
         DEF StoreFrameSeq, IInv, FrameTimes, SensorTimes, FrameAt, SensorAt,
             sensorVars
    <3> QED
      BY <1>t, <2>6, <2>7, <3>2, <3>3, <3>4 DEF IInv
  <2>11. CASE StoreSensorTicks
    <3>1. f.lvl = 6 /\ (HalfDone(4)' => HalfDone(4))
      BY <2>11, <2>1, <2>2 DEF StoreSensorTicks, Running, HalfDone
    <3>2. FrameHeld' /\ SensorHeld' /\ Ordered'
      BY <2>11, <2>1, <2>4, <2>5, <3>1
         DEF StoreSensorTicks, IInv, FrameHeld, SensorHeld, Ordered, frameVars
    <3>3. FrameGap' /\ SensorGap'
      BY <2>11, <2>1 DEF StoreSensorTicks, IInv, FrameGap, SensorGap, Gap, frameVars
    <3>4. FrameTimes' /\ SensorTimes'
      BY <2>11, <2>1, <2>8, <3>1
         DEF StoreSensorTicks, IInv, FrameTimes, SensorTimes, FrameAt, SensorAt,
             frameVars
    <3> QED
      BY <1>t, <2>6, <2>7, <3>2, <3>3, <3>4 DEF IInv
  <2>12. CASE StoreSensorSeq
    <3>1. f.lvl = 6 /\ HalfDone(6) /\ (HalfDone(4)' => HalfDone(4))
      <4>1. f.lvl = 6 /\ f.pc = "seq" /\ Rte
        BY <2>12 DEF StoreSensorSeq, Running
      <4>2. HalfDone(6)
        BY <2>1, <4>1 DEF HalfDone
      <4>3. HalfDone(4)' => HalfDone(4)
        BY <2>3, <4>1 DEF HalfDone
      <4> QED
        BY <4>1, <4>2, <4>3
    <3>2. FrameHeld' /\ SensorHeld' /\ Ordered'
      BY <2>12, <2>1, <2>4, <2>5, <3>1
         DEF StoreSensorSeq, IInv, FrameHeld, SensorHeld, Ordered, frameVars
    <3>3. FrameGap' /\ SensorGap'
      <4>1. /\ sensor_seq' = sample_seq /\ sensor_no' = sample_no
            /\ UNCHANGED <<frame_seq, frame_no, sample_seq, sample_no>>
        BY <2>12, <2>1 DEF StoreSensorSeq, frameVars, mainVars, stateVars, flashVars
      <4>2. sample_seq \in Nat /\ sample_no \in Nat
        BY ModAssumption DEF IInv, TypeOK, Seqs
      <4>3. SensorGap'
        BY <4>1, <4>2 DEF SensorGap, Gap
      <4>4. FrameGap'
        BY <4>1 DEF IInv, FrameGap, Gap
      <4> QED
        BY <4>3, <4>4
    <3>4. FrameTimes' /\ SensorTimes'
      BY <2>12, <2>1, <3>1
         DEF StoreSensorSeq, IInv, FrameTimes, SensorTimes, FrameAt, SensorAt,
             frameVars
    <3> QED
      BY <1>t, <2>6, <2>7, <3>2, <3>3, <3>4 DEF IInv
  <2> QED
    BY <1>9, <2>9, <2>10, <2>11, <2>12 DEF HandlerStep
<1>10. CASE Tick
  <2>1. ArmPast'
    <3>1. /\ arm.epoch \in Nat /\ arm.ticks \in Nat /\ epoch \in Nat /\ ticks \in Nat
          /\ arm' = arm
      BY <1>10, <1>t, ModAssumption DEF Tick, TypeOK, Instants, Ticks
    <3>2. arm.epoch < epoch \/ (arm.epoch = epoch /\ arm.ticks <= ticks)
      BY DEF IInv, ArmPast, NotAfter, Now
    <3>3. \/ epoch' = epoch /\ ticks' = ticks + 1
          \/ epoch' = epoch + 1
      BY <1>10 DEF Tick
    <3> QED
      BY <3>1, <3>2, <3>3 DEF ArmPast, NotAfter, Now
  <2> QED
    BY <1>10, <1>t, <2>1
       DEF Tick, IInv, FrameHeld, SensorHeld, Ordered, FrameGap, SensorGap, Gap,
           StackTimes, FrameTimes, SensorTimes, Active, HalfDone, FrameAt, SensorAt,
           FrameTime, captureVars, frameVars, sensorVars, stackVars
<1>11. CASE UNCHANGED vars
  BY <1>11, <1>t
     DEF vars, IInv, FrameHeld, SensorHeld, Ordered, FrameGap, SensorGap, Gap,
         StackTimes, ArmPast, FrameTimes, SensorTimes, Active, HalfDone, Now,
         FrameAt, SensorAt, FrameTime, captureVars, frameVars, sensorVars,
         stackVars, clockVars
<1>12. level4_handler \/ level6_handler => IInv'
  BY <1>8 DEF level4_handler, level6_handler
<1> QED
  BY <1>1, <1>2, <1>3, <1>4, <1>5, <1>6, <1>7, <1>9, <1>10, <1>11, <1>12
     DEF Next, MainStep

\* The invariant holds throughout.
THEOREM Invariance == Spec => []IInv
BY InvInit, InvStep, PTL DEF Spec

\* main.c:407-416 reads each captured tick without a lock and never sees it
\* change between the reads.
THEOREM UnlockedReads == Spec => UnlockedReadsAgree
<1> DEFINE A == /\ pc \in {"cmp_sensor", "judge", "record"} =>
                        UNCHANGED <<frame_seq, frame_ticks>>
                /\ pc \in {"judge", "record"} => UNCHANGED <<sensor_seq, sensor_ticks>>
<1>1. IInv /\ [Next]_vars => [A]_vars
  <2> SUFFICES ASSUME IInv, Next PROVE A
    BY Zenon
  <2>1. CASE HandlerStep
    <3>1. depth \in 1..depth
      <4>1. depth > 0
        BY <2>1, Zenon DEF HandlerStep, StoreFrameTicks, StoreFrameSeq, StoreSensorTicks,
                           StoreSensorSeq, Running
      <4>2. depth \in Nat
        BY BoundAssumption DEF IInv, TypeOK
      <4> QED
        BY <4>1, <4>2
    <3> QED
      BY <2>1, <3>1
         DEF HandlerStep, StoreFrameTicks, StoreFrameSeq, StoreSensorTicks,
             StoreSensorSeq, Running, IInv, FrameHeld, SensorHeld, Active,
             frameVars, sensorVars
  <2>2. CASE MainStep \/ level2_handler \/ level4_handler \/ level6_handler \/ Tick
    <3>1. CASE wait_vblank \/ do_sampling \/ Clear \/ WaitClear \/ StartSample \/ Flash \/ Arm
      BY <3>1, Zenon DEF wait_vblank, do_sampling, Clear, WaitClear, StartSample, Flash, Arm,
                         StoreOf, Branch, Main, captureVars, frameVars, sensorVars
    <3>2. CASE Timeout \/ CompareFrame \/ CompareSensor \/ Judge \/ record_new_sample
      BY <3>2, Zenon DEF Timeout, CompareFrame, CompareSensor, Judge, record_new_sample,
                         Branch, Main, captureVars, frameVars, sensorVars
    <3>3. CASE Draw \/ DrawMenu \/ DrawNoSensor
      BY <3>3, Zenon DEF Draw, DrawMenu, DrawNoSensor, Main, captureVars, frameVars, sensorVars
    <3>4. CASE level2_handler \/ level4_handler \/ level6_handler \/ Tick
      BY <3>4, Zenon DEF level2_handler, level4_handler, level6_handler, ReadClock, Tick,
                         captureVars, frameVars, sensorVars
    <3> QED
      BY <2>2, <3>1, <3>2, <3>3, <3>4, Zenon DEF MainStep
  <2> QED
    BY <2>1, <2>2 DEF Next
<1> QED
  BY <1>1, Invariance, PTL DEF Spec, UnlockedReadsAgree

\* What main uses is of the current sample, short of a full turn of sample_seq.
LEMMA CurrentSample ==
    ASSUME IInv, pc \in {"judge", "record"},
           sample_no - frame_no < SeqMod, sample_no - sensor_no < SeqMod
    PROVE  /\ frame_no = sample_no /\ sensor_no = sample_no
           /\ NotAfter(arm, FrameAt)
<1>1. frame_seq = sample_seq /\ sensor_seq = sample_seq
  BY DEF IInv, FrameHeld, SensorHeld
<1>2. frame_no = sample_no /\ sensor_no = sample_no
  BY <1>1, ModAssumption DEF IInv, TypeOK, Seqs, FrameGap, SensorGap, Gap
<1> QED
  BY <1>2 DEF IInv, FrameTimes

\* main.c:416-417 records the time from the frame start to the sensor's answer,
\* both captured for the sample being judged, unless a counter wrapped.
THEOREM Genuine == Spec => GenuineSample
<1> DEFINE A == pc = "record" /\ verdict' # verdict /\ NoWrap =>
                    SeenAfterFrame /\ verdict' = NEW_SAMPLE(Elapsed(FrameAt, SensorAt))
<1>1. IInv /\ [Next]_vars => [A]_vars
  <2> SUFFICES ASSUME IInv, Next, pc = "record", verdict' # verdict, NoWrap
               PROVE  SeenAfterFrame /\ verdict' = NEW_SAMPLE(Elapsed(FrameAt, SensorAt))
    BY Zenon
  <2>1. record_new_sample
    BY DEF Next, MainStep, wait_vblank, do_sampling, Clear, WaitClear, StartSample,
           Flash, Arm, StoreOf, Timeout, CompareFrame, CompareSensor, Judge, Draw,
           DrawMenu, DrawNoSensor, Branch, Main, HandlerStep, StoreFrameTicks,
           StoreFrameSeq, StoreSensorTicks, StoreSensorSeq, Stored, Rte,
           level2_handler, level4_handler, level6_handler, ReadClock, Tick, mainVars
  <2>2. frame_ticks < sensor_ticks /\ frame_epoch = sensor_epoch
    BY DEF IInv, Ordered, NoWrap
  <2>3. /\ frame_no = sample_no /\ sensor_no = sample_no
        /\ NotAfter(arm, FrameAt)
    BY CurrentSample DEF NoWrap
  <2>4. NotAfter(FrameAt, SensorAt) /\ FrameAt # SensorAt
    BY <2>2 DEF NotAfter, FrameAt, SensorAt, IInv, TypeOK, Ticks
  <2>5. Elapsed(FrameAt, SensorAt) = sensor_ticks - frame_ticks
    BY <2>2, ModAssumption DEF Elapsed, FrameAt, SensorAt, IInv, TypeOK, Ticks
  <2>6. verdict' = NEW_SAMPLE(sensor_ticks - frame_ticks)
    BY <2>1, <2>2, ModAssumption DEF record_new_sample, Sub, IInv, TypeOK, Ticks
  <2> QED
    BY <2>3, <2>4, <2>5, <2>6 DEF SeenAfterFrame
<1> QED
  BY <1>1, Invariance, PTL DEF Spec, GenuineSample

\* main.c:410-413 calls a sample missing only if the sensor did not answer after
\* the frame start, unless a counter wrapped.
THEOREM Missing == Spec => MissingUnseen
<1> DEFINE A == pc = "judge" /\ verdict' # verdict /\ NoWrap => ~SeenAfterFrame
<1>1. IInv /\ [Next]_vars => [A]_vars
  <2> SUFFICES ASSUME IInv, Next, pc = "judge", verdict' # verdict, NoWrap
               PROVE  ~SeenAfterFrame
    BY Zenon
  <2>1. ~Answered
    BY DEF Next, MainStep, wait_vblank, do_sampling, Clear, WaitClear, StartSample,
           Flash, Arm, StoreOf, Timeout, CompareFrame, CompareSensor, Judge, Draw,
           record_new_sample, DrawMenu, DrawNoSensor, Branch, Main, HandlerStep,
           StoreFrameTicks, StoreFrameSeq, StoreSensorTicks, StoreSensorSeq, Stored,
           Rte, level2_handler, level4_handler, level6_handler, ReadClock, Tick,
           mainVars
  <2>2. frame_epoch = sensor_epoch
    BY DEF NoWrap
  <2>3. frame_ticks \in Int /\ sensor_ticks \in Int /\ frame_epoch \in Int
    BY ModAssumption DEF IInv, TypeOK, Ticks
  <2> QED
    BY <2>1, <2>2, <2>3 DEF Answered, SeenAfterFrame, NotAfter, FrameAt, SensorAt
<1> QED
  BY <1>1, Invariance, PTL DEF Spec, MissingUnseen

\* Elapsed counts the ticks, across a wrap of the counter as well.
LEMMA DarkTimeType ==
    ASSUME TypeOK
    PROVE  /\ DarkTime = (epoch - dark.epoch) * TickMod + ticks - dark.ticks
           /\ dark.epoch \in Nat /\ dark.ticks \in Ticks /\ DarkTime \in Int
<1>1. dark.epoch \in Nat /\ dark.ticks \in Ticks
  BY DEF TypeOK, Instants
<1>2. DarkTime = (epoch - dark.epoch) * TickMod + ticks - dark.ticks
  BY DEF DarkTime, Elapsed, Now
<1> QED
  BY <1>1, <1>2, ModAssumption DEF TypeOK, Ticks

\* One epoch more is TickMod ticks more.
LEMMA OneMore == \A a, m \in Int : (a + 1) * m = a * m + m
OBVIOUS

\* A tick adds one to the dark time, also when it wraps the counter.
LEMMA DarkTimeTick ==
    ASSUME TypeOK, Tick
    PROVE  DarkTime' = DarkTime + 1
<1> DEFINE P == (epoch - dark.epoch) * TickMod
           Q == (epoch' - dark.epoch) * TickMod
<1>1. DarkTime' = Q + ticks' - dark.ticks /\ DarkTime = P + ticks - dark.ticks
  BY DEF DarkTime, Elapsed, Now, Tick, mainVars, flashVars
<1>2. /\ P \in Int /\ ticks \in Int /\ dark.ticks \in Int /\ TickMod \in Int
      /\ \/ epoch' = epoch /\ ticks' = ticks + 1
         \/ epoch' = epoch + 1 /\ ticks' = 0 /\ ticks = TickMod - 1
  BY DarkTimeType, ModAssumption DEF Tick, TypeOK, Ticks
<1>3. epoch' = epoch => Q = P
  OBVIOUS
<1>4. epoch' = epoch + 1 => Q = P + TickMod
  <2>1. epoch \in Int /\ dark.epoch \in Int /\ TickMod \in Int
    BY DarkTimeType, ModAssumption DEF TypeOK
  <2>2. ASSUME epoch' = epoch + 1
        PROVE  epoch' - dark.epoch = (epoch - dark.epoch) + 1
    BY <2>1, <2>2
  <2>3. (epoch - dark.epoch) \in Int
    BY <2>1
  <2>4. ((epoch - dark.epoch) + 1) * TickMod = (epoch - dark.epoch) * TickMod + TickMod
    BY <2>1, <2>3, OneMore
  <2> QED
    BY <2>2, <2>4
<1> HIDE DEF P, Q
<1> QED
  BY <1>1, <1>2, <1>3, <1>4

\* The 32-bit difference never exceeds the real time.
LEMMA SubBelowDarkTime ==
    ASSUME TypeOK, NotAfter(dark, Now)
    PROVE  Sub(ticks, dark.ticks) <= DarkTime
<1>1. dark.epoch < epoch \/ (dark.epoch = epoch /\ dark.ticks <= ticks)
  BY DEF NotAfter, Now
<1>2. CASE dark.epoch = epoch /\ dark.ticks <= ticks
  BY <1>2, DarkTimeType, ModAssumption DEF TypeOK, Ticks, Sub
<1>3. CASE dark.epoch < epoch
  <2>1. (epoch - dark.epoch) * TickMod >= TickMod
    BY <1>3, DarkTimeType, ModAssumption DEF TypeOK
  <2> QED
    <3> DEFINE P == (epoch - dark.epoch) * TickMod
    <3>1. /\ P \in Int /\ P >= TickMod /\ DarkTime = P + ticks - dark.ticks
          /\ ticks \in Int /\ dark.ticks \in Int /\ TickMod \in Int /\ TickMod > 0
      BY <2>1, DarkTimeType, ModAssumption DEF TypeOK, Ticks
    <3> HIDE DEF P
    <3> QED
      BY <3>1 DEF Sub
<1> QED
  BY <1>1, <1>2, <1>3

\* A step that leaves the clock and the dark instant alone, and neither starts
\* counting the dark time nor comes nearer to the flash, keeps DarkInv.
LEMMA DarkStep == TypeOK /\ DarkInv /\ [Next]_vars => DarkInv'
<1> SUFFICES ASSUME TypeOK, DarkInv, [Next]_vars PROVE DarkInv'
  OBVIOUS
<1> USE DEF mainVars, stateVars, flashVars, clockVars
<1>1. CASE do_sampling
  <2>1. /\ UNCHANGED <<state, state_start_ticks, todo, dark, ticks, epoch>>
        /\ DarkTime' = DarkTime
    BY <1>1 DEF do_sampling, Branch, Main, DarkTime, Elapsed, Now
  <2>2. pc = "poll" /\ pc' = CaseOf(Sub(ticks, state_start_ticks))
    BY <1>1 DEF do_sampling, Branch, Main
  <2>3. pc' = "start" => state = "ST_WAIT_CLEAR"
                         /\ Sub(ticks, state_start_ticks) >= WAIT_CLEAR_TICKS
    BY <2>2 DEF CaseOf, TypeOK, States
  <2>4. pc' = "start" => DarkTime >= WAIT_CLEAR_TICKS
    <3>1. Sub(ticks, dark.ticks) \in Int /\ DarkTime \in Int
      <4>1. ticks \in Ticks /\ dark.ticks \in Ticks /\ DarkTime \in Int
        BY DarkTimeType DEF TypeOK
      <4>2. Sub(ticks, dark.ticks) \in Ticks
        BY <4>1, SubType
      <4> QED
        BY <4>1, <4>2, ModAssumption DEF Ticks
    <3> QED
      BY <2>3, <3>1, SubBelowDarkTime, LimitAssumption DEF DarkInv
  <2>5. pc' = "flash" => state = "ST_START_SAMPLE"
    BY <2>2 DEF CaseOf, TypeOK, States
  <2> QED
    BY <2>1, <2>2, <2>3, <2>4, <2>5 DEF DarkInv, Now
<1>2. CASE Clear
  <2>1. /\ pc = "clear" /\ pc' = "draw" /\ state' = "ST_WAIT_CLEAR" /\ todo' = todo
        /\ dark' = Now /\ state_start_ticks' = ticks /\ Now' = Now
    BY <1>2 DEF Clear, Main, set_state, Now, clockVars
  <2>2. NotAfter(Now, Now) /\ Now.ticks = ticks
    BY ModAssumption DEF NotAfter, Now, TypeOK, Ticks
  <2>3. todo = {}
    BY <2>1 DEF DarkInv
  <2> QED
    BY <2>1, <2>2, <2>3 DEF DarkInv
<1>3. CASE Flash
  <2>1. NotAfter(dark', Now')
    BY <1>3, BootFirst DEF Flash, StoreOf, Main, Now, TypeOK
  <2> QED
    BY <1>3, <2>1 DEF Flash, StoreOf, Main, DarkInv
<1>4. CASE Tick
  <2>1. DarkTime' = DarkTime + 1 /\ DarkTime \in Int
    BY <1>4, DarkTimeTick, DarkTimeType
  <2>2. NotAfter(dark, Now)'
    <3>1. /\ dark.epoch \in Nat /\ dark.ticks \in Nat /\ epoch \in Nat /\ ticks \in Nat
          /\ dark' = dark
      BY <1>4, DarkTimeType, ModAssumption DEF Tick, TypeOK, Ticks
    <3>2. dark.epoch < epoch \/ (dark.epoch = epoch /\ dark.ticks <= ticks)
      BY DEF DarkInv, NotAfter, Now
    <3>3. \/ epoch' = epoch /\ ticks' = ticks + 1
          \/ epoch' = epoch + 1
      BY <1>4 DEF Tick
    <3> QED
      BY <3>1, <3>2, <3>3 DEF NotAfter, Now
  <2> QED
    BY <1>4, <2>1, <2>2, LimitAssumption DEF Tick, DarkInv
<1>5. ASSUME UNCHANGED <<dark, ticks, epoch>>
      PROVE  DarkTime' = DarkTime /\ (NotAfter(dark, Now))' = NotAfter(dark, Now)
  BY <1>5 DEF DarkTime, Elapsed, NotAfter, Now
<1>6. CASE wait_vblank
  <2>1. pc' \in {"poll", "menu", "no_sensor"}
    BY <1>6 DEF wait_vblank, Main, TypeOK, Modes
  <2> QED
    BY <1>6, <1>5, <2>1, Zenon DEF wait_vblank, Main, DarkInv
<1>7. CASE WaitClear \/ StartSample \/ Arm \/ Timeout \/ Draw \/ DrawMenu \/ DrawNoSensor
  BY <1>7, <1>5, Zenon
     DEF WaitClear, StartSample, Arm, StoreOf, Timeout, Draw, DrawMenu, DrawNoSensor,
         Main, set_state, DarkInv
<1>8. CASE CompareFrame \/ CompareSensor \/ Judge \/ record_new_sample
  BY <1>8, <1>5, Zenon
     DEF CompareFrame, CompareSensor, Judge, record_new_sample, Branch, Main,
         set_state, DarkInv
<1>9. CASE \/ level2_handler \/ level4_handler \/ level6_handler \/ HandlerStep
           \/ UNCHANGED vars
  <2>1. UNCHANGED <<pc, state, state_start_ticks, todo, dark, ticks, epoch>>
    BY <1>9
       DEF level2_handler, level4_handler, level6_handler, ReadClock, HandlerStep,
           StoreFrameTicks, StoreFrameSeq, StoreSensorTicks, StoreSensorSeq, Stored,
           Rte, vars
  <2> QED
    BY <1>5, <2>1 DEF DarkInv
<1> QED
  BY <1>1, <1>2, <1>3, <1>4, <1>6, <1>7, <1>8, <1>9 DEF Next, MainStep

\* ST_START_SAMPLE (main.c:389-391) lights the pattern only after it has been
\* dark for WAIT_CLEAR_TICKS of real time, whatever the counter wraps.
THEOREM Dark == Spec => DarkBeforeFlash
<1> DEFINE A == ~lit /\ lit' => Elapsed(dark, Now) >= WAIT_CLEAR_TICKS
<1>1. Init => DarkInv
  BY ModAssumption, LimitAssumption
     DEF Init, DarkInv, NotAfter, Now, Boot
<1>2. DarkInv /\ [Next]_vars => [A]_vars
  <2> SUFFICES ASSUME DarkInv, Next, ~lit, lit'
               PROVE  Elapsed(dark, Now) >= WAIT_CLEAR_TICKS
    OBVIOUS
  <2>1. Flash
    BY Zenon DEF Next, MainStep, wait_vblank, do_sampling, Clear, WaitClear, StartSample,
           Arm, StoreOf, Timeout, CompareFrame, CompareSensor, Judge, Draw,
           record_new_sample, DrawMenu, DrawNoSensor, Branch, Main, HandlerStep,
           StoreFrameTicks, StoreFrameSeq, StoreSensorTicks, StoreSensorSeq, Stored,
           Rte, level2_handler, level4_handler, level6_handler, ReadClock, Tick,
           mainVars, flashVars
  <2> QED
    BY <2>1 DEF Flash, StoreOf, DarkInv, DarkTime
<1> QED
  BY <1>1, <1>2, DarkStep, TypeCorrect, PTL DEF Spec, DarkBeforeFlash
=============================================================================
