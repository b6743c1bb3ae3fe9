--------------------------- MODULE LatencyProofs ----------------------------
(***************************************************************************)
(* The two ends of a latency: the count that is read, and what is shown    *)
(* when it starts.                                                         *)
(*                                                                         *)
(* First the clock: clock_get_ticks is an atomic read of the counter, for  *)
(* words of any width, any number of wraps and any depth of nesting,       *)
(* provided a sample of the counter is one of the two counts it falls      *)
(* between.  Then the screen: the pages are whole, and a latency counts    *)
(* from a frame with the lit pattern.                                      *)
(***************************************************************************)
EXTENDS ClockRead, Screen, TLAPS

----------------------------------------------------------------------------
(* The clock. *)

\* The counter's range.
LEMMA TickModNat == TickMod \in Nat /\ TickMod > 0
BY WordAssumption DEF TickMod

\* Two words of a latched count put together again are the count.
LEMMA TwoWords ==
  ASSUME NEW v \in Ticks
  PROVE  /\ v \div Half \in 0..(Half - 1)
         /\ v % Half \in 0..(Half - 1)
         /\ v = Half * (v \div Half) + (v % Half)
<1>1. v \in Nat /\ Half \in Nat /\ Half > 0 /\ v \in 0..(Half * Half - 1)
  BY WordAssumption, TickModNat DEF Ticks, TickMod
<1>2. v = Half * (v \div Half) + (v % Half)
  BY <1>1, SMTT(30)
<1>3. v % Half \in 0..(Half - 1)
  BY <1>1
<1>4. v \div Half \in 0..(Half - 1)
  BY <1>1, SMTT(30)
<1> QED
  BY <1>2, <1>3, <1>4

\* Any two words make a count.
LEMMA WordsTick ==
  ASSUME NEW hi \in 0..(Half - 1), NEW lo \in 0..(Half - 1)
  PROVE  Half * hi + lo \in Ticks
<1>1. Half \in Nat /\ hi \in Nat /\ lo \in Nat /\ hi <= Half - 1 /\ lo <= Half - 1
  BY WordAssumption
<1>2. Half * hi <= Half * (Half - 1) /\ Half * hi \in Nat
  BY <1>1, SMTT(30)
<1>3. Half * (Half - 1) = Half * Half - Half
  BY <1>1, SMTT(30)
<1> QED
  BY <1>1, <1>2, <1>3 DEF Ticks, TickMod

\* The next count is a count.
LEMMA IncType ==
  ASSUME NEW t \in Ticks
  PROVE  Inc(t) \in Ticks
BY TickModNat DEF Inc, Ticks

\* What the counter shows has been seen since any earlier instant.
LEMMA SeenNow ==
  ASSUME TypeOK, NEW a \in Instants, NotAfter(a, Now)
  PROVE  Seen(ticks, a)
<1>1. epoch \in 0..epoch
  BY DEF TypeOK
<1>2. NotAfter(Now, Now)
  BY DEF NotAfter, Now, TypeOK, Ticks
<1> QED
  BY <1>1, <1>2 DEF Seen, Now

\* What was seen stays seen when time goes on.
LEMMA SeenStays ==
  ASSUME TypeOK, NEW v \in Ticks, NEW a \in Instants, Seen(v, a), NotAfter(Now, Now'),
         epoch' \in Nat, ticks' \in Ticks
  PROVE  Seen(v, a)'
<1>1. PICK e \in 0..epoch : /\ NotAfter(a, [epoch |-> e, ticks |-> v])
                            /\ NotAfter([epoch |-> e, ticks |-> v], Now)
  BY DEF Seen
<1>2. e \in 0..epoch'
  BY <1>1 DEF NotAfter, Now, TypeOK
<1>3. NotAfter([epoch |-> e, ticks |-> v], Now')
  BY <1>1, TickModNat DEF NotAfter, Now, TypeOK, Ticks
<1> QED
  BY <1>1, <1>2, <1>3 DEF Seen, Now, NotAfter

\* A tick moves the clock on by one instant.
LEMMA CountStep ==
  ASSUME TypeOK, Count
  PROVE  /\ ticks' \in Ticks /\ ticks' = Inc(ticks) /\ epoch' \in Nat
         /\ NotAfter(Now, Now')
<1>1. ticks' \in Ticks /\ epoch' \in Nat
  BY IncType DEF Count, TypeOK
<1>2. NotAfter(Now, Now')
  BY TickModNat DEF Count, Inc, NotAfter, Now, TypeOK, Ticks
<1> QED
  BY <1>1, <1>2 DEF Count

\* Init establishes the invariant: nobody is reading.
LEMMA InvInit == Init => IInv
<1> SUFFICES ASSUME Init
             PROVE  IInv
  OBVIOUS
<1>1. 0 \in Ticks /\ 0 \in 0..(Half - 1) /\ 0 \in 0..MaxNest
  BY TickModNat, WordAssumption, BoundAssumption DEF Ticks
<1>2. Entered(0) \in Frames
  BY <1>1 DEF Entered, Frame, Frames, Masks, Instants
<1>3. TypeOK
  BY <1>1, <1>2 DEF Init, TypeOK, Masks
<1>4. \A i \in 0..MaxNest : frames[i].pc = "idle"
  BY DEF Init, Entered, Frame
<1> QED
  BY <1>1, <1>3, <1>4 DEF Init, IInv, Reading, ReadingPcs, ReadSoFar, ReadIsInstant, Top

\* A frame whose call goes on, or ends, while the clock stands still.
LEMMA CallStep ==
  ASSUME IInv, NEW f \in Frames, frames' = [frames EXCEPT ![depth] = f],
         mask' \in Masks,
         UNCHANGED <<ticks, ticks2, ticks_latch, depth, epoch>>,
         ReadSoFar', f.pc = "done" => Seen(Half * f.hi + f.lo, f.from)
  PROVE  IInv'
<1>1. depth \in 0..MaxNest /\ frames \in [0..MaxNest -> Frames]
  BY DEF IInv, TypeOK
<1>2. TypeOK'
  BY <1>1 DEF IInv, TypeOK
<1>3. \A i \in 0..(depth - 1) : i \in 0..MaxNest /\ i # depth /\ frames'[i] = frames[i]
  BY <1>1, BoundAssumption
<1>4. \A i \in 0..(depth' - 1) : ~Reading(i)'
  BY <1>3 DEF IInv, Reading
<1>5. ReadIsInstant'
  <2> SUFFICES ASSUME NEW i \in 0..depth, frames'[i].pc = "done"
               PROVE  Seen(Half * frames'[i].hi + frames'[i].lo, frames'[i].from)
    BY DEF ReadIsInstant, Result, Seen, Now, NotAfter
  <2>1. CASE i = depth
    BY <1>1, <2>1
  <2>2. CASE i # depth
    <3>1. i \in 0..(depth - 1)
      BY <1>1, <2>2
    <3>2. frames'[i] = frames[i]
      BY <1>3, <3>1
    <3> QED
      BY <3>2 DEF IInv, ReadIsInstant, Result
  <2> QED
    BY <2>1, <2>2
<1> QED
  BY <1>2, <1>4, <1>5 DEF IInv

\* Top is one of the frames.
LEMMA TopType ==
  ASSUME TypeOK
  PROVE  Top \in Frames /\ depth \in 0..MaxNest /\ depth \in Nat
BY BoundAssumption DEF TypeOK, Top

\* Main's or a handler's own steps through clock_get_ticks (clock.h:30-35).
LEMMA OwnSteps ==
  ASSUME IInv, Disable \/ EndWrite \/ ReadHi \/ ReadLo \/ Enable
  PROVE  IInv'
<1>0. /\ Top \in Frames /\ depth \in 0..MaxNest /\ frames \in [0..MaxNest -> Frames]
      /\ Now \in Instants /\ ticks_latch \in Ticks /\ mask \in Masks
  BY TopType DEF IInv, TypeOK, Now, Instants
<1>1. CASE Disable
  <2> DEFINE f == Frame("write", Top.sr, Now)
  <2>0. 0 \in 0..(Half - 1)
    BY WordAssumption
  <2>1. f \in Frames /\ f.pc = "write" /\ f.clks = 0 /\ f.from = Now
    BY <1>0, <2>0 DEF Frames, Frame
  <2>2. Top' = f /\ frames' = [frames EXCEPT ![depth] = f] /\ mask' = 7 /\ depth' = depth
    BY <1>0, <1>1 DEF Disable, At, Top
  <2>3. NotAfter(Now, Now) /\ Now' = Now
    BY <1>1 DEF Disable, NotAfter, Now, IInv, TypeOK, Ticks
  <2> HIDE DEF f
  <2>6. ReadSoFar'
    BY <1>1, <2>1, <2>2, <2>3 DEF ReadSoFar, NotAfter
  <2> QED
    BY <1>1, <2>1, <2>2, <2>6, CallStep, Zenon DEF Disable, Masks
<1>2. CASE EndWrite
  <2> DEFINE f == [Top EXCEPT !.pc = "hi"]
  <2>1. f \in Frames /\ f.pc = "hi" /\ f.from = Top.from
    BY <1>0 DEF Frames
  <2>2. Top' = f /\ frames' = [frames EXCEPT ![depth] = f] /\ Top.pc = "write" /\ Top.clks = 2
    BY <1>0, <1>2 DEF EndWrite, At, Top
  <2>3. mask = 7 /\ NotAfter(Top.from, Now) /\ Seen(ticks_latch, Top.from)
    BY <2>2 DEF IInv, ReadSoFar, ReadingPcs
  <2>4. ReadSoFar'
    BY <1>2, <2>1, <2>2, <2>3 DEF EndWrite, ReadSoFar, ReadingPcs, Now, NotAfter, Seen
  <2> HIDE DEF f
  <2> QED
    BY <1>0, <1>2, <2>1, <2>2, <2>4, CallStep, Zenon DEF EndWrite
<1>3. CASE ReadHi
  <2> DEFINE f == [Top EXCEPT !.pc = "lo", !.hi = ticks_latch \div Half]
  <2>1. f \in Frames /\ f.pc = "lo" /\ f.from = Top.from /\ f.hi = ticks_latch \div Half
    BY <1>0, TwoWords, Zenon DEF Frames
  <2>2. Top' = f /\ frames' = [frames EXCEPT ![depth] = f] /\ Top.pc = "hi"
    BY <1>0, <1>3 DEF ReadHi, At, Top
  <2>3. mask = 7 /\ NotAfter(Top.from, Now) /\ Seen(ticks_latch, Top.from)
    BY <2>2 DEF IInv, ReadSoFar, ReadingPcs
  <2>4. ReadSoFar'
    BY <1>3, <2>1, <2>2, <2>3 DEF ReadHi, ReadSoFar, ReadingPcs, Now, NotAfter, Seen
  <2> HIDE DEF f
  <2> QED
    BY <1>0, <1>3, <2>1, <2>2, <2>4, CallStep, Zenon DEF ReadHi
<1>4. CASE ReadLo
  <2> DEFINE f == [Top EXCEPT !.pc = "enable", !.lo = ticks_latch % Half]
  <2>1. /\ f \in Frames /\ f.pc = "enable" /\ f.from = Top.from /\ f.hi = Top.hi
        /\ f.lo = ticks_latch % Half
    BY <1>0, TwoWords, Zenon DEF Frames
  <2>2. Top' = f /\ frames' = [frames EXCEPT ![depth] = f] /\ Top.pc = "lo"
    BY <1>0, <1>4 DEF ReadLo, At, Top
  <2>3. /\ mask = 7 /\ NotAfter(Top.from, Now) /\ Seen(ticks_latch, Top.from)
        /\ Top.hi = ticks_latch \div Half
    BY <2>2 DEF IInv, ReadSoFar, ReadingPcs
  <2>4. ReadSoFar'
    BY <1>4, <2>1, <2>2, <2>3 DEF ReadLo, ReadSoFar, ReadingPcs, Now, NotAfter, Seen
  <2> HIDE DEF f
  <2> QED
    BY <1>0, <1>4, <2>1, <2>2, <2>4, CallStep, Zenon DEF ReadLo
<1>5. CASE Enable
  <2> DEFINE f == [Top EXCEPT !.pc = "done"]
  <2>1. /\ f \in Frames /\ f.pc = "done" /\ f.from = Top.from /\ f.hi = Top.hi
        /\ f.lo = Top.lo
    BY <1>0 DEF Frames
  <2>2. Top' = f /\ frames' = [frames EXCEPT ![depth] = f] /\ Top.pc = "enable"
    BY <1>0, <1>5 DEF Enable, At, Top
  <2>3. /\ Seen(ticks_latch, Top.from)
        /\ Top.hi = ticks_latch \div Half /\ Top.lo = ticks_latch % Half
    BY <2>2 DEF IInv, ReadSoFar
  <2>4. Half * f.hi + f.lo = ticks_latch
    BY <1>0, <2>1, <2>3, TwoWords
  <2>5. ReadSoFar'
    BY <1>5, <2>1, <2>2 DEF Enable, ReadSoFar, ReadingPcs
  <2> HIDE DEF f
  <2> QED
    BY <1>5, <2>1, <2>2, <2>3, <2>4, <2>5, CallStep, Zenon DEF Enable, Masks
<1> QED
  BY <1>1, <1>2, <1>3, <1>4, <1>5

\* A call ends, and a handler returns to what it interrupted, which was not
\* reading.
LEMMA ReturnStep ==
  ASSUME IInv, Return
  PROVE  IInv'
<1>0. /\ Top \in Frames /\ depth \in 0..MaxNest /\ depth \in Nat
      /\ frames \in [0..MaxNest -> Frames]
  BY TopType DEF IInv, TypeOK
<1>1. 0 \in Ticks /\ 0 \in 0..(Half - 1)
  BY TickModNat, WordAssumption DEF Ticks
<1>2. Entered(0) \in Frames /\ Entered(0).pc = "idle"
  BY <1>1 DEF Entered, Frame, Frames, Masks, Instants
<1>3. CASE depth = 0
  <2>1. Top' = Entered(0)
    BY <1>0, <1>3 DEF Return, Top
  <2>2. ReadSoFar'
    BY <1>2, <2>1 DEF ReadSoFar, ReadingPcs
  <2> QED
    BY <1>2, <1>3, <2>2, CallStep, Zenon DEF Return, IInv, TypeOK
<1>4. CASE depth # 0
  <2>1. /\ depth' = depth - 1 /\ depth' \in 0..MaxNest /\ mask' \in Masks
        /\ frames' = [frames EXCEPT ![depth] = Entered(0)]
    <3>1. depth - 1 \in 0..MaxNest /\ Top.sr \in Masks
      BY <1>0, <1>4, BoundAssumption DEF Frames
    <3> QED
      BY <1>4, <3>1 DEF Return
  <2>2. TypeOK'
    BY <1>0, <1>2, <2>1 DEF Return, IInv, TypeOK
  <2>3. \A i \in 0..(depth - 1) : i \in 0..depth /\ i \in 0..MaxNest /\ frames'[i] = frames[i]
    BY <1>0, <2>1, BoundAssumption
  <2>4. \A i \in 0..(depth - 1) : ~Reading(i)'
    BY <2>3 DEF IInv, Reading
  <2>5. \A i \in 0..(depth' - 1) : ~Reading(i)'
    BY <1>0, <2>1, <2>4
  <2>6. (Top.pc)' \notin ReadingPcs
    BY <1>0, <1>4, <2>1, <2>4 DEF Top, Reading
  <2>7. ReadSoFar'
    BY <2>6 DEF ReadSoFar, ReadingPcs
  <2>8. ReadIsInstant'
    BY <2>1, <2>3 DEF Return, IInv, ReadIsInstant, Result, Seen, Now, NotAfter
  <2> QED
    BY <2>2, <2>5, <2>7, <2>8 DEF IInv
<1> QED
  BY <1>3, <1>4

\* A handler is entered; what it interrupts is not reading, for the mask is
\* below the handler's level.
LEMMA InterruptStep ==
  ASSUME IInv, NEW l \in Levels, Interrupt(l)
  PROVE  IInv'
<1>0. /\ Top \in Frames /\ depth \in 0..MaxNest /\ depth \in Nat
      /\ frames \in [0..MaxNest -> Frames] /\ mask \in Masks
  BY TopType DEF IInv, TypeOK
<1>1. 0 \in Ticks /\ 0 \in 0..(Half - 1)
  BY TickModNat, WordAssumption DEF Ticks
<1>2. Entered(mask) \in Frames /\ Entered(mask).pc = "idle"
  BY <1>0, <1>1 DEF Entered, Frame, Frames, Instants
<1>3. /\ depth' = depth + 1 /\ depth' \in 0..MaxNest /\ mask' \in Masks
      /\ frames' = [frames EXCEPT ![depth + 1] = Entered(mask)]
  BY <1>0, BoundAssumption DEF Interrupt, Masks
<1>4. TypeOK'
  BY <1>0, <1>2, <1>3 DEF Interrupt, IInv, TypeOK
<1>5. mask # 7
  BY DEF Interrupt, Levels
<1>6. ~Reading(depth)
  BY <1>5 DEF IInv, ReadSoFar, Reading, Top
<1>7. \A i \in 0..depth : ~Reading(i)
  BY <1>0, <1>6 DEF IInv
<1>8. \A i \in 0..depth : i \in 0..MaxNest /\ frames'[i] = frames[i]
  BY <1>0, <1>3, BoundAssumption
<1>9. \A i \in 0..(depth' - 1) : ~Reading(i)'
  BY <1>0, <1>3, <1>7, <1>8 DEF Reading
<1>10. (Top.pc)' = "idle"
  BY <1>0, <1>2, <1>3 DEF Top
<1>11. ReadSoFar'
  BY <1>10 DEF ReadSoFar, ReadingPcs
<1>12. ReadIsInstant'
  <2> SUFFICES ASSUME NEW i \in 0..depth', frames'[i].pc = "done"
               PROVE  Seen(Result(i), frames[i].from) /\ frames'[i] = frames[i]
    BY DEF ReadIsInstant, Interrupt, Seen, Now, NotAfter, Result
  <2>1. i \in 0..depth
    BY <1>0, <1>3, <1>10 DEF Top
  <2> QED
    BY <1>8, <2>1 DEF IInv, ReadIsInstant
<1> QED
  BY <1>4, <1>9, <1>11, <1>12 DEF IInv

\* Time does not go backwards for a call that has begun.
LEMMA NotAfterStays ==
  ASSUME TypeOK, NEW a \in Instants, NotAfter(a, Now), NotAfter(Now, Now'),
         epoch' \in Nat, ticks' \in Ticks
  PROVE  NotAfter(a, Now')
BY TickModNat DEF TypeOK, NotAfter, Now, Instants, Ticks

\* What a call has returned stays an instant of that call when time goes on.
LEMMA ResultsStay ==
  ASSUME IInv, NotAfter(Now, Now'), epoch' \in Nat, ticks' \in Ticks, depth' = depth,
         \A i \in 0..depth : frames'[i].pc = "done" => frames'[i] = frames[i]
  PROVE  ReadIsInstant'
<1> SUFFICES ASSUME NEW i \in 0..depth, frames'[i].pc = "done"
             PROVE  Seen(Result(i), frames[i].from)' /\ frames'[i] = frames[i]
  BY DEF ReadIsInstant
<1>1. i \in 0..MaxNest /\ frames[i] \in Frames /\ frames'[i] = frames[i]
  BY BoundAssumption DEF IInv, TypeOK
<1>2. PICK r \in Ticks : r = Half * frames[i].hi + frames[i].lo
  BY <1>1, WordsTick DEF Frames
<1>3. PICK a \in Instants : a = frames[i].from
  BY <1>1 DEF Frames
<1>4. Seen(r, a)
  BY <1>1, <1>2, <1>3 DEF IInv, ReadIsInstant, Result
<1>5. Seen(r, a)'
  BY <1>4, SeenStays DEF IInv
<1> QED
  BY <1>1, <1>2, <1>3, <1>5 DEF Result, Seen, Now, NotAfter

\* The frame on top, which alone can be reading, keeps what it has sampled and
\* read when time goes on.
LEMMA TimeStep ==
  ASSUME IInv, NotAfter(Now, Now'), epoch' \in Nat, ticks' \in Ticks,
         UNCHANGED <<ticks2, ticks_latch, mask, depth, frames>>
  PROVE  IInv'
<1>1. TypeOK'
  BY DEF IInv, TypeOK
<1>2. ReadIsInstant'
  BY ResultsStay
<1>3. PICK a \in Instants : a = Top.from
  BY TopType DEF IInv, Frames
<1>4. ticks2 \in Ticks /\ ticks_latch \in Ticks
  BY DEF IInv, TypeOK
<1>5. Seen(ticks2, a) => Seen(ticks2, a)'
  <2>1. PICK v \in Ticks : v = ticks2
    BY <1>4
  <2> QED
    BY <2>1, SeenStays DEF IInv, Seen, Now, NotAfter
<1>6. Seen(ticks_latch, a) => Seen(ticks_latch, a)'
  <2>1. PICK v \in Ticks : v = ticks_latch
    BY <1>4
  <2> QED
    BY <2>1, SeenStays DEF IInv, Seen, Now, NotAfter
<1>7. NotAfter(a, Now) => NotAfter(a, Now')
  BY NotAfterStays DEF IInv
<1>8. ReadSoFar'
  <2>1. Top' = Top /\ UNCHANGED <<ticks2, ticks_latch, mask>>
    BY DEF Top
  <2>2. /\ NotAfter(a, Now) => NotAfter(Top.from, Now)'
        /\ Seen(ticks2, a) => Seen(ticks2, Top.from)'
        /\ Seen(ticks_latch, a) => Seen(ticks_latch, Top.from)'
    BY <1>3, <1>5, <1>6, <1>7, <2>1 DEF Seen, Now, NotAfter
  <2> QED
    BY <1>3, <2>1, <2>2 DEF IInv, ReadSoFar, ReadingPcs
<1> QED
  BY <1>1, <1>2, <1>8 DEF IInv, Reading

\* A clk edge, whether or not the counter moves with it (system.sv:164-173).
LEMMA ClkStep ==
  ASSUME IInv, NotAfter(Now, Now'), epoch' \in Nat, ticks' \in Ticks,
         NEW v \in {ticks, ticks'}, Clk(v)
  PROVE  IInv'
<1>0. /\ Top \in Frames /\ depth \in 0..MaxNest /\ depth \in Nat
      /\ frames \in [0..MaxNest -> Frames]
      /\ ticks \in Ticks /\ ticks2 \in Ticks /\ ticks_latch \in Ticks /\ v \in Ticks
  BY TopType DEF IInv, TypeOK
<1>1. PICK a \in Instants : a = Top.from
  BY <1>0 DEF Frames
<1>2. PICK old \in Ticks : old = ticks2
  BY <1>0
<1>3. PICK latched \in Ticks : latched = ticks_latch
  BY <1>0
<1>4. PICK now \in Ticks : now = ticks
  BY <1>0
<1>5. PICK new \in Ticks : new = v
  BY <1>0
<1>6. CASE Top.pc = "write"
  <2> DEFINE c == IF Top.clks = 2 THEN 2 ELSE Top.clks + 1
             f == [Top EXCEPT !.clks = c]
  <2>1. c \in 0..2 /\ c > 0 /\ (c = 2 => Top.clks > 0)
    BY <1>0 DEF Frames
  <2>2. f \in Frames /\ f.clks = c /\ f.pc = "write" /\ f.from = a
    <3> HIDE DEF c
    <3> QED
      BY <1>0, <1>1, <1>6, <2>1 DEF Frames
  <2>3. frames' = [frames EXCEPT ![depth] = f] /\ depth' = depth
    BY <1>6 DEF Clk, Top
  <2> HIDE DEF c, f
  <2>4. Top' = f /\ mask' = mask /\ ticks2' = v /\ ticks_latch' = ticks2
    BY <1>0, <1>6, <2>3 DEF Clk, Top
  <2>5. mask = 7 /\ NotAfter(a, Now)
    BY <1>1, <1>6 DEF IInv, ReadSoFar, ReadingPcs
  <2>6. NotAfter(a, Now')
    BY <2>5, NotAfterStays DEF IInv
  <2>7. Seen(new, a)'
    <3>1. CASE v = ticks
      <4>1. Seen(new, a)
        BY <1>5, <2>5, <3>1, SeenNow DEF IInv
      <4> QED
        BY <4>1, SeenStays DEF IInv
    <3>2. CASE v = ticks'
      <4>1. NotAfter(Now', Now') /\ epoch' \in 0..epoch'
        BY TickModNat DEF NotAfter, Now, Ticks
      <4> QED
        BY <1>5, <2>6, <3>2, <4>1 DEF Seen, Now, NotAfter
    <3> QED
      BY <3>1, <3>2
  <2>8. c = 2 => Seen(old, a)'
    <3>1. c = 2 => Seen(old, a)
      BY <1>1, <1>2, <1>6, <2>1 DEF IInv, ReadSoFar
    <3> QED
      BY <3>1, SeenStays DEF IInv
  <2>9. ReadSoFar'
    <3>1. (Top.pc)' = "write" /\ (Top.from)' = a /\ (Top.clks)' = c
      BY <2>2, <2>4
    <3>2. Seen(ticks2, Top.from)'
      BY <1>5, <2>4, <2>7, <3>1 DEF Seen, Now, NotAfter
    <3>3. c = 2 => Seen(ticks_latch, Top.from)'
      BY <1>2, <2>4, <2>8, <3>1 DEF Seen, Now, NotAfter
    <3>4. NotAfter(Top.from, Now)'
      BY <2>6, <3>1 DEF NotAfter
    <3> QED
      BY <2>4, <2>5, <3>1, <3>2, <3>3, <3>4 DEF ReadSoFar
  <2>10. TypeOK'
    BY <1>0, <2>2, <2>3, <2>4 DEF IInv, TypeOK
  <2>11. \A i \in 0..(depth - 1) : i \in 0..MaxNest /\ i # depth /\ frames'[i] = frames[i]
    BY <1>0, <2>3, BoundAssumption
  <2>12. \A i \in 0..(depth' - 1) : ~Reading(i)'
    BY <2>3, <2>11 DEF IInv, Reading
  <2>13. \A i \in 0..depth : frames'[i].pc = "done" => frames'[i] = frames[i]
    BY <1>0, <2>2, <2>3, <2>11
  <2>14. ReadIsInstant'
    BY <2>3, <2>13, ResultsStay
  <2> QED
    BY <2>9, <2>10, <2>12, <2>14 DEF IInv
<1>7. CASE Top.pc # "write"
  <2>1. UNCHANGED <<ticks_latch, mask, depth, frames>> /\ ticks2' = v
    BY <1>7 DEF Clk
  <2>2. TypeOK'
    BY <1>0, <2>1 DEF IInv, TypeOK
  <2>3. ReadIsInstant'
    BY <2>1, ResultsStay
  <2>4. Seen(latched, a) => Seen(latched, a)'
    BY SeenStays DEF IInv
  <2>5. NotAfter(a, Now) => NotAfter(a, Now')
    BY NotAfterStays DEF IInv
  <2>6. Top' = Top
    BY <2>1 DEF Top
  <2>7. Seen(ticks_latch, Top.from) => Seen(ticks_latch, Top.from)'
    BY <1>1, <1>3, <2>1, <2>4, <2>6 DEF Seen, Now, NotAfter
  <2>8. NotAfter(Top.from, Now) => NotAfter(Top.from, Now)'
    BY <1>1, <2>5, <2>6 DEF NotAfter
  <2>9. ReadSoFar'
    BY <1>7, <2>1, <2>6, <2>7, <2>8 DEF IInv, ReadSoFar
  <2> QED
    BY <2>1, <2>2, <2>3, <2>9 DEF IInv, Reading
<1> QED
  BY <1>6, <1>7

\* Every step preserves the invariant.
LEMMA InvStep ==
  ASSUME Torn = FALSE, IInv, [Next]_vars
  PROVE  IInv'
<1>1. CASE Disable \/ EndWrite \/ ReadHi \/ ReadLo \/ Enable
  BY <1>1, OwnSteps
<1>2. CASE Return
  BY <1>2, ReturnStep
<1>3. ASSUME NEW l \in Levels, Interrupt(l)
      PROVE  IInv'
  BY <1>3, InterruptStep
<1>4. TypeOK /\ NotAfter(Now, Now) /\ epoch \in Nat /\ ticks \in Ticks
  BY TickModNat DEF IInv, TypeOK, NotAfter, Now, Ticks
<1>5. CASE Sample
  <2>1. Now' = Now /\ epoch' = epoch /\ ticks' = ticks /\ Clk(ticks)
    BY <1>5 DEF Sample, Now
  <2> QED
    BY <1>4, <2>1, ClkStep
<1>6. CASE Tick
  BY <1>4, <1>6, CountStep, TimeStep DEF Tick
<1>7. CASE SampleMidCount
  <2>1. PICK v \in {ticks, Inc(ticks)} : Clk(v)
    BY <1>7 DEF SampleMidCount, Sampled
  <2>2. Inc(ticks) = ticks' /\ NotAfter(Now, Now') /\ epoch' \in Nat /\ ticks' \in Ticks
    BY <1>4, <1>7, CountStep DEF SampleMidCount
  <2> QED
    BY <2>1, <2>2, ClkStep
<1>8. CASE UNCHANGED vars
  BY <1>4, <1>8, TimeStep DEF vars, Now, NotAfter, TypeOK, Ticks, IInv
<1> QED
  BY <1>1, <1>2, <1>3, <1>5, <1>6, <1>7, <1>8 DEF Next

\* clock_get_ticks (clock.h:26-36) is an atomic read: as long as a sample of the
\* counter is a count the counter had, each result is a count it had during the
\* call, whatever handlers run meanwhile.
THEOREM AtomicRead == Torn = FALSE /\ Spec => []ReadIsInstant
<1>1. Torn = FALSE /\ IInv /\ [Next]_vars => IInv'
  BY InvStep, Zenon
<1>2. IInv => ReadIsInstant
  BY DEF IInv
<1> SUFFICES ASSUME Torn = FALSE
             PROVE  Spec => []ReadIsInstant
  BY Zenon
<1>3. IInv /\ [Next]_vars => IInv'
  BY <1>1
<1> QED
  BY InvInit, <1>2, <1>3, PTL DEF Spec

----------------------------------------------------------------------------
(* The screen. *)

Contents == {"blank", "partial", "pattern", "menu", "no_sensor"}

ScreenType ==
    /\ pc \in {"wait", "sampling", "draw", "menu", "items", "rest", "no_sensor"}
    /\ mode \in Modes
    /\ page_front \in {0, 1} /\ page \in [{0, 1} -> Contents]
    /\ lit \in BOOLEAN /\ armed \in BOOLEAN /\ settled \in 0..2
    /\ disturbed \in BOOLEAN /\ shown \in BOOLEAN /\ hidden \in BOOLEAN

\* Half a menu is behind only while the page is being drawn, and comes to the front
\* only with the Apply button.
PagesInv == WholePages /\ (pc = "wait" => page[1 - page_front] # "partial")

\* Once the loop is in MODE_SAMPLING, the page drawn last has the pattern, and so has
\* the page on display from the second iteration on.
SettledInv ==
    /\ pc \in {"sampling", "draw"} => mode = "MODE_SAMPLING" /\ settled > 0
    /\ pc \in {"menu", "items", "rest", "no_sensor"} => settled = 0
    /\ pc = "wait" /\ settled > 0 => page[1 - page_front] = "pattern"
    /\ settled = 2 => page[page_front] = "pattern"

\* A flash that nothing disturbed shows at once: the loop had settled when the capture
\* was armed, and has stayed so.
FlashInv ==
    state = "ST_WAIT_SAMPLE" /\ ~disturbed =>
        settled = 2 /\ lit /\ ~hidden /\ (armed \/ shown)

ScreenInv == ScreenType /\ PagesInv /\ SettledInv /\ FlashInv

LEMMA ScreenInitInv == ScreenInit => ScreenInv
  <1> SUFFICES ASSUME ScreenInit PROVE ScreenInv
    OBVIOUS
  <1>1. page_front = 1 /\ page = [p \in {0, 1} |-> "blank"] /\ pc = "wait" /\ settled = 0
    BY Zenon DEF ScreenInit
  <1>2. ScreenType
    <2>1. page_front \in {0, 1} /\ page \in [{0, 1} -> Contents] /\ settled \in 0..2
      BY <1>1 DEF Contents
    <2> QED
      BY <2>1, Zenon DEF ScreenInit, ScreenType, Modes
  <1>3. PagesInv /\ SettledInv
    BY <1>1 DEF PagesInv, WholePages, SettledInv
  <1>4. FlashInv
    BY DEF ScreenInit, FlashInv
  <1> QED
    BY <1>2, <1>3, <1>4 DEF ScreenInv

\* What drawing does: the page behind gets new contents, the one on display stays.
LEMMA DrawnBehind ==
    ASSUME ScreenType, NEW c \in Contents, Drawn(c)
    PROVE  /\ page' \in [{0, 1} -> Contents]
           /\ page'[1 - page_front] = c /\ page'[page_front] = page[page_front]
  BY DEF ScreenType, Drawn

\* wait_vblank returns: what was drawn last is on display.
LEMMA BeginFrameInv == ASSUME ScreenInv, BeginFrame PROVE ScreenInv'
  <1> USE DEF ScreenInv
  <1>1. /\ pc = "wait" /\ pc' = Body /\ mode' = mode /\ page' = page
        /\ page_front' = 1 - page_front /\ 1 - page_front' = page_front
        /\ page_front \in {0, 1} /\ page_front' \in {0, 1}
    BY DEF BeginFrame, Goes, gfx_pageflip, ScreenType
  <1>2. /\ settled' = IF mode # "MODE_SAMPLING" THEN 0 ELSE IF settled = 2 THEN 2 ELSE settled + 1
        /\ disturbed' = (disturbed \/ mode # "MODE_SAMPLING")
        /\ state' = state /\ lit' = lit /\ armed' = armed /\ shown' = shown /\ hidden' = hidden
    BY DEF BeginFrame, flashVars
  <1>3. CASE mode = "MODE_SAMPLING"
    <2>1. pc' = "sampling" /\ settled' \in 1..2 /\ (settled' = 2 => settled > 0)
      BY <1>1, <1>2, <1>3 DEF Body, ScreenType
    <2>2. disturbed' = disturbed
      BY <1>2, <1>3 DEF ScreenType
    <2>3. ScreenType'
      BY <1>1, <1>2, <2>1, <2>2 DEF ScreenType
    <2>4. PagesInv'
      BY <1>1, <2>1 DEF PagesInv, WholePages
    <2>5. SettledInv'
      BY <1>1, <1>3, <2>1 DEF SettledInv
    <2>6. FlashInv'
      BY <1>2, <1>3, <2>2 DEF FlashInv
    <2> QED
      BY <2>3, <2>4, <2>5, <2>6
  <1>4. CASE mode # "MODE_SAMPLING"
    <2>1. pc' \in {"menu", "no_sensor"} /\ settled' = 0
      BY <1>1, <1>2, <1>4 DEF Body, ScreenType, Modes
    <2>2. disturbed' = TRUE
      BY <1>2, <1>4, Zenon
    <2>3. ScreenType'
      BY <1>1, <1>2, <2>1, <2>2 DEF ScreenType
    <2>4. PagesInv'
      BY <1>1, <2>1 DEF PagesInv, WholePages
    <2>5. SettledInv' /\ FlashInv'
      BY <2>1, <2>2 DEF SettledInv, FlashInv
    <2> QED
      BY <2>3, <2>4, <2>5
  <1> QED
    BY <1>3, <1>4

\* do_sampling: the switch touches no page.
LEMMA SwitchInv ==
    ASSUME ScreenInv,
           \/ Switch(Clear) \/ Switch(WaitClear) \/ Switch(StartSample)
           \/ Switch(NoNewSample) \/ Switch(NewSample)
    PROVE  ScreenInv'
  <1> USE DEF ScreenInv
  <1>1. /\ pc = "sampling" /\ pc' = "draw" /\ mode' = mode /\ page_front' = page_front
        /\ page' = page /\ hdmi' = hdmi /\ settled' = settled
    BY DEF Switch, Goes, pageVars
  <1>2. PagesInv' /\ SettledInv'
    BY <1>1 DEF PagesInv, WholePages, SettledInv
  <1>3. /\ lit' \in BOOLEAN /\ armed' \in BOOLEAN /\ disturbed' \in BOOLEAN
        /\ shown' \in BOOLEAN /\ hidden' \in BOOLEAN
    <2>1. CASE Switch(StartSample)
      <3>1. lit' = TRUE /\ armed' = TRUE /\ shown' = FALSE /\ hidden' = FALSE /\ disturbed' = (settled < 2)
        BY <2>1, Zenon DEF Switch, StartSample
      <3>2. disturbed' \in BOOLEAN
        BY <3>1, SMT
      <3> QED
        BY <3>1, <3>2, Zenon
    <2>2. CASE Switch(Clear) \/ Switch(WaitClear) \/ Switch(NoNewSample) \/ Switch(NewSample)
      <3>1. /\ lit' \in {lit, FALSE} /\ armed' = armed
            /\ disturbed' = disturbed /\ shown' = shown /\ hidden' = hidden
        BY <2>2, Zenon DEF Switch, Clear, WaitClear, NoNewSample, NewSample, Quiet, flashVars
      <3> QED
        BY <3>1, Zenon DEF ScreenType
    <2> QED
      BY <2>1, <2>2
  <1>4. ScreenType'
    BY <1>1, <1>3 DEF ScreenType
  <1>5. FlashInv'
    <2>1. CASE Switch(Clear) \/ Switch(WaitClear) \/ Switch(NewSample)
      BY <2>1 DEF Switch, Clear, WaitClear, NewSample, FlashInv
    <2>2. CASE Switch(NoNewSample)
      BY <1>1, <2>2 DEF Switch, NoNewSample, Quiet, flashVars, FlashInv
    <2>3. CASE Switch(StartSample)
      <3>1. lit' = TRUE /\ armed' = TRUE /\ hidden' = FALSE /\ (~disturbed' => ~(settled < 2))
        BY <2>3, Zenon DEF Switch, StartSample
      <3>2. ~disturbed' => settled' = 2
        BY <1>1, <3>1 DEF ScreenType
      <3> QED
        BY <3>1, <3>2, Zenon DEF FlashInv
    <2> QED
      BY <2>1, <2>2, <2>3
  <1> QED
    BY <1>2, <1>4, <1>5

\* What draws the page behind in one go.
LEMMA DrawInv ==
    ASSUME ScreenInv, DrawSampling \/ BeginMenu \/ EndApply \/ EndMenu \/ DrawNoSensor
    PROVE  ScreenInv'
  <1> USE DEF ScreenInv
  <1>1. /\ page_front' = page_front /\ hdmi' = hdmi /\ settled' = settled /\ state' = state
        /\ lit' = lit /\ armed' = armed /\ disturbed' = disturbed /\ shown' = shown /\ hidden' = hidden
    BY DEF DrawSampling, BeginMenu, EndApply, EndMenu, DrawNoSensor, flashVars, history
  <1>2. PICK c \in Contents :
            /\ Drawn(c)
            /\ \/ pc = "draw" /\ pc' = "wait" /\ c = "pattern"
               \/ pc = "menu" /\ pc' = "items" /\ c = "partial"
               \/ pc \in {"rest", "items", "no_sensor"} /\ pc' = "wait" /\ c \in {"menu", "no_sensor"}
    BY DEF DrawSampling, BeginMenu, EndApply, EndMenu, DrawNoSensor, Goes, Contents
  <1>3. /\ page' \in [{0, 1} -> Contents]
        /\ page'[1 - page_front] = c /\ page'[page_front] = page[page_front]
    BY <1>2, DrawnBehind
  <1>4. mode' \in Modes
    BY DEF DrawSampling, BeginMenu, EndApply, EndMenu, DrawNoSensor, Modes, ScreenType
  <1>5. ScreenType'
    BY <1>1, <1>2, <1>3, <1>4 DEF ScreenType
  <1>6. PagesInv'
    BY <1>1, <1>2, <1>3 DEF PagesInv, WholePages
  <1>7. SettledInv'
    BY <1>1, <1>2, <1>3 DEF SettledInv
  <1>8. FlashInv'
    BY <1>1 DEF FlashInv
  <1> QED
    BY <1>5, <1>6, <1>7, <1>8

\* gfx_set_240p flips in the middle of the menu.
LEMMA ApplyInv == ASSUME ScreenInv, Apply PROVE ScreenInv'
  <1> USE DEF ScreenInv
  <1>1. /\ pc = "items" /\ pc' = "rest" /\ hdmi' = TRUE /\ disturbed' = TRUE /\ mode' = mode
        /\ page_front' = 1 - page_front /\ page' = page /\ lit' = lit /\ armed' = armed
        /\ settled' = settled /\ shown' = shown /\ hidden' = hidden
    BY DEF Apply, Goes, gfx_pageflip, flashVars
  <1>2. ScreenType'
    BY <1>1 DEF ScreenType
  <1>3. PagesInv' /\ SettledInv' /\ FlashInv'
    BY <1>1 DEF PagesInv, WholePages, SettledInv, FlashInv
  <1> QED
    BY <1>2, <1>3

\* The interrupts touch no page, and a frame start finds the lit pattern.
LEMMA InterruptInv ==
    ASSUME ScreenInv, BlankStart \/ BlankEnd \/ HdmiBlankEnd \/ SensorEdge
    PROVE  ScreenInv'
  <1> USE DEF ScreenInv
  <1>1. /\ pc' = pc /\ mode' = mode /\ state' = state /\ page_front' = page_front /\ page' = page
        /\ lit' = lit /\ hdmi' = hdmi /\ settled' = settled /\ disturbed' = disturbed
    BY DEF BlankStart, BlankEnd, HdmiBlankEnd, SensorEdge, pageVars, flashVars, history
  <1>2. PagesInv' /\ SettledInv'
    BY <1>1 DEF PagesInv, WholePages, SettledInv
  <1>3. CASE armed' = armed /\ shown' = shown /\ hidden' = hidden
    BY <1>1, <1>2, <1>3 DEF ScreenType, FlashInv
  <1>4. CASE Level4
    <2>1. ScreenType'
      BY <1>1, <1>4, Zenon DEF Level4, ScreenType, PatternLit
    <2>2. FlashInv'
      BY <1>1, <1>4, Zenon DEF Level4, FlashInv, SettledInv, PatternLit
    <2> QED
      BY <1>2, <2>1, <2>2
  <1> QED
    BY <1>3, <1>4 DEF BlankStart, BlankEnd, HdmiBlankEnd, SensorEdge, flashVars, history

LEMMA ScreenStep == ScreenInv /\ [ScreenNext]_screenVars => ScreenInv'
  <1> SUFFICES ASSUME ScreenInv, [ScreenNext]_screenVars PROVE ScreenInv'
    OBVIOUS
  <1>1. CASE UNCHANGED screenVars
    BY <1>1 DEF screenVars, pageVars, flashVars, history, ScreenInv, ScreenType, PagesInv, WholePages,
                SettledInv, FlashInv
  <1> QED
    BY <1>1, BeginFrameInv, SwitchInv, DrawInv, ApplyInv, InterruptInv, Zenon DEF ScreenNext, MainStep

\* No frame shows a page that is being drawn, but for the one in which new video
\* settings are applied (gfx.c:126-131, main.c:243).
THEOREM AlwaysWhole == ScreenSpec => []WholePages
  <1>1. ScreenInv => WholePages
    BY DEF ScreenInv, PagesInv
  <1> QED
    BY <1>1, ScreenInitInv, ScreenStep, PTL DEF ScreenSpec

\* A recorded latency counts from a frame that showed the pattern lit, and the pattern
\* stayed on display until the answer, if the loop was and stayed in MODE_SAMPLING
\* (main.c:389-393, 428-441, gfx.c:124-135).
THEOREM AlwaysMeasured == ScreenSpec => MeasuresPattern
  <1>1. ScreenInv => [Switch(NewSample) => disturbed \/ (shown /\ ~hidden)]_screenVars
    BY DEF ScreenInv, FlashInv, Switch, NewSample
  <1> QED
    BY <1>1, ScreenInitInv, ScreenStep, PTL DEF ScreenSpec, MeasuresPattern
=============================================================================
