----------------------------- MODULE HdmiProofs -----------------------------
(***************************************************************************)
(* First about the pixel clock: no parameter is lost on its way to the     *)
(* PLL, for every number of parameters, every depth of the FIFO and every  *)
(* length of a write cycle.  What the HPS, the HDMI registers and resets   *)
(* add leaves that way as it is: Hdmi implements PllFifo.                  *)
(*                                                                         *)
(* Then about the HDMI output: its timing and its clock are of one mode,   *)
(* for every number of timing fields and of settings, from where each      *)
(* write of hdmi_set_mode finds the command port and the registers.        *)
(***************************************************************************)
EXTENDS Hdmi, Integers, TLAPS

\* An entry was requested and is not in the FIFO yet.
Pending == pll_write \/ (cpu.st = "io" /\ ~prev)

\* Entries of the mode that went into the FIFO.
Sent == IF Pending THEN entry[2] - 1 ELSE entry[2]

\* The entry that leaves the FIFO next.
FrontEntry == Sent - Len(fifo) + 1

\* Each write cycle requests one entry, and the FIFO has room for it.
CpuInv ==
    /\ cpu.st = "poll" => ~pll_write /\ entry[2] < N
    /\ cpu.st = "io" => entry[2] > 0 /\ (cpu.n < Strobe => prev)
    /\ pll_write => entry[2] > 0 /\ (cpu.st # "rest" => prev)
    /\ cpu.st # "rest" \/ pll_write => entry[1] > 0
    /\ Pending => Len(fifo) < Depth

\* The FIFO holds the last entries that were sent.
Words ==
    /\ Len(fifo) <= Sent
    /\ \A j \in 1..Len(fifo) : fifo[j] = <<entry[1], FrontEntry - 1 + j>>

\* The reader's copy is the word at the front, which it has yet to pop, or the word
\* before.  Everything before the copy, or before the front, is in the core.
Copy ==
    /\ rdack <=> cfg # <<>>
    /\ cfg # <<>> => /\ cfg[1] = entry[1] /\ cfg[2] \in {FrontEntry - 1, FrontEntry}
                     /\ cfg[2] = FrontEntry => visible > 0
                     /\ \A i \in Params : i < cfg[2] => regs[i] = entry[1]
    /\ cfg = <<>> => \A i \in Params : i < FrontEntry => regs[i] = entry[1]

\* Once the start has been taken nothing is left in the FIFO, so that nothing is read
\* while waitrequest is up, but for a second copy of the start, which the core ignores.
Ended ==
    /\ ~locked => cfg = <<>>
    /\ core # "idle" => /\ fifo = <<>> /\ Sent = N
                        /\ cfg # <<>> => cfg[2] = N /\ core = "writing"

IInv == TypeOK /\ CpuInv /\ Words /\ Copy /\ Ended

----------------------------------------------------------------------------
USE PllFifoAssumption

LEMMA InitInv == Init => IInv
  <1> SUFFICES ASSUME Init PROVE IInv
    OBVIOUS
  <1>1. TypeOK
    <2>1. cpu \in [st : {"rest", "poll", "io"}, n : 0..Strobe] /\ entry \in (0..MaxModes) \X (0..N)
      BY DEF Init
    <2>2. fifo \in Seq((1..MaxModes) \X (1..N)) /\ Len(fifo) <= Depth /\ visible \in 0..Len(fifo)
      BY DEF Init
    <2>3. regs \in [Params -> 0..MaxModes] /\ started \in 0..MaxModes
      BY DEF Init
    <2> QED
      BY <2>1, <2>2, <2>3, Zenon DEF Init, TypeOK, CoreStates
  <1>2. ~Pending /\ Sent = N /\ Len(fifo) = 0 /\ FrontEntry = N + 1
    BY DEF Init, Pending, Sent, FrontEntry
  <1>3. CpuInv /\ Words /\ Copy /\ Ended
    BY <1>2 DEF Init, CpuInv, Words, Copy, Ended, Params
  <1> QED
    BY <1>1, <1>3 DEF IInv

\* The CPU writes on: an entry that is pending goes into the FIFO, after the others.
LEMMA Sends ==
    ASSUME IInv, Poll \/ Io \/ Reset \/ Other
    PROVE  /\ CpuInv' /\ entry'[1] = entry[1] /\ FrontEntry' = FrontEntry
           /\ cpu' \in [st : {"rest", "poll", "io"}, n : 0..Strobe]
           /\ entry' \in (0..MaxModes) \X (0..N) /\ prev' \in BOOLEAN /\ pll_write' \in BOOLEAN
           /\ \/ fifo' = fifo /\ Sent' = Sent
              \/ /\ fifo' = Append(fifo, <<entry[1], Sent + 1>>) /\ Sent' = Sent + 1
                 /\ Len(fifo) < Depth /\ entry[1] > 0
           /\ Sent \in Nat /\ Sent' \in 0..N
           /\ UNCHANGED <<visible, refVars>>
  <1> USE DEF IInv
  <1>1. CrtcEdge
    BY DEF Poll, Io, Reset, Other
  <1>2. fifo' = IF pll_write THEN Append(fifo, entry) ELSE fifo
    BY <1>1 DEF CrtcEdge, Pushed, CpuInv, Pending
  <1>3. prev' = (cpu.st = "io") /\ pll_write' = (cpu.st = "io" /\ ~prev)
    BY <1>1 DEF CrtcEdge, Request
  <1>4. UNCHANGED <<visible, refVars>>
    BY <1>1 DEF CrtcEdge
  <1>5. Len(fifo') = IF pll_write THEN Len(fifo) + 1 ELSE Len(fifo)
    BY <1>2 DEF TypeOK
  <1>6. entry[1] \in 0..MaxModes /\ entry[2] \in 0..N /\ entry = <<entry[1], entry[2]>> /\ Len(fifo) \in Nat
    BY DEF TypeOK
  <1>7. prev \in BOOLEAN /\ pll_write \in BOOLEAN
    BY DEF TypeOK
  <1>8. cpu.st \in {"rest", "poll", "io"} /\ cpu.n \in 0..Strobe
    BY DEF TypeOK
  <1>13. (Pending => entry[2] > 0) /\ Sent \in Nat
    BY <1>6, <1>7 DEF CpuInv, Pending, Sent
  <1>14. pll_write => entry = <<entry[1], Sent + 1>> /\ Len(fifo) < Depth /\ entry[1] > 0
    BY <1>6, <1>7 DEF CpuInv, Pending, Sent
  <1>15. prev' \in BOOLEAN /\ pll_write' \in BOOLEAN
    BY <1>3
  <1>9. CASE Poll
    <2>1. entry' = <<entry[1], entry[2] + 1>> /\ entry[2] + 1 \in 1..N
      BY <1>9, <1>6 DEF Poll, CpuInv, TypeOK
    <2>2. cpu' \in [st : {"rest", "poll", "io"}, n : 0..Strobe]
      BY <1>9, <1>8 DEF Poll, TypeOK
    <2>3. cpu'.st = "io" /\ cpu'.n = Strobe
      BY <1>9, <1>6, <1>8 DEF Poll, TypeOK
    <2>4. CpuInv'
      BY <1>9, <2>1, <2>3, <1>2, <1>3, <1>4, <1>5, <1>6, <1>7, <1>8 DEF Poll, CpuInv, Pending
    <2>5. \/ ~pll_write /\ Pending' = Pending /\ entry'[2] = entry[2]
          \/ pll_write /\ Pending /\ ~Pending' /\ entry'[2] = entry[2] /\ entry[2] > 0
          \/ ~pll_write /\ ~Pending /\ Pending' /\ entry'[2] = entry[2] + 1
      BY <1>9, <2>1, <2>3, <1>2, <1>3, <1>4, <1>5, <1>6, <1>7, <1>8 DEF Poll, CpuInv, Pending
    <2>6. Sent' = (IF pll_write THEN Sent + 1 ELSE Sent) /\ Sent' \in 0..N
      BY <2>1, <2>5, <1>6, <1>7, <1>13 DEF Sent
    <2>7. FrontEntry' = FrontEntry
      BY <2>6, <1>5, <1>6, <1>7, <1>13 DEF FrontEntry
    <2>8. entry' \in (0..MaxModes) \X (0..N) /\ entry'[1] = entry[1]
      BY <2>1, <1>6
    <2> QED
      BY <2>2, <2>4, <2>6, <2>7, <2>8, <1>2, <1>4, <1>7, <1>13, <1>14, <1>15
  <1>10. CASE Io
    <2>1. entry' = entry
      BY <1>10, <1>6 DEF Io, CpuInv, TypeOK
    <2>0. \/ cpu.n > 0 /\ cpu' = [cpu EXCEPT !.n = cpu.n - 1]
          \/ cpu.n = 0 /\ entry[2] = N /\ cpu' = [st |-> "rest", n |-> 0]
          \/ cpu.n = 0 /\ entry[2] # N /\ cpu' = [st |-> "poll", n |-> 0]
      BY <1>10, <1>8 DEF Io
    <2>2. cpu' \in [st : {"rest", "poll", "io"}, n : 0..Strobe]
      BY <2>0, <1>8 DEF TypeOK
    <2>3. \/ cpu.n > 0 /\ cpu'.st = "io" /\ cpu'.n = cpu.n - 1
          \/ cpu.n = 0 /\ cpu'.st = "rest"
          \/ cpu.n = 0 /\ cpu'.st = "poll" /\ entry[2] < N
      BY <1>10, <2>0, <1>6 DEF Io, TypeOK
    <2>9. cpu.st = "io" /\ prev' = TRUE /\ pll_write' = ~prev
      BY <1>10, <1>3, <1>7, Zenon DEF Io
    <2>10. (pll_write => prev) /\ (cpu.n = 0 => prev) /\ entry[2] > 0 /\ entry[1] > 0
      BY <2>9, <1>8 DEF CpuInv
    <2>4. CpuInv'
      <3>1. ~prev => Len(fifo') < Depth
        BY <2>9, <2>10, <1>5, <1>7 DEF CpuInv, Pending
      <3> QED
        BY <2>1, <2>3, <2>9, <2>10, <3>1, <1>7, Zenon DEF CpuInv, Pending
    <2>5. \/ ~pll_write /\ Pending' = Pending /\ entry'[2] = entry[2]
          \/ pll_write /\ Pending /\ ~Pending' /\ entry'[2] = entry[2] /\ entry[2] > 0
          \/ ~pll_write /\ ~Pending /\ Pending' /\ entry'[2] = entry[2] + 1
      BY <2>1, <2>3, <2>9, <2>10, <1>7, Zenon DEF Pending
    <2>6. Sent' = (IF pll_write THEN Sent + 1 ELSE Sent) /\ Sent' \in 0..N
      BY <2>1, <2>5, <1>6, <1>7, <1>13 DEF Sent
    <2>7. FrontEntry' = FrontEntry
      BY <2>6, <1>5, <1>6, <1>7, <1>13 DEF FrontEntry
    <2>8. entry' \in (0..MaxModes) \X (0..N) /\ entry'[1] = entry[1]
      BY <2>1, <1>6
    <2> QED
      BY <2>2, <2>4, <2>6, <2>7, <2>8, <1>2, <1>4, <1>7, <1>13, <1>14, <1>15
  <1>11. CASE Reset
    <2>1. entry' = entry
      BY <1>11, <1>6 DEF Reset, CpuInv, TypeOK
    <2>2. cpu' \in [st : {"rest", "poll", "io"}, n : 0..Strobe]
      BY <1>11, <1>8 DEF Reset, TypeOK
    <2>3. cpu'.st = "rest"
      BY <1>11, <1>6, <1>8 DEF Reset, TypeOK
    <2>4. CpuInv'
      BY <1>11, <2>1, <2>3, <1>2, <1>3, <1>4, <1>5, <1>6, <1>7, <1>8, Zenon DEF Reset, CpuInv, Pending
    <2>5. \/ ~pll_write /\ Pending' = Pending /\ entry'[2] = entry[2]
          \/ pll_write /\ Pending /\ ~Pending' /\ entry'[2] = entry[2] /\ entry[2] > 0
          \/ ~pll_write /\ ~Pending /\ Pending' /\ entry'[2] = entry[2] + 1
      BY <1>11, <2>1, <2>3, <1>2, <1>3, <1>4, <1>5, <1>6, <1>7, <1>8, Zenon DEF Reset, CpuInv, Pending
    <2>6. Sent' = (IF pll_write THEN Sent + 1 ELSE Sent) /\ Sent' \in 0..N
      BY <2>1, <2>5, <1>6, <1>7, <1>13 DEF Sent
    <2>7. FrontEntry' = FrontEntry
      BY <2>6, <1>5, <1>6, <1>7, <1>13 DEF FrontEntry
    <2>8. entry' \in (0..MaxModes) \X (0..N) /\ entry'[1] = entry[1]
      BY <2>1, <1>6
    <2> QED
      BY <2>2, <2>4, <2>6, <2>7, <2>8, <1>2, <1>4, <1>7, <1>13, <1>14, <1>15
  <1>12. CASE Other
    <2>1. entry' = entry
      BY <1>12, <1>6 DEF Other, CpuInv, TypeOK
    <2>2. cpu' \in [st : {"rest", "poll", "io"}, n : 0..Strobe]
      BY <1>12, <1>8 DEF Other, TypeOK
    <2>3. cpu'.st = cpu.st /\ cpu.st # "io"
      BY <1>12, <1>6, <1>8 DEF Other, TypeOK
    <2>4. CpuInv'
      BY <1>12, <2>1, <2>3, <1>2, <1>3, <1>4, <1>5, <1>6, <1>7, <1>8, Zenon DEF Other, CpuInv, Pending
    <2>5. \/ ~pll_write /\ Pending' = Pending /\ entry'[2] = entry[2]
          \/ pll_write /\ Pending /\ ~Pending' /\ entry'[2] = entry[2] /\ entry[2] > 0
          \/ ~pll_write /\ ~Pending /\ Pending' /\ entry'[2] = entry[2] + 1
      BY <1>12, <2>1, <2>3, <1>2, <1>3, <1>4, <1>5, <1>6, <1>7, <1>8, Zenon DEF Other, CpuInv, Pending
    <2>6. Sent' = (IF pll_write THEN Sent + 1 ELSE Sent) /\ Sent' \in 0..N
      BY <2>1, <2>5, <1>6, <1>7, <1>13 DEF Sent
    <2>7. FrontEntry' = FrontEntry
      BY <2>6, <1>5, <1>6, <1>7, <1>13 DEF FrontEntry
    <2>8. entry' \in (0..MaxModes) \X (0..N) /\ entry'[1] = entry[1]
      BY <2>1, <1>6
    <2> QED
      BY <2>2, <2>4, <2>6, <2>7, <2>8, <1>2, <1>4, <1>7, <1>13, <1>14, <1>15
  <1> QED
    BY <1>9, <1>10, <1>11, <1>12, ZenonT(30)

LEMMA SendsInv == IInv /\ (Poll \/ Io \/ Reset \/ Other) => IInv'
  <1> SUFFICES ASSUME IInv, Poll \/ Io \/ Reset \/ Other PROVE IInv'
    OBVIOUS
  <1> DEFINE Word == (1..MaxModes) \X (1..N)
  <1>1. /\ CpuInv' /\ entry'[1] = entry[1] /\ FrontEntry' = FrontEntry
        /\ cpu' \in [st : {"rest", "poll", "io"}, n : 0..Strobe]
        /\ entry' \in (0..MaxModes) \X (0..N) /\ prev' \in BOOLEAN /\ pll_write' \in BOOLEAN
        /\ Sent \in Nat /\ Sent' \in 0..N
        /\ UNCHANGED <<visible, refVars>>
    BY Sends
  <1>2. \/ fifo' = fifo /\ Sent' = Sent
        \/ /\ fifo' = Append(fifo, <<entry[1], Sent + 1>>) /\ Sent' = Sent + 1
           /\ Len(fifo) < Depth /\ entry[1] > 0
    BY Sends
  <1>3. entry[1] \in 0..MaxModes /\ Len(fifo) \in Nat /\ fifo \in Seq(Word) /\ Len(fifo) <= Depth
    BY DEF IInv, TypeOK
  <1>4. <<entry[1], Sent + 1>> \in Word \/ (fifo' = fifo /\ Sent' = Sent)
    BY <1>1, <1>2, <1>3
  <1>5. fifo' \in Seq(Word) /\ Len(fifo') <= Depth /\ Len(fifo') >= Len(fifo)
    <2> HIDE DEF Word
    <2>1. CASE fifo' = fifo
      BY <1>3, <2>1
    <2>2. ASSUME NEW w \in Word, fifo' = Append(fifo, w), Len(fifo) < Depth
          PROVE  fifo' \in Seq(Word) /\ Len(fifo') = Len(fifo) + 1
      BY <1>3, <2>2
    <2> QED
      BY <1>2, <1>3, <1>4, <2>1, <2>2, SMTT(20)
  <1>6. TypeOK'
    <2>1. visible' \in 0..Len(fifo')
      BY <1>1, <1>3, <1>5 DEF IInv, TypeOK
    <2> QED
      BY <1>1, <1>5, <2>1 DEF IInv, TypeOK, refVars
  <1>7. Words'
    <2>1. CASE fifo' = fifo /\ Sent' = Sent
      BY <1>1, <2>1 DEF IInv, Words
    <2>2. CASE fifo' = Append(fifo, <<entry[1], Sent + 1>>) /\ Sent' = Sent + 1
      <3>1. Len(fifo') = Len(fifo) + 1 /\ fifo'[Len(fifo) + 1] = <<entry[1], Sent + 1>>
        BY <2>2, <1>3
      <3>2. \A j \in 1..Len(fifo) : fifo'[j] = fifo[j]
        <4> HIDE DEF Word
        <4> QED
          BY <2>2, <1>3
      <3>3. FrontEntry - 1 + (Len(fifo) + 1) = Sent + 1
        BY <1>1, <1>3 DEF FrontEntry
      <3>7. Len(fifo') <= Sent'
        BY <1>1, <1>3, <2>2, <3>1 DEF IInv, Words
      <3>4. SUFFICES ASSUME NEW j \in 1..Len(fifo') PROVE fifo'[j] = <<entry[1], FrontEntry - 1 + j>>
        BY <1>1, <3>7 DEF Words
      <3>5. CASE j = Len(fifo) + 1
        BY <3>1, <3>3, <3>5
      <3>6. CASE j \in 1..Len(fifo)
        BY <3>2, <3>6 DEF IInv, Words
      <3> QED
        BY <3>1, <3>5, <3>6, <1>3
    <2> QED
      BY <1>2, <2>1, <2>2
  <1>8. Copy'
    BY <1>1 DEF IInv, Copy, refVars
  <1>9. Ended'
    <2>1. Sent = N => fifo' = fifo /\ Sent' = Sent
      BY <1>1, <1>2
    <2> QED
      BY <1>1, <2>1 DEF IInv, Ended, refVars
  <1> QED
    BY <1>1, <1>6, <1>7, <1>8, <1>9 DEF IInv

LEMMA SetModeInv == IInv /\ SetMode => IInv'
  <1> SUFFICES ASSUME IInv, SetMode PROVE IInv'
    OBVIOUS
  <1>1. /\ fifo = <<>> /\ fifo' = <<>> /\ ~pll_write /\ cfg = <<>> /\ ~rdack /\ core = "idle"
        /\ UNCHANGED <<visible, refVars>> /\ ~prev' /\ ~pll_write'
        /\ prev' \in BOOLEAN /\ pll_write' \in BOOLEAN
    BY DEF SetMode, Drained, CrtcEdge, Pushed, Request, IInv, TypeOK
  <1>2. /\ cpu' = [st |-> "poll", n |-> 0] /\ entry'[1] = entry[1] + 1 /\ entry'[2] = 0
        /\ entry' \in (0..MaxModes) \X (0..N) /\ entry'[1] > 0
    BY DEF SetMode, IInv, TypeOK
  <1>3. ~Pending' /\ Sent' = 0 /\ Len(fifo') = 0 /\ FrontEntry' = 1
    BY <1>1, <1>2 DEF Pending, Sent, FrontEntry
  <1>4. TypeOK'
    BY <1>1, <1>2 DEF IInv, TypeOK, refVars, Params
  <1>5. CpuInv' /\ Words'
    BY <1>1, <1>2, <1>3 DEF CpuInv, Words
  <1>6. Copy' /\ Ended'
    BY <1>1, <1>3 DEF IInv, Copy, Ended, Params, refVars
  <1> QED
    BY <1>4, <1>5, <1>6 DEF IInv

\* What an edge of CLK_50M does to the FIFO and to the reader's copy: the word that is
\* popped was copied before, or is copied by this edge.
LEMMA Reads ==
    ASSUME IInv, RefEdge
    PROVE  /\ fifo' \in Seq((1..MaxModes) \X (1..N)) /\ Len(fifo') <= Len(fifo) /\ visible' \in 0..Len(fifo')
           /\ fifo' = IF Pops THEN Tail(fifo) ELSE fifo
           /\ Len(fifo') = IF Pops THEN Len(fifo) - 1 ELSE Len(fifo)
           /\ FrontEntry' = IF Pops THEN FrontEntry + 1 ELSE FrontEntry
           /\ Words'
           /\ cfg' = IF Take THEN <<entry[1], FrontEntry>> ELSE <<>>
           /\ Take => entry[1] \in 1..MaxModes /\ FrontEntry \in 1..N
           /\ Sent' = Sent /\ Sent \in 0..N
  <1> USE DEF IInv
  <1> DEFINE Word == (1..MaxModes) \X (1..N)
  <1>1. fifo \in Seq(Word) /\ Len(fifo) \in Nat /\ visible \in 0..Len(fifo)
    BY DEF TypeOK
  <1>2. UNCHANGED sysVars /\ Pending' = Pending /\ Sent' = Sent /\ entry' = entry
    BY DEF RefEdge, sysVars, Pending, Sent
  <1>3. Sent \in 0..N
    BY <1>1 DEF TypeOK, CpuInv, Words, Pending, Sent
  <1>4. fifo' = IF Pops THEN Tail(fifo) ELSE fifo
    BY DEF RefEdge, ReadSide
  <1>5. Pops => Len(fifo) > 0
    BY <1>1 DEF Pops
  <1>6. /\ fifo' \in Seq(Word) /\ Len(fifo') = (IF Pops THEN Len(fifo) - 1 ELSE Len(fifo))
        /\ Pops => \A j \in 1..Len(fifo') : fifo'[j] = fifo[j + 1]
    <2> HIDE DEF Word
    <2> QED
      BY <1>1, <1>4, <1>5
  <1>7. visible' \in 0..Len(fifo')
    BY <1>1, <1>6 DEF RefEdge, ReadSide, Pops
  <1>8. FrontEntry' = IF Pops THEN FrontEntry + 1 ELSE FrontEntry
    BY <1>1, <1>2, <1>3, <1>6 DEF FrontEntry
  <1>9. Words'
    <2>1. CASE Pops
      <3>1. Len(fifo') <= Sent'
        BY <1>1, <1>2, <1>3, <1>6, <2>1 DEF Words
      <3>2. SUFFICES ASSUME NEW j \in 1..Len(fifo') PROVE fifo'[j] = <<entry[1], FrontEntry' - 1 + j>>
        BY <1>2, <3>1 DEF Words
      <3>5. j + 1 \in 1..Len(fifo)
        BY <1>1, <1>6, <2>1
      <3>3. fifo[j + 1] = <<entry[1], FrontEntry - 1 + (j + 1)>>
        BY <3>5 DEF Words
      <3>4. FrontEntry - 1 + (j + 1) = FrontEntry' - 1 + j
        BY <1>1, <1>3, <1>6, <1>8, <2>1 DEF FrontEntry
      <3> QED
        BY <1>6, <2>1, <3>3, <3>4
    <2>2. CASE ~Pops
      BY <1>2, <1>4, <1>8, <2>2 DEF Words
    <2> QED
      BY <2>1, <2>2
  <1>10. Take => fifo[1] = <<entry[1], FrontEntry>> /\ fifo[1] \in Word /\ Len(fifo) > 0
    <2>1. Take => Len(fifo) > 0
      BY <1>1 DEF Take
    <2>2. FrontEntry - 1 + 1 = FrontEntry
      BY <1>1, <1>3 DEF FrontEntry
    <2>3. Take => fifo[1] \in Word
      BY <1>1, <2>1
    <2> QED
      BY <1>1, <2>1, <2>2, <2>3 DEF Words
  <1>11. cfg' = IF Take THEN <<entry[1], FrontEntry>> ELSE <<>>
    <2>1. cfg' = IF Take THEN Head(fifo) ELSE <<>>
      BY Zenon DEF RefEdge, Reader
    <2>2. Take => Head(fifo) = fifo[1]
      <3> HIDE DEF Word
      <3> QED
        BY <1>1, <1>10
    <2> QED
      BY <1>10, <2>1, <2>2, Zenon
  <1>12. Take => entry[1] \in 1..MaxModes /\ FrontEntry \in 1..N
    BY <1>10
  <1> QED
    BY <1>1, <1>2, <1>3, <1>4, <1>6, <1>7, <1>8, <1>9, <1>11, <1>12

\* No parameter that the reader writes is ignored, and the parameters before the front
\* of the FIFO are in the core.
LEMMA Takes ==
    ASSUME IInv, RefEdge
    PROVE  /\ regs' \in [Params -> 0..MaxModes] /\ started' \in 0..MaxModes
           /\ \A i \in Params : i < FrontEntry => regs'[i] = entry[1]
           /\ started' # started => \A i \in Params : regs'[i] = started'
  <1> USE DEF IInv
  <1> DEFINE taken == cfg # <<>> /\ ~waitrequest
             start == taken /\ cfg[2] = N /\ StartsHere(core, locked, changed)
  <1>1. cfg # <<>> => /\ cfg[1] \in 1..MaxModes /\ cfg[2] \in 1..N
                      /\ cfg[1] = entry[1] /\ cfg[2] \in {FrontEntry - 1, FrontEntry}
    BY SMTT(20) DEF TypeOK, Copy
  <1>2. /\ regs' = IF taken /\ cfg[2] < N THEN [regs EXCEPT ![cfg[2]] = cfg[1]] ELSE regs
        /\ started' = IF start THEN cfg[1] ELSE started
    BY Zenon DEF RefEdge, Core
  <1>3. cfg # <<>> /\ cfg[2] < N => taken
    <2>1. ASSUME cfg # <<>>, cfg[2] < N PROVE locked /\ core = "idle"
      BY <2>1 DEF Ended
    <2> QED
      BY <2>1 DEF waitrequest, WaitRequest
  <1> HIDE DEF start
  <1>9. regs' = IF cfg # <<>> /\ cfg[2] < N THEN [regs EXCEPT ![cfg[2]] = cfg[1]] ELSE regs
    BY <1>2, <1>3, Zenon
  <1>4. regs \in [Params -> 0..MaxModes] /\ started \in 0..MaxModes
    BY DEF TypeOK
  <1>10. start => cfg # <<>> /\ cfg[2] = N
    BY DEF start
  <1> HIDE DEF taken
  <1>5. regs' \in [Params -> 0..MaxModes] /\ started' \in 0..MaxModes
    <2>1. started' \in 0..MaxModes
      BY <1>1, <1>2, <1>4, <1>10
    <2>2. cfg # <<>> /\ cfg[2] < N => cfg[2] \in Params /\ cfg[1] \in 0..MaxModes
      BY <1>1 DEF Params
    <2>3. regs' \in [Params -> 0..MaxModes]
      BY <1>4, <1>9, <2>2
    <2> QED
      BY <2>1, <2>3
  <1>6. FrontEntry \in Int
    <2>1. Sent \in Int
      BY Reads
    <2>2. Len(fifo) \in Int
      BY DEF TypeOK
    <2> QED
      BY <2>1, <2>2 DEF FrontEntry
  <1>7. ASSUME NEW i \in Params, i < FrontEntry PROVE regs'[i] = entry[1]
    <2>1. CASE cfg = <<>>
      BY <1>7, <1>9, <2>1 DEF Copy
    <2>2. CASE cfg # <<>>
      <3>1. i < cfg[2] \/ i = cfg[2]
        BY <1>1, <1>6, <1>7, <2>2 DEF Params
      <3>2. i < cfg[2] => regs[i] = entry[1] /\ i # cfg[2]
        BY <1>1, <2>2 DEF Copy, Params
      <3>3. i = cfg[2] => cfg[2] < N
        BY DEF Params
      <3> QED
        BY <1>1, <1>4, <1>9, <2>2, <3>1, <3>2, <3>3
    <2> QED
      BY <2>1, <2>2
  <1>8. started' # started => \A i \in Params : regs'[i] = started'
    <2> SUFFICES ASSUME started' # started, NEW i \in Params PROVE regs'[i] = started'
      OBVIOUS
    <2>1. cfg # <<>> /\ cfg[2] = N /\ started' = entry[1] /\ regs' = regs
      BY <1>1, <1>2, <1>9, <1>10
    <2> QED
      BY <2>1 DEF Copy, Params
  <1> QED
    BY <1>5, <1>7, <1>8

\* The core leaves "idle" with the start of the mode, and until then the lock holds.
LEMMA CoreMoves ==
    ASSUME IInv, RefEdge
    PROVE  /\ core' \in CoreStates /\ changed' \in BOOLEAN /\ locked' \in BOOLEAN
           /\ core = "idle" /\ core' # "idle" => cfg # <<>> /\ cfg[2] = N /\ core' = "writing"
           /\ core = "idle" /\ locked /\ fifo # <<>> => locked'
  <1>1. core \in CoreStates /\ locked \in BOOLEAN
    BY DEF IInv, TypeOK
  <1>2. PICK start \in BOOLEAN : /\ start => cfg # <<>> /\ cfg[2] = N
                                 /\ core' \in NextStates(core, locked, start)
    BY Zenon DEF RefEdge, Core
  <1>3. /\ core' \in CoreStates
        /\ core = "idle" /\ core' # "idle" => cfg # <<>> /\ cfg[2] = N /\ core' = "writing"
    BY <1>1, <1>2 DEF NextStates, CoreStates
  <1>4. changed' \in BOOLEAN
    BY Zenon DEF RefEdge, Core
  <1>5. locked' \in BOOLEAN /\ (core = "idle" /\ locked /\ fifo # <<>> => locked')
    BY <1>1, Zenon DEF RefEdge, Lock, OnItsWay
  <1> QED
    BY <1>3, <1>4, <1>5

LEMMA RefInv == IInv /\ RefEdge => IInv'
  <1> SUFFICES ASSUME IInv, RefEdge PROVE IInv'
    OBVIOUS
  <1>1. /\ fifo' \in Seq((1..MaxModes) \X (1..N)) /\ Len(fifo') <= Len(fifo) /\ visible' \in 0..Len(fifo')
        /\ fifo' = IF Pops THEN Tail(fifo) ELSE fifo
        /\ Len(fifo') = IF Pops THEN Len(fifo) - 1 ELSE Len(fifo)
        /\ FrontEntry' = IF Pops THEN FrontEntry + 1 ELSE FrontEntry
        /\ Words'
        /\ cfg' = IF Take THEN <<entry[1], FrontEntry>> ELSE <<>>
        /\ Take => entry[1] \in 1..MaxModes /\ FrontEntry \in 1..N
        /\ Sent' = Sent /\ Sent \in 0..N
    BY Reads
  <1>2. /\ regs' \in [Params -> 0..MaxModes] /\ started' \in 0..MaxModes
        /\ \A i \in Params : i < FrontEntry => regs'[i] = entry[1]
    BY Takes
  <1>12. /\ core' \in CoreStates /\ changed' \in BOOLEAN /\ locked' \in BOOLEAN
         /\ core = "idle" /\ core' # "idle" => cfg # <<>> /\ cfg[2] = N /\ core' = "writing"
         /\ core = "idle" /\ locked /\ fifo # <<>> => locked'
    BY CoreMoves
  <1>3. UNCHANGED sysVars /\ rdack' = Take
    BY DEF RefEdge, Reader
  <1>4. Len(fifo) \in Nat /\ visible \in 0..Len(fifo) /\ Len(fifo) <= Depth /\ FrontEntry \in Int
    BY <1>1 DEF IInv, TypeOK, FrontEntry
  <1>5. Take \in BOOLEAN
    BY DEF Take
  <1>6. cfg' \in {<<>>} \union ((1..MaxModes) \X (1..N))
    BY <1>1
  <1>7. TypeOK'
    <2>1. Len(fifo') <= Depth
      BY <1>1, <1>4
    <2>2. rdack' \in BOOLEAN
      BY <1>3, <1>5
    <2> QED
      BY <1>1, <1>2, <1>3, <1>6, <1>12, <2>1, <2>2 DEF IInv, TypeOK, sysVars
  <1>8. CpuInv'
    BY <1>1, <1>3, <1>4 DEF IInv, CpuInv, Pending, sysVars
  <1>13. visible > 0 => Len(fifo) > 0 /\ fifo # <<>> /\ core = "idle"
    BY <1>4 DEF IInv, Ended
  <1>9. Pops => Take
    BY <1>13 DEF IInv, Copy, Ended, Pops, Take, waitrequest, WaitRequest
  <1>10. Copy'
    <2>1. CASE Take
      <3>1. cfg' = <<entry[1], FrontEntry>> /\ cfg' # <<>> /\ entry' = entry /\ rdack'
        BY <1>1, <1>3, <2>1 DEF sysVars
      <3>2. FrontEntry \in {FrontEntry' - 1, FrontEntry'}
        BY <1>1, <1>4
      <3>3. FrontEntry = FrontEntry' => visible' > 0
        BY <1>1, <1>4, <2>1 DEF RefEdge, ReadSide, Take
      <3> QED
        BY <1>2, <3>1, <3>2, <3>3 DEF Copy
    <2>2. CASE ~Take
      BY <1>1, <1>2, <1>3, <1>9, <2>2 DEF Copy, sysVars
    <2> QED
      BY <2>1, <2>2
  <1>11. Ended'
    <2>1. ~locked' => cfg' = <<>>
      <3>1. Take => locked /\ visible > 0
        BY DEF Take, waitrequest, WaitRequest
      <3> QED
        BY <1>1, <1>12, <1>13, <3>1, Zenon
    <2>2. ASSUME core' # "idle"
          PROVE  Len(fifo') = 0 /\ Sent = N /\ (Take => FrontEntry = N /\ core' = "writing")
      <3>1. CASE core # "idle"
        <4>1. fifo = <<>> /\ Sent = N
          BY <3>1 DEF IInv, Ended
        <4> QED
          BY <1>1, <1>4, <1>13, <3>1, <4>1 DEF Take
      <3>2. CASE core = "idle"
        <4>3. cfg # <<>> /\ cfg[2] = N /\ core' = "writing"
          BY <1>12, <2>2, <3>2, Zenon
        <4>1. CASE FrontEntry - 1 = N
          <5>1. Len(fifo) = 0 /\ Sent = N
            BY <1>1, <1>4, <4>1 DEF FrontEntry
          <5> QED
            BY <1>1, <1>4, <1>13, <5>1 DEF Take
        <4>2. CASE FrontEntry = N
          <5>1. Pops
            BY <4>2, <4>3 DEF IInv, Copy, Pops
          <5>2. Len(fifo) >= 1 /\ Len(fifo') = Len(fifo) - 1
            BY <1>1, <1>4, <5>1 DEF Pops
          <5>3. Sent - Len(fifo) + 1 = N
            BY <4>2 DEF FrontEntry
          <5>4. Sent \in Int /\ Sent <= N /\ Len(fifo) \in Nat
            BY <1>1, <1>4
          <5>5. Len(fifo) = 1 /\ Sent = N
            BY <5>2, <5>3, <5>4
          <5> QED
            BY <4>2, <4>3, <5>2, <5>5
        <4> QED
          BY <1>4, <4>1, <4>2, <4>3 DEF IInv, Copy
      <3> QED
        BY <3>1, <3>2
    <2>3. Len(fifo') = 0 => fifo' = <<>>
      <3>1. fifo' \in Seq((1..MaxModes) \X (1..N))
        BY <1>1
      <3> QED
        BY <3>1
    <2>4. core' # "idle" => /\ fifo' = <<>> /\ Sent' = N
                            /\ cfg' # <<>> => cfg'[2] = N /\ core' = "writing"
      BY <1>1, <2>2, <2>3
    <2> QED
      BY <2>1, <2>4 DEF Ended
  <1> QED
    BY <1>1, <1>7, <1>8, <1>10, <1>11 DEF IInv

LEMMA NextInv == IInv /\ [Next]_vars => IInv'
  <1> SUFFICES ASSUME IInv, [Next]_vars PROVE IInv'
    OBVIOUS
  <1>1. CASE UNCHANGED vars
    <2>1. /\ UNCHANGED <<cpu, entry, prev, pll_write, fifo, visible>>
          /\ UNCHANGED <<rdack, cfg, core, locked, changed, regs, started>>
      BY <1>1 DEF vars, sysVars, refVars
    <2>2. TypeOK'
      BY <2>1 DEF IInv, TypeOK
    <2>3. Pending' = Pending /\ Sent' = Sent /\ FrontEntry' = FrontEntry
      BY <2>1 DEF Pending, Sent, FrontEntry
    <2>4. CpuInv' /\ Words'
      BY <2>1, <2>3 DEF IInv, CpuInv, Words
    <2>5. Copy' /\ Ended'
      BY <2>1, <2>3 DEF IInv, Copy, Ended
    <2> QED
      BY <2>2, <2>4, <2>5 DEF IInv
  <1> QED
    BY <1>1, SendsInv, SetModeInv, RefInv DEF Next, Sys

\* Whatever the number of parameters, the depth of the FIFO and the clocks of a write
\* cycle: a reconfiguration of the pixel clock starts with all the parameters of its
\* mode in the core (hdmi.c:215-222, MiSTerLaggy.sv:312-323).
THEOREM NothingLost == Spec => StartHasAll
  <1>1. IInv /\ [Next]_vars => [started' # started => \A i \in Params : regs'[i] = started']_vars
    <2> SUFFICES ASSUME IInv, Next, started' # started PROVE \A i \in Params : regs'[i] = started'
      BY DEF vars
    <2>1. RefEdge
      BY DEF Next, Sys, SetMode, Poll, Io, Other, Reset, CrtcEdge, refVars
    <2> QED
      BY <2>1, Takes
  <1> QED
    BY <1>1, InitInv, NextInv, PTL DEF Spec, StartHasAll

----------------------------------------------------------------------------
LEMMA HdmiStep == HdmiNext => [Next]_vars
  <1> SUFFICES ASSUME HdmiNext PROVE Next \/ UNCHANGED vars
    OBVIOUS
  <1>1. CASE PixelSys
    BY <1>1 DEF PixelSys, Next
  <1>2. CASE PixelRef
    BY <1>2 DEF PixelRef, Next
  <1>3. CASE Booted \/ SetHdmi \/ Applied \/ ResetCore
    BY <1>3 DEF Booted, SetHdmi, Applied, ResetCore
  <1>4. CASE MainBus \/ NextFrame \/ PllClock \/ Adjust \/ Hps
    BY <1>4 DEF MainBus, NextFrame, PllClock, Adjust, Hps, Alone
  <1> QED
    BY <1>1, <1>2, <1>3, <1>4 DEF HdmiNext

\* Whatever the number of parameters, the depth of the FIFO and the clocks of a write
\* cycle, and whenever the core is reset: a reconfiguration of the pixel clock starts
\* with all the parameters of its mode (hdmi.c:215-295, MiSTerLaggy.sv:312-325).
THEOREM PixelClockWhole == HdmiSpec => StartHasAll
  <1>1. HdmiInit => Init
    BY DEF HdmiInit
  <1>2. [HdmiNext]_hdmiVars => [Next]_vars
    BY HdmiStep DEF hdmiVars
  <1> QED
    BY <1>1, <1>2, NothingLost, PTL DEF HdmiSpec, Spec

----------------------------------------------------------------------------
(* The HDMI output. *)

\* The writes of hdmi_set_mode before setPLL, before the last command, and all of them.
PllFrom == 12 + Fields
CfgFrom == PllFrom + 6 * Settings
Total == CfgFrom + 4

\* The command of n words of data that begins after the write number from.
Commands ==
    {[from |-> 0, cmd |-> SET_OVERRIDE, n |-> 1], [from |-> 4, cmd |-> SET_CFG, n |-> 1],
     [from |-> 8, cmd |-> SET_MODE, n |-> Fields + 1], [from |-> CfgFrom, cmd |-> SET_CFG, n |-> 1]}
    \union {[from |-> PllFrom + 6 * i - 6, cmd |-> SET_PLL, n |-> 3] : i \in 1..Settings}

\* Writes made.
Done == Total - Len(todo)

\* The port j writes into the command cmd.
PortAt(cmd, j) ==
    /\ vio_has_cmd <=> j >= 2
    /\ j >= 2 => vio_cmd = cmd /\ vio_cnt = j - 2

\* After p writes of the mode m the port is inside a command, or it is done.
PlaceAt(p) ==
    \/ p = Total /\ ~vio_has_cmd
    \/ \E g \in Commands : p \in g.from..(g.from + g.n + 2) /\ PortAt(g.cmd, p - g.from)

\* And a setting may be on its way.
CustomAt(p, m) ==
    \A i \in 1..Settings :
        /\ p \in {PllFrom + 6 * i - 3, PllFrom + 6 * i - 2} => custom.addr = i
        /\ p = PllFrom + 6 * i - 2 => custom.lo = m

AnyWord == {Enable, Disable} \union {W16(a, n) : a \in Nat, n \in Nat}
AnyAdj == [st : {"idle", "M", "K", "start"}, data : Int, m : Int, k : Int, modo : BOOLEAN]

VioType ==
    /\ todo \in Seq(AnyWord)
    /\ vio_override \in BOOLEAN /\ lowlat \in BOOLEAN /\ hit \in BOOLEAN
    /\ cfg_set \in BOOLEAN /\ cfg_got \in BOOLEAN
    /\ timing \in [1..Fields -> Nat] /\ settings \in [Values -> Int] /\ adj \in AnyAdj
    /\ hps \in 0..(Fields + Settings - 2) /\ mode \in 0..Modes

\* Outside hdmi_set_mode nothing is left to write, inside the rest of its writes, and
\* the port is where the writes made have taken it.
PortInv ==
    IF call # "hdmi" THEN todo = <<>> /\ ~vio_has_cmd
    ELSE /\ Len(todo) <= Total
         /\ \A i \in 1..Len(todo) : todo[i] = Program(mode)[Done + i]
         /\ PlaceAt(Done) /\ CustomAt(Done, mode)

\* The core holds setting i of mode k, and the adjuster has seen it.
Written(i, k) == settings[i] = k /\ (i = M => adj.m = k) /\ (i = K => adj.k = k)

\* The timing, the settings in effect, those that wait for a start and what the
\* adjuster is at are all of mode k.
Held(k) ==
    /\ \A i \in Values : settings[i] \in {k, Unwritten}
    /\ Whole(running, k) \/ Whole(settings, k)
Tuned(k) == adj.m = k /\ adj.k = k /\ (adj.st \in {"M", "K"} => adj.data = k)
Settled(k) == Timed(k) /\ Held(k) /\ Tuned(k)

\* The registers as write p + 1 of the mode m finds them.
Found(p, m) ==
    /\ p \in Nat
    /\ p >= 3 => vio_override
    /\ \A f \in 1..Fields : p >= 10 + f => timing[f] = m
    /\ p >= 11 + Fields => lowlat
    /\ ~hit /\ p \in 7..(CfgFrom + 2) =>
           /\ ~cfg_set /\ ~cfg_got
           /\ p >= PllFrom + 5 => adj.st = "idle"
           /\ \A i \in Values : p >= PllFrom + 6 * i - 1 => Written(i, m)
    /\ ~hit /\ p >= CfgFrom + 3 => Settled(m)

\* What the writes made have set.
MadeInv == call = "hdmi" => Found(Done, mode)

\* What the words of the HPS have set.
HpsInv ==
    hps > 0 /\ ~vio_override =>
        /\ \A f \in 1..Fields : f <= hps => timing[f] = 0
        /\ ~hit => /\ ~cfg_set /\ ~cfg_got
                   /\ hps > 1 => adj.st = "idle"
                   /\ \A i \in Values : i < hps - Fields + M => Written(i, 0)

\* Whenever a reconfiguration can start, clock and timing are of one mode.
CoherentInv == ~hit /\ (cfg_set \/ ~Middle) => \E k \in 0..Modes : Settled(k)

\* The mode that is named is held against the HPS.
ShownInv ==
    video_mode_desc # 0 /\ call # "hdmi" => vio_override /\ Timed(video_mode_desc) /\ lowlat

VioInv == VioType /\ PortInv /\ MadeInv /\ HpsInv /\ CoherentInv /\ ShownInv

----------------------------------------------------------------------------
(* The writes. *)

LEMMA Sizes ==
    /\ Fields \in Nat \ {0} /\ Settings \in Nat \ {0}
    /\ PllFrom = 12 + Fields /\ CfgFrom = PllFrom + 6 * Settings /\ Total = CfgFrom + 4
    /\ PllFrom \in Nat /\ CfgFrom \in Nat /\ Total \in Nat
  BY VioAssumption DEF PllFrom, CfgFrom, Total

\* The sequence s \o t over S, of p and q elements.
Joined(S, s, t, p, q) ==
    /\ s \o t \in Seq(S) /\ Len(s \o t) = p + q
    /\ \A k \in 1..p : (s \o t)[k] = s[k]
    /\ \A k \in 1..q : (s \o t)[p + k] = t[k]

LEMMA Concat ==
    ASSUME NEW S, NEW s \in Seq(S), NEW t \in Seq(S)
    PROVE  Joined(S, s, t, Len(s), Len(t))
  BY DEF Joined

IsCmd(s, cmd, data) ==
    /\ s \in Seq(AnyWord) /\ Len(s) = 4
    /\ s[1] = Enable /\ s[2] = W16(0, cmd) /\ s[3] = W16(0, data) /\ s[4] = Disable

LEMMA CmdIs == ASSUME NEW cmd \in Nat, NEW data \in Nat PROVE IsCmd(Cmd(cmd, data), cmd, data)
  <1>1. {Enable, Disable, W16(0, cmd), W16(0, data)} \subseteq AnyWord
    BY DEF AnyWord
  <1> QED
    BY <1>1 DEF Cmd, IsCmd

LEMMA WritePllIs ==
    ASSUME NEW m \in Nat, NEW i \in Nat
    PROVE  /\ \A j \in 1..6 : WritePll(m, i)[j] \in AnyWord
           /\ WritePll(m, i)[1] = Enable /\ WritePll(m, i)[2] = W16(0, SET_PLL)
           /\ WritePll(m, i)[3] = W16(0, i) /\ WritePll(m, i)[4] = W16(m, i)
           /\ WritePll(m, i)[5] = W16(m, i) /\ WritePll(m, i)[6] = Disable
  <1>1. {Enable, Disable, W16(0, SET_PLL), W16(0, i), W16(m, i)} \subseteq AnyWord
    BY DEF AnyWord, SET_PLL
  <1>2. /\ WritePll(m, i)[1] = Enable /\ WritePll(m, i)[2] = W16(0, SET_PLL)
        /\ WritePll(m, i)[3] = W16(0, i) /\ WritePll(m, i)[4] = W16(m, i)
        /\ WritePll(m, i)[5] = W16(m, i) /\ WritePll(m, i)[6] = Disable
    BY DEF WritePll
  <1>3. ASSUME NEW j \in 1..6 PROVE WritePll(m, i)[j] \in AnyWord
    <2>1. j = 1 \/ j = 2 \/ j = 3 \/ j = 4 \/ j = 5 \/ j = 6
      OBVIOUS
    <2> QED
      BY <1>1, <1>2, <2>1
  <1> QED
    BY <1>2, <1>3

LEMMA setPLLIs ==
    ASSUME NEW m \in Nat
    PROVE  /\ setPLL(m) \in Seq(AnyWord) /\ Len(setPLL(m)) = 6 * Settings
           /\ \A i \in 1..Settings, j \in 1..6 : setPLL(m)[6 * i - 6 + j] = WritePll(m, i)[j]
  <1>1. ASSUME NEW k \in 1..(6 * Settings)
        PROVE  WritePll(m, ((k - 1) \div 6) + 1)[((k - 1) % 6) + 1] \in AnyWord
    <2>1. ((k - 1) \div 6) + 1 \in Nat /\ ((k - 1) % 6) + 1 \in 1..6
      BY Sizes
    <2> QED
      BY <2>1, WritePllIs
  <1>2. setPLL(m) \in [1..(6 * Settings) -> AnyWord] /\ 6 * Settings \in Nat
    BY <1>1, Sizes DEF setPLL
  <1>3. setPLL(m) \in Seq(AnyWord) /\ Len(setPLL(m)) = 6 * Settings
    BY <1>2
  <1>4. ASSUME NEW i \in 1..Settings, NEW j \in 1..6
        PROVE  setPLL(m)[6 * i - 6 + j] = WritePll(m, i)[j]
    <2> DEFINE k == 6 * i - 6 + j
    <2>1. k \in 1..(6 * Settings) /\ i \in Nat \ {0} /\ k = 6 * i - 6 + j
      BY Sizes
    <2> HIDE DEF k
    <2>2. setPLL(m)[k] = WritePll(m, ((k - 1) \div 6) + 1)[((k - 1) % 6) + 1]
      BY <2>1, Zenon DEF setPLL
    <2>3. ((k - 1) \div 6) + 1 = i /\ ((k - 1) % 6) + 1 = j
      BY <2>1, Sizes
    <2>4. setPLL(m)[k] = WritePll(m, i)[j]
      BY <2>2, <2>3, Zenon
    <2> QED
      BY <2>1, <2>4, Zenon
  <1> QED
    BY <1>3, <1>4

LEMMA TimingIs ==
    ASSUME NEW m \in Nat
    PROVE  /\ Timing(m) \in Seq(AnyWord) /\ Len(Timing(m)) = 4 + Fields
           /\ Timing(m)[1] = Enable /\ Timing(m)[2] = W16(0, SET_MODE)
           /\ \A f \in 1..Fields : Timing(m)[2 + f] = W16(m, f)
           /\ Timing(m)[3 + Fields] = W16(0, 1) /\ Timing(m)[4 + Fields] = Disable
  <1> DEFINE a == <<Enable, W16(0, SET_MODE)>>
             b == [f \in 1..Fields |-> W16(m, f)]
             c == <<W16(0, 1), Disable>>
  <1>1. {Enable, Disable, W16(0, SET_MODE), W16(0, 1)} \subseteq AnyWord
    BY DEF AnyWord, SET_MODE
  <1>2. a \in Seq(AnyWord) /\ Len(a) = 2 /\ a[1] = Enable /\ a[2] = W16(0, SET_MODE)
    BY <1>1
  <1>3. c \in Seq(AnyWord) /\ Len(c) = 2 /\ c[1] = W16(0, 1) /\ c[2] = Disable
    BY <1>1
  <1>4. b \in [1..Fields -> AnyWord] /\ Fields \in Nat /\ \A f \in 1..Fields : b[f] = W16(m, f)
    BY Sizes DEF AnyWord
  <1> HIDE DEF a, b, c
  <1>5. b \in Seq(AnyWord) /\ Len(b) = Fields
    BY <1>4
  <1>13. Joined(AnyWord, a, b, 2, Fields)
    BY <1>2, <1>5, Concat, Zenon
  <1>6. /\ a \o b \in Seq(AnyWord) /\ Len(a \o b) = 2 + Fields
        /\ \A k \in 1..2 : (a \o b)[k] = a[k]
        /\ \A k \in 1..Fields : (a \o b)[2 + k] = b[k]
    BY <1>13, Zenon DEF Joined
  <1>14. Joined(AnyWord, a \o b, c, 2 + Fields, 2)
    <2>1. Joined(AnyWord, a \o b, c, Len(a \o b), Len(c))
      BY <1>3, <1>6, Concat, Zenon
    <2> QED
      BY <1>3, <1>6, <2>1, Zenon
  <1>7. /\ (a \o b) \o c \in Seq(AnyWord) /\ Len((a \o b) \o c) = (2 + Fields) + 2
        /\ \A k \in 1..(2 + Fields) : ((a \o b) \o c)[k] = (a \o b)[k]
        /\ \A k \in 1..2 : ((a \o b) \o c)[(2 + Fields) + k] = c[k]
    BY <1>14, Zenon DEF Joined
  <1>8. Timing(m) = (a \o b) \o c
    BY DEF Timing, a, b, c
  <1>9. Timing(m)[1] = Enable /\ Timing(m)[2] = W16(0, SET_MODE)
    BY <1>2, <1>6, <1>7, <1>8, Sizes
  <1>10. Timing(m)[(2 + Fields) + 1] = W16(0, 1) /\ Timing(m)[(2 + Fields) + 2] = Disable
    <2>1. 1 \in 1..2 /\ 2 \in 1..2
      OBVIOUS
    <2> QED
      BY <1>3, <1>7, <1>8, <2>1, Zenon
  <1>11. ASSUME NEW f \in 1..Fields PROVE Timing(m)[2 + f] = W16(m, f)
    <2>1. 2 + f \in 1..(2 + Fields)
      BY Sizes
    <2> QED
      BY <1>4, <1>6, <1>7, <1>8, <2>1, Zenon
  <1>12. (2 + Fields) + 1 = 3 + Fields /\ (2 + Fields) + 2 = 4 + Fields
    BY Sizes
  <1> QED
    BY <1>7, <1>8, <1>9, <1>10, <1>11, <1>12, Zenon

\* Where the parts of hdmi_set_mode are.
LEMMA ProgramIs ==
    ASSUME NEW m \in Nat
    PROVE  /\ Program(m) \in Seq(AnyWord) /\ Len(Program(m)) = Total
           /\ \A k \in 1..4 : Program(m)[k] = Cmd(SET_OVERRIDE, 1)[k]
           /\ \A k \in 1..4 : Program(m)[4 + k] = Cmd(SET_CFG, 0)[k]
           /\ \A k \in 1..(4 + Fields) : Program(m)[8 + k] = Timing(m)[k]
           /\ \A k \in 1..(6 * Settings) : Program(m)[PllFrom + k] = setPLL(m)[k]
           /\ \A k \in 1..4 : Program(m)[CfgFrom + k] = Cmd(SET_CFG, 1)[k]
  <1> DEFINE a == Cmd(SET_OVERRIDE, 1)
             b == Cmd(SET_CFG, 0)
             c == Timing(m)
             e == setPLL(m)
             f == Cmd(SET_CFG, 1)
             ab == a \o b
             abc == ab \o c
             abce == abc \o e
  <1>1. Program(m) = abce \o f
    BY DEF Program
  <1>2. SET_OVERRIDE \in Nat /\ SET_CFG \in Nat /\ 0 \in Nat /\ 1 \in Nat
    BY DEF SET_OVERRIDE, SET_CFG
  <1>3. a \in Seq(AnyWord) /\ Len(a) = 4 /\ b \in Seq(AnyWord) /\ Len(b) = 4 /\ f \in Seq(AnyWord) /\ Len(f) = 4
    <2>1. IsCmd(a, SET_OVERRIDE, 1) /\ IsCmd(b, SET_CFG, 0) /\ IsCmd(f, SET_CFG, 1)
      BY <1>2, CmdIs, Zenon
    <2> QED
      BY <2>1, Zenon DEF IsCmd
  <1>4. c \in Seq(AnyWord) /\ Len(c) = 4 + Fields
    BY TimingIs, Zenon
  <1>5. e \in Seq(AnyWord) /\ Len(e) = 6 * Settings
    BY setPLLIs, Zenon
  <1> HIDE DEF a, b, c, e, f
  <1>6. ab \in Seq(AnyWord) /\ Len(ab) = 8 /\ (\A k \in 1..4 : ab[k] = a[k]) /\ \A k \in 1..4 : ab[4 + k] = b[k]
    <2>1. Joined(AnyWord, a, b, 4, 4)
      BY <1>3, Concat, Zenon
    <2>2. 4 + 4 = 8
      OBVIOUS
    <2> QED
      BY <2>1, <2>2, Zenon DEF Joined
  <1> HIDE DEF ab
  <1>7. /\ abc \in Seq(AnyWord) /\ Len(abc) = PllFrom
        /\ (\A k \in 1..8 : abc[k] = ab[k]) /\ \A k \in 1..(4 + Fields) : abc[8 + k] = c[k]
    <2>1. Joined(AnyWord, ab, c, 8, 4 + Fields)
      <3>1. Joined(AnyWord, ab, c, Len(ab), Len(c))
        BY <1>4, <1>6, Concat, Zenon
      <3> QED
        BY <1>4, <1>6, <3>1, Zenon
    <2>2. 8 + (4 + Fields) = PllFrom
      BY Sizes
    <2> QED
      BY <2>1, <2>2, Zenon DEF Joined
  <1> HIDE DEF abc
  <1>8. /\ abce \in Seq(AnyWord) /\ Len(abce) = CfgFrom
        /\ (\A k \in 1..PllFrom : abce[k] = abc[k]) /\ \A k \in 1..(6 * Settings) : abce[PllFrom + k] = e[k]
    <2>1. Joined(AnyWord, abc, e, PllFrom, 6 * Settings)
      BY <1>5, <1>7, Concat, Zenon
    <2>2. PllFrom + 6 * Settings = CfgFrom
      BY Sizes
    <2> QED
      BY <2>1, <2>2, Zenon DEF Joined
  <1> HIDE DEF abce
  <1>9. /\ Program(m) \in Seq(AnyWord) /\ Len(Program(m)) = Total
        /\ (\A k \in 1..CfgFrom : Program(m)[k] = abce[k]) /\ \A k \in 1..4 : Program(m)[CfgFrom + k] = f[k]
    <2>1. Joined(AnyWord, abce, f, CfgFrom, 4)
      <3>1. Joined(AnyWord, abce, f, Len(abce), Len(f))
        BY <1>3, <1>8, Concat, Zenon
      <3> QED
        BY <1>3, <1>8, <3>1, Zenon
    <2>2. CfgFrom + 4 = Total
      BY Sizes
    <2> QED
      BY <1>1, <2>1, <2>2, Zenon DEF Joined
  <1>10. ASSUME NEW k \in 1..4 PROVE Program(m)[k] = a[k] /\ Program(m)[4 + k] = b[k]
    <2>1. k \in 1..8 /\ k \in 1..PllFrom /\ k \in 1..CfgFrom
      BY Sizes
    <2>2. 4 + k \in 1..8 /\ 4 + k \in 1..PllFrom /\ 4 + k \in 1..CfgFrom
      BY Sizes
    <2>3. Program(m)[k] = ab[k]
      BY <1>7, <1>8, <1>9, <2>1, Zenon
    <2>4. Program(m)[4 + k] = ab[4 + k]
      BY <1>7, <1>8, <1>9, <2>2, Zenon
    <2> QED
      BY <1>6, <2>3, <2>4, Zenon
  <1>11. ASSUME NEW k \in 1..(4 + Fields) PROVE Program(m)[8 + k] = c[k]
    <2>1. 8 + k \in 1..PllFrom /\ 8 + k \in 1..CfgFrom
      BY Sizes
    <2>2. Program(m)[8 + k] = abce[8 + k]
      BY <1>9, <2>1, Zenon
    <2>3. abce[8 + k] = abc[8 + k]
      BY <1>8, <2>1, Zenon
    <2>4. abc[8 + k] = c[k]
      BY <1>7, Zenon
    <2> QED
      BY <2>2, <2>3, <2>4
  <1>12. ASSUME NEW k \in 1..(6 * Settings) PROVE Program(m)[PllFrom + k] = e[k]
    <2>1. PllFrom + k \in 1..CfgFrom
      BY Sizes
    <2> QED
      BY <1>8, <1>9, <2>1, Zenon
  <1> QED
    BY <1>9, <1>10, <1>11, <1>12, Zenon DEF a, b, c, e, f

LEMMA Kinds ==
    ASSUME NEW g \in Commands
    PROVE  \/ g.from = 0 /\ g.cmd = SET_OVERRIDE /\ g.n = 1
           \/ g.from = 4 /\ g.cmd = SET_CFG /\ g.n = 1
           \/ g.from = 8 /\ g.cmd = SET_MODE /\ g.n = Fields + 1
           \/ g.from = CfgFrom /\ g.cmd = SET_CFG /\ g.n = 1
           \/ \E i \in 1..Settings : g.from = PllFrom + 6 * i - 6 /\ g.cmd = SET_PLL /\ g.n = 3
  BY DEF Commands

\* The command cmd with n words of data is in the program of the mode m.
Framed(m, from, cmd, n) ==
    /\ from \in Nat /\ n \in Nat \ {0} /\ from + n + 3 <= Total /\ cmd # 0
    /\ Program(m)[from + 1] = Enable /\ Program(m)[from + 2] = W16(0, cmd)
    /\ Program(m)[from + n + 3] = Disable

LEMMA PllWords ==
    ASSUME NEW m \in Nat, NEW i \in 1..Settings
    PROVE  /\ Framed(m, PllFrom + 6 * i - 6, SET_PLL, 3)
           /\ Program(m)[PllFrom + 6 * i - 3] = W16(0, i)
           /\ Program(m)[PllFrom + 6 * i - 2] = W16(m, i)
           /\ Program(m)[PllFrom + 6 * i - 1] = W16(m, i)
  <1>1. ASSUME NEW j \in 1..6 PROVE Program(m)[PllFrom + 6 * i - 6 + j] = WritePll(m, i)[j]
    <2>1. setPLL(m)[6 * i - 6 + j] = WritePll(m, i)[j]
      BY setPLLIs, Zenon
    <2>2. 6 * i - 6 + j \in 1..(6 * Settings) /\ PllFrom + 6 * i - 6 + j = PllFrom + (6 * i - 6 + j)
      BY Sizes
    <2>3. Program(m)[PllFrom + (6 * i - 6 + j)] = setPLL(m)[6 * i - 6 + j]
      BY <2>2, ProgramIs, Zenon
    <2> QED
      BY <2>1, <2>2, <2>3, Zenon
  <1>2. 1 \in 1..6 /\ 2 \in 1..6 /\ 3 \in 1..6 /\ 4 \in 1..6 /\ 5 \in 1..6 /\ 6 \in 1..6 /\ i \in Nat
    BY Sizes
  <1>3. /\ Program(m)[PllFrom + 6 * i - 6 + 1] = Enable
        /\ Program(m)[PllFrom + 6 * i - 6 + 2] = W16(0, SET_PLL)
        /\ Program(m)[PllFrom + 6 * i - 6 + 3] = W16(0, i)
        /\ Program(m)[PllFrom + 6 * i - 6 + 4] = W16(m, i)
        /\ Program(m)[PllFrom + 6 * i - 6 + 5] = W16(m, i)
        /\ Program(m)[PllFrom + 6 * i - 6 + 6] = Disable
    <2>1. /\ WritePll(m, i)[1] = Enable /\ WritePll(m, i)[2] = W16(0, SET_PLL)
          /\ WritePll(m, i)[3] = W16(0, i) /\ WritePll(m, i)[4] = W16(m, i)
          /\ WritePll(m, i)[5] = W16(m, i) /\ WritePll(m, i)[6] = Disable
      BY <1>2, WritePllIs, Zenon
    <2>2. /\ Program(m)[PllFrom + 6 * i - 6 + 1] = Enable
          /\ Program(m)[PllFrom + 6 * i - 6 + 2] = W16(0, SET_PLL)
          /\ Program(m)[PllFrom + 6 * i - 6 + 3] = W16(0, i)
      BY <1>1, <1>2, <2>1, Zenon
    <2>3. /\ Program(m)[PllFrom + 6 * i - 6 + 4] = W16(m, i)
          /\ Program(m)[PllFrom + 6 * i - 6 + 5] = W16(m, i)
          /\ Program(m)[PllFrom + 6 * i - 6 + 6] = Disable
      BY <1>1, <1>2, <2>1, Zenon
    <2> QED
      BY <2>2, <2>3
  <1>4. /\ PllFrom + 6 * i - 6 + 3 = PllFrom + 6 * i - 3 /\ PllFrom + 6 * i - 6 + 4 = PllFrom + 6 * i - 2
        /\ PllFrom + 6 * i - 6 + 5 = PllFrom + 6 * i - 1
        /\ PllFrom + 6 * i - 6 + 6 = PllFrom + 6 * i - 6 + 3 + 3
        /\ PllFrom + 6 * i - 6 \in Nat /\ 3 \in Nat \ {0} /\ PllFrom + 6 * i - 6 + 3 + 3 <= Total
        /\ SET_PLL # 0
    BY Sizes DEF SET_PLL
  <1> QED
    BY <1>3, <1>4, Zenon DEF Framed

LEMMA OtherWords ==
    ASSUME NEW m \in Nat
    PROVE  /\ Framed(m, 0, SET_OVERRIDE, 1) /\ Program(m)[3] = W16(0, 1)
           /\ Framed(m, 4, SET_CFG, 1) /\ Program(m)[7] = W16(0, 0)
           /\ Framed(m, 8, SET_MODE, Fields + 1)
           /\ \A f \in 1..Fields : Program(m)[10 + f] = W16(m, f)
           /\ Program(m)[11 + Fields] = W16(0, 1)
           /\ Framed(m, CfgFrom, SET_CFG, 1) /\ Program(m)[CfgFrom + 3] = W16(0, 1)
  <1>1. 1 \in 1..4 /\ 2 \in 1..4 /\ 3 \in 1..4 /\ 4 \in 1..4
    OBVIOUS
  <1>11. SET_OVERRIDE \in Nat /\ SET_CFG \in Nat /\ 0 \in Nat /\ 1 \in Nat
    BY DEF SET_OVERRIDE, SET_CFG
  <1>12. \A k \in 1..4 : Program(m)[k] = Cmd(SET_OVERRIDE, 1)[k]
    BY ProgramIs, Zenon
  <1>13. \A k \in 1..4 : Program(m)[4 + k] = Cmd(SET_CFG, 0)[k]
    BY ProgramIs, Zenon
  <1>14. \A k \in 1..4 : Program(m)[CfgFrom + k] = Cmd(SET_CFG, 1)[k]
    BY ProgramIs, Zenon
  <1>2. /\ Program(m)[1] = Enable /\ Program(m)[2] = W16(0, SET_OVERRIDE)
        /\ Program(m)[3] = W16(0, 1) /\ Program(m)[4] = Disable
    <2>1. IsCmd(Cmd(SET_OVERRIDE, 1), SET_OVERRIDE, 1)
      BY <1>11, CmdIs, Zenon
    <2> QED
      BY <1>1, <1>12, <2>1, Zenon DEF IsCmd
  <1>3. /\ Program(m)[4 + 1] = Enable /\ Program(m)[4 + 2] = W16(0, SET_CFG)
        /\ Program(m)[4 + 3] = W16(0, 0) /\ Program(m)[4 + 4] = Disable
    <2>1. IsCmd(Cmd(SET_CFG, 0), SET_CFG, 0)
      BY <1>11, CmdIs, Zenon
    <2> QED
      BY <1>1, <1>13, <2>1, Zenon DEF IsCmd
  <1>4. /\ Program(m)[CfgFrom + 1] = Enable /\ Program(m)[CfgFrom + 2] = W16(0, SET_CFG)
        /\ Program(m)[CfgFrom + 3] = W16(0, 1) /\ Program(m)[CfgFrom + 4] = Disable
    <2>1. IsCmd(Cmd(SET_CFG, 1), SET_CFG, 1)
      BY <1>11, CmdIs, Zenon
    <2> QED
      BY <1>1, <1>14, <2>1, Zenon DEF IsCmd
  <1>5. /\ Program(m)[8 + 1] = Enable /\ Program(m)[8 + 2] = W16(0, SET_MODE)
        /\ Program(m)[8 + (3 + Fields)] = W16(0, 1) /\ Program(m)[8 + (4 + Fields)] = Disable
    <2>1. /\ 1 \in 1..(4 + Fields) /\ 2 \in 1..(4 + Fields)
          /\ 3 + Fields \in 1..(4 + Fields) /\ 4 + Fields \in 1..(4 + Fields)
      BY Sizes
    <2>2. \A k \in 1..(4 + Fields) : Program(m)[8 + k] = Timing(m)[k]
      BY ProgramIs, Zenon
    <2> QED
      BY <2>1, <2>2, TimingIs, Zenon
  <1>6. ASSUME NEW f \in 1..Fields PROVE Program(m)[10 + f] = W16(m, f)
    <2>1. 2 + f \in 1..(4 + Fields) /\ 10 + f = 8 + (2 + f)
      BY Sizes
    <2>2. Program(m)[8 + (2 + f)] = Timing(m)[2 + f] /\ Timing(m)[2 + f] = W16(m, f)
      BY <2>1, ProgramIs, TimingIs, Zenon
    <2> QED
      BY <2>1, <2>2, Zenon
  <1>7. Framed(m, 0, SET_OVERRIDE, 1)
    BY <1>2, Sizes DEF Framed, SET_OVERRIDE
  <1>8. Framed(m, 4, SET_CFG, 1) /\ Program(m)[7] = W16(0, 0)
    BY <1>3, Sizes DEF Framed, SET_CFG
  <1>9. Framed(m, CfgFrom, SET_CFG, 1)
    BY <1>4, Sizes DEF Framed, SET_CFG
  <1>10. Framed(m, 8, SET_MODE, Fields + 1) /\ Program(m)[11 + Fields] = W16(0, 1)
    <2>1. 8 + (3 + Fields) = 11 + Fields /\ 8 + (4 + Fields) = 8 + (Fields + 1) + 3
      BY Sizes
    <2>2. 8 \in Nat /\ Fields + 1 \in Nat \ {0} /\ 8 + (Fields + 1) + 3 <= Total /\ SET_MODE # 0
      BY Sizes DEF SET_MODE
    <2> QED
      BY <1>5, <2>1, <2>2, Zenon DEF Framed
  <1> QED
    BY <1>2, <1>4, <1>6, <1>7, <1>8, <1>9, <1>10, Zenon

\* A command is framed, and another one or the end comes after it.
LEMMA CommandWords ==
    ASSUME NEW m \in Nat, NEW g \in Commands
    PROVE  /\ Framed(m, g.from, g.cmd, g.n)
           /\ g.from + g.n + 3 = Total \/ \E h \in Commands : h.from = g.from + g.n + 3
  <1>1. Framed(m, g.from, g.cmd, g.n)
    <2>1. /\ Framed(m, 0, SET_OVERRIDE, 1) /\ Framed(m, 4, SET_CFG, 1)
          /\ Framed(m, 8, SET_MODE, Fields + 1) /\ Framed(m, CfgFrom, SET_CFG, 1)
      BY OtherWords, Zenon
    <2>2. \A i \in 1..Settings : Framed(m, PllFrom + 6 * i - 6, SET_PLL, 3)
      BY PllWords, Zenon
    <2> QED
      BY <2>1, <2>2, Kinds, Zenon
  <1> DEFINE at(k) == k = Total \/ \E h \in Commands : h.from = k
  <1>2. at(4) /\ at(8) /\ at(CfgFrom) /\ \A i \in 1..Settings : at(PllFrom + 6 * i - 6)
    <2>1. ASSUME NEW h \in Commands PROVE at(h.from)
      OBVIOUS
    <2>2. /\ [from |-> 4, cmd |-> SET_CFG, n |-> 1] \in Commands
          /\ [from |-> 8, cmd |-> SET_MODE, n |-> Fields + 1] \in Commands
          /\ [from |-> CfgFrom, cmd |-> SET_CFG, n |-> 1] \in Commands
          /\ \A i \in 1..Settings : [from |-> PllFrom + 6 * i - 6, cmd |-> SET_PLL, n |-> 3] \in Commands
      BY Zenon DEF Commands
    <2> HIDE DEF at
    <2>3. \A k, c, n : [from |-> k, cmd |-> c, n |-> n].from = k
      OBVIOUS
    <2> QED
      BY <2>1, <2>2, <2>3, Zenon
  <1> HIDE DEF at
  <1>3. CASE g.from = 0 /\ g.n = 1
    <2>1. g.from + g.n + 3 = 4
      BY <1>3
    <2> QED
      BY <1>1, <1>2, <2>1, Zenon DEF at
  <1>4. CASE g.from = 4 /\ g.n = 1
    <2>1. g.from + g.n + 3 = 8
      BY <1>4
    <2> QED
      BY <1>1, <1>2, <2>1, Zenon DEF at
  <1>5. CASE g.from = 8 /\ g.n = Fields + 1
    <2>1. 1 \in 1..Settings /\ g.from + g.n + 3 = PllFrom + 6 * 1 - 6
      BY <1>5, Sizes
    <2> QED
      BY <1>1, <1>2, <2>1, Zenon DEF at
  <1>6. CASE g.from = CfgFrom /\ g.n = 1
    <2>1. g.from + g.n + 3 = Total
      BY <1>6, Sizes
    <2> QED
      BY <1>1, <2>1, Zenon
  <1>7. ASSUME NEW i \in 1..Settings, g.from = PllFrom + 6 * i - 6, g.n = 3 PROVE at(g.from + g.n + 3)
    <2>1. CASE i = Settings
      <3>1. g.from + g.n + 3 = CfgFrom
        BY <1>7, <2>1, Sizes
      <3> QED
        BY <1>2, <3>1, Zenon
    <2>2. CASE i # Settings
      <3>1. i + 1 \in 1..Settings /\ g.from + g.n + 3 = PllFrom + 6 * (i + 1) - 6
        BY <1>7, <2>2, Sizes
      <3> QED
        BY <1>2, <3>1, Zenon
    <2> QED
      BY <2>1, <2>2
  <1> QED
    BY <1>1, <1>3, <1>4, <1>5, <1>6, <1>7, Kinds, Zenon DEF at

----------------------------------------------------------------------------
(* What a write does. *)

LEMMA WordKinds ==
    /\ Enable # Disable /\ Len(Enable) # 3 /\ Len(Disable) # 3
    /\ \A a, n : /\ Len(W16(a, n)) = 3 /\ W16(a, n)[2] = a /\ W16(a, n)[3] = n
                 /\ W16(a, n) # Enable /\ W16(a, n) # Disable
  <1>1. Enable # Disable
    BY DEF Enable, Disable
  <1>2. Len(Enable) = 1 /\ Len(Disable) = 1
    BY DEF Enable, Disable
  <1>3. ASSUME NEW a, NEW n PROVE Len(W16(a, n)) = 3 /\ W16(a, n)[2] = a /\ W16(a, n)[3] = n
    BY DEF W16
  <1> QED
    BY <1>1, <1>2, <1>3

dataVars == <<vio_override, timing, lowlat, pllVars>>

LEMMA BusIs ==
    ASSUME Bus
    PROVE  /\ todo # <<>> /\ todo' = Tail(todo) /\ hps' = hps
           /\ Head(todo) = Enable => UNCHANGED <<vio_has_cmd, vio_cmd, vio_cnt, custom, dataVars>>
           /\ Head(todo) = Disable => ~vio_has_cmd' /\ UNCHANGED dataVars
           /\ \A a, n : Head(todo) = W16(a, n) => IF vio_has_cmd THEN Data(a, n) ELSE Command(n)
  <1> DEFINE w == Head(todo)
  <1>1. /\ todo # <<>> /\ todo' = Tail(todo) /\ hps' = hps
        /\ \/ w \in {Enable, Disable} /\ En
           \/ Len(w) = 3 /\ ~vio_has_cmd /\ Command(w[3])
           \/ Len(w) = 3 /\ vio_has_cmd /\ Data(w[2], w[3])
    BY DEF Bus
  <1>2. w = Enable => UNCHANGED <<vio_has_cmd, vio_cmd, vio_cnt, custom, dataVars>>
    BY <1>1, WordKinds DEF En, dataVars
  <1>3. w = Disable => ~vio_has_cmd' /\ UNCHANGED dataVars
    BY <1>1, WordKinds DEF En, Closed, dataVars
  <1> HIDE DEF w
  <1>4. ASSUME NEW a, NEW n, w = W16(a, n) PROVE IF vio_has_cmd THEN Data(a, n) ELSE Command(n)
    <2>1. w \notin {Enable, Disable} /\ w[2] = a /\ w[3] = n
      BY <1>4, WordKinds, Zenon
    <2> QED
      BY <1>1, <2>1, Zenon
  <1> QED
    BY <1>1, <1>2, <1>3, <1>4 DEF w

\* The write at hand, and what is left after it.
LEMMA NextWrite ==
    ASSUME VioType, PortInv, call = "hdmi", todo # <<>>, NEW m, mode = m, mode' = m, todo' = Tail(todo)
    PROVE  /\ Done \in 0..(Total - 1) /\ Done' = Done + 1 /\ Head(todo) = Program(m)[Done + 1]
           /\ todo' \in Seq(AnyWord) /\ Len(todo') <= Total
           /\ \A i \in 1..Len(todo') : todo'[i] = Program(m)[Done' + i]
           /\ Done' = Total => todo' = <<>>
  <1>1. /\ todo \in Seq(AnyWord) /\ Len(todo) <= Total
        /\ \A i \in 1..Len(todo) : todo[i] = Program(m)[Done + i]
    <2>1. /\ todo \in Seq(AnyWord) /\ Len(todo) <= Total
          /\ \A i \in 1..Len(todo) : todo[i] = Program(mode)[Done + i]
      BY DEF VioType, PortInv
    <2> QED
      BY <2>1, Zenon
  <1>2. /\ Len(todo) \in Nat \ {0} /\ Len(todo') = Len(todo) - 1 /\ todo' \in Seq(AnyWord) /\ Head(todo) = todo[1]
        /\ \A i \in 1..Len(todo') : todo'[i] = todo[i + 1]
    BY <1>1
  <1>3. Done \in 0..(Total - 1) /\ Done' = Done + 1 /\ (Done' = Total => Len(todo') = 0)
    BY <1>1, <1>2, Sizes DEF Done
  <1>4. ASSUME NEW i \in 1..Len(todo') PROVE todo'[i] = Program(m)[Done' + i]
    <2>1. i + 1 \in 1..Len(todo) /\ Done + (i + 1) = Done' + i
      BY <1>2, <1>3
    <2> QED
      BY <1>1, <1>2, <2>1, Zenon
  <1>5. Head(todo) = Program(m)[Done + 1]
    <2>1. 1 \in 1..Len(todo)
      BY <1>2
    <2> QED
      BY <1>1, <1>2, <2>1, Zenon
  <1>6. Len(todo') <= Total
    BY <1>1, <1>2, Sizes
  <1>7. Done' = Total => todo' = <<>>
    BY <1>2, <1>3
  <1> QED
    BY <1>2, <1>3, <1>4, <1>5, <1>6, <1>7, Zenon

\* A write that is not data takes the port on and sets nothing.
LEMMA FrameWrite ==
    ASSUME NEW m, NEW from, NEW cmd, NEW n, Framed(m, from, cmd, n),
           NEW p \in {from, from + 1, from + n + 2}, PortAt(cmd, p - from), Bus, Head(todo) = Program(m)[p + 1]
    PROVE  /\ UNCHANGED dataVars
           /\ p = from + n + 2 => ~vio_has_cmd'
           /\ p # from + n + 2 => PortAt(cmd, p + 1 - from)'
  <1>1. from \in Nat /\ n \in Nat \ {0} /\ cmd # 0
    BY DEF Framed
  <1>2. CASE p = from
    <2>1. Head(todo) = Enable
      BY <1>2 DEF Framed
    <2>2. UNCHANGED <<vio_has_cmd, vio_cmd, vio_cnt, custom, dataVars>>
      BY <2>1, BusIs, Zenon
    <2>3. ~vio_has_cmd /\ p # from + n + 2 /\ ~(p + 1 - from >= 2)
      BY <1>1, <1>2 DEF PortAt
    <2> QED
      BY <2>2, <2>3, Zenon DEF PortAt
  <1>3. CASE p = from + 1
    <2>1. Head(todo) = W16(0, cmd) /\ ~vio_has_cmd
      <3>1. p + 1 = from + 2 /\ ~(p - from >= 2)
        BY <1>1, <1>3
      <3> QED
        BY <3>1, Zenon DEF Framed, PortAt
    <2>2. Command(cmd)
      BY <2>1, BusIs, Zenon
    <2>3. vio_has_cmd' /\ vio_cmd' = cmd /\ vio_cnt' = 0 /\ UNCHANGED dataVars
      BY <2>2 DEF Command, dataVars
    <2>4. p # from + n + 2 /\ p + 1 - from = 2
      BY <1>1, <1>3
    <2>5. PortAt(cmd, 2)'
      BY <2>3 DEF PortAt
    <2> QED
      BY <2>2, <2>3, <2>4, <2>5, Zenon
  <1>4. CASE p = from + n + 2
    <2>1. Head(todo) = Disable
      <3>1. p + 1 = from + n + 3
        BY <1>1, <1>4
      <3> QED
        BY <3>1, Zenon DEF Framed
    <2> QED
      BY <1>4, <2>1, BusIs, Zenon
  <1> QED
    BY <1>2, <1>3, <1>4

LEMMA DataWrite ==
    ASSUME NEW cmd, NEW j \in Nat, j >= 2, PortAt(cmd, j), NEW a, NEW v, Bus, Head(todo) = W16(a, v)
    PROVE  /\ PortAt(cmd, j + 1)' /\ vio_cmd = cmd /\ vio_cnt = j - 2
           /\ SetTiming(a, v) \/ SetPll(a, v) \/ SetOverride(v) \/ SetCfg(v)
  <1>1. vio_has_cmd /\ vio_cmd = cmd /\ vio_cnt = j - 2
    BY DEF PortAt
  <1>2. Data(a, v)
    BY <1>1, BusIs, Zenon
  <1>3. vio_cnt' = vio_cnt + 1 /\ UNCHANGED <<vio_en, vio_has_cmd, vio_cmd>>
    BY <1>2 DEF Data
  <1>4. vio_cnt' = (j + 1) - 2 /\ j + 1 >= 2
    BY <1>1, <1>3
  <1>5. PortAt(cmd, j + 1)'
    <2>1. vio_has_cmd' /\ vio_cmd' = cmd
      BY <1>1, <1>3
    <2> QED
      BY <1>4, <2>1, Zenon DEF PortAt
  <1> QED
    BY <1>1, <1>2, <1>5, Zenon DEF Data

\* The places of the data that sets something, and of a setting on its way.
Sets(p) ==
    \/ p \in {2, 6, 10 + Fields, CfgFrom + 2} \/ p \in 10..(9 + Fields)
    \/ \E i \in 1..Settings : p = PllFrom + 6 * i - 2
Carries(p) == \E i \in 1..Settings : p \in {PllFrom + 6 * i - 3, PllFrom + 6 * i - 2}

LEMMA EarlyPlaces ==
    ASSUME NEW p \in {0, 1, 3, 4, 5, 7, 8, 9, 11 + Fields}
    PROVE  ~Sets(p) /\ ~Carries(p + 1)
  BY Sizes DEF Sets, Carries

LEMMA MorePlaces ==
    /\ ~Carries(3) /\ ~Carries(7) /\ \A p \in 10..(10 + Fields) : ~Carries(p + 1)
    /\ ~Carries(CfgFrom + 3)
  BY Sizes DEF Carries

LEMMA LastPlaces ==
    ASSUME NEW p \in {CfgFrom, CfgFrom + 1, CfgFrom + 3}
    PROVE  ~Sets(p) /\ ~Carries(p + 1)
  BY Sizes DEF Sets, Carries

LEMMA PllPlaces ==
    ASSUME NEW k \in 1..Settings, NEW p
    PROVE  /\ p \in {PllFrom + 6 * k - 6, PllFrom + 6 * k - 5, PllFrom + 6 * k - 1} => ~Sets(p) /\ ~Carries(p + 1)
           /\ p \in {PllFrom + 6 * k - 4, PllFrom + 6 * k - 3} => ~Sets(p)
           /\ p = PllFrom + 6 * k - 2 => ~Carries(p + 1)
           /\ p \in {PllFrom + 6 * k - 3, PllFrom + 6 * k - 2} => \A i \in 1..Settings : i # k => p \notin {PllFrom + 6 * i - 3, PllFrom + 6 * i - 2}
           /\ p = PllFrom + 6 * k - 3 => \A i \in 1..Settings : p # PllFrom + 6 * i - 2
  BY Sizes DEF Sets, Carries

\* What write p + 1 of the mode m sets.
Effect(p, m) ==
    \/ p = 2 /\ vio_override' = TRUE /\ UNCHANGED <<timing, lowlat, pllVars>>
    \/ p = 6 /\ Set(FALSE) /\ hit' = FALSE /\ UNCHANGED <<vio_override, timing, lowlat>>
    \/ \E f \in 1..Fields : /\ p = 9 + f /\ timing' = [timing EXCEPT ![f] = m]
                            /\ UNCHANGED <<vio_override, lowlat, pllVars>>
    \/ p = 10 + Fields /\ lowlat' = TRUE /\ UNCHANGED <<vio_override, timing, pllVars>>
    \/ \E i \in 1..Settings : /\ p = PllFrom + 6 * i - 2 /\ Write(i, m)
                              /\ UNCHANGED <<vio_override, timing, lowlat>>
    \/ p = CfgFrom + 2 /\ Set(TRUE) /\ hit' = hit /\ UNCHANGED <<vio_override, timing, lowlat>>
    \/ ~Sets(p) /\ UNCHANGED dataVars

\* The state before write p + 1 of the mode m, in the command of n words of data
\* that begins after from.
Before(p, m, from, cmd, n) ==
    /\ m \in Nat /\ Framed(m, from, cmd, n) /\ p \in from..(from + n + 2)
    /\ PortAt(cmd, p - from) /\ CustomAt(p, m)
    /\ Bus /\ Head(todo) = Program(m)[p + 1] /\ hit \in BOOLEAN

\* And after it.
After(p, m, from, cmd, n) ==
    /\ IF p = from + n + 2 THEN ~vio_has_cmd' ELSE PortAt(cmd, p + 1 - from)'
    /\ CustomAt(p + 1, m)'
    /\ Effect(p, m)

LEMMA NotCarried == ASSUME NEW p, NEW m, ~Carries(p) PROVE CustomAt(p, m)'
  BY Zenon DEF CustomAt, Carries

\* A write that is not data.
LEMMA FrameEffect ==
    ASSUME NEW p, NEW m, NEW from, NEW cmd, NEW n, Before(p, m, from, cmd, n),
           p \in {from, from + 1, from + n + 2}, ~Sets(p), ~Carries(p + 1)
    PROVE  After(p, m, from, cmd, n)
  <1>1. /\ UNCHANGED dataVars
        /\ p = from + n + 2 => ~vio_has_cmd'
        /\ p # from + n + 2 => PortAt(cmd, p + 1 - from)'
    BY FrameWrite, Zenon DEF Before
  <1>2. CustomAt(p + 1, m)'
    BY NotCarried, Zenon
  <1>3. Effect(p, m)
    BY <1>1, Zenon DEF Effect
  <1> QED
    BY <1>1, <1>2, <1>3, Zenon DEF After

\* A write of data, the word v of the mode a.
Takes16(p, from, cmd, n, a, v) ==
    /\ p # from + n + 2 /\ PortAt(cmd, p + 1 - from)' /\ vio_cmd = cmd /\ vio_cnt = p - from - 2
    /\ SetTiming(a, v) \/ SetPll(a, v) \/ SetOverride(v) \/ SetCfg(v)

LEMMA DataEffect ==
    ASSUME NEW p, NEW m, NEW from, NEW cmd, NEW n, Before(p, m, from, cmd, n),
           p \in (from + 2)..(from + n + 1), NEW a, NEW v, Program(m)[p + 1] = W16(a, v)
    PROVE  Takes16(p, from, cmd, n, a, v)
  <1> DEFINE j == p - from
  <1>1. from \in Nat /\ n \in Nat
    BY DEF Before, Framed
  <1>2. j \in Nat /\ j >= 2 /\ j + 1 = p + 1 - from /\ j - 2 = p - from - 2 /\ p # from + n + 2
    BY <1>1
  <1>3. Bus /\ Head(todo) = W16(a, v) /\ PortAt(cmd, j)
    BY Zenon DEF Before
  <1> HIDE DEF j
  <1>4. /\ PortAt(cmd, j + 1)' /\ vio_cmd = cmd /\ vio_cnt = j - 2
        /\ SetTiming(a, v) \/ SetPll(a, v) \/ SetOverride(v) \/ SetCfg(v)
    BY <1>2, <1>3, DataWrite, Zenon
  <1> QED
    BY <1>2, <1>4, Zenon DEF Takes16

LEMMA OverrideEffect ==
    ASSUME NEW p, NEW m, Before(p, m, 0, SET_OVERRIDE, 1)
    PROVE  After(p, m, 0, SET_OVERRIDE, 1)
  <1>1. p \in {0, 1, 2, 3} /\ m \in Nat
    BY DEF Before
  <1>2. CASE p # 2
    <2>1. p \in {0, 0 + 1, 0 + 1 + 2} /\ p \in {0, 1, 3, 4, 5, 7, 8, 9, 11 + Fields}
      BY <1>1, <1>2
    <2> QED
      BY <2>1, EarlyPlaces, FrameEffect, Zenon
  <1>3. CASE p = 2
    <2>1. p \in (0 + 2)..(0 + 1 + 1) /\ p + 1 = 3
      BY <1>3
    <2>2. Program(m)[p + 1] = W16(0, 1)
      BY <1>1, <2>1, OtherWords, Zenon
    <2>3. /\ p # 0 + 1 + 2 /\ PortAt(SET_OVERRIDE, p + 1 - 0)' /\ vio_cmd = SET_OVERRIDE
          /\ SetTiming(0, 1) \/ SetPll(0, 1) \/ SetOverride(1) \/ SetCfg(1)
      <3>1. Takes16(p, 0, SET_OVERRIDE, 1, 0, 1)
        BY <2>1, <2>2, DataEffect, Zenon
      <3> QED
        BY <2>1, <2>2, <3>1, Zenon DEF Takes16
    <2>4. SetOverride(1)
      BY <2>3 DEF SetTiming, SetPll, SetCfg, SET_MODE, SET_PLL, SET_OVERRIDE, SET_CFG
    <2>7. vio_override' = TRUE /\ UNCHANGED <<timing, lowlat, pllVars>>
      BY <2>4, Zenon DEF SetOverride
    <2>5. Effect(p, m)
      BY <1>3, <2>3, <2>7, Zenon DEF Effect
    <2>6. CustomAt(p + 1, m)'
      BY <2>1, MorePlaces, NotCarried, Zenon
    <2> QED
      BY <2>3, <2>5, <2>6, Zenon DEF After
  <1> QED
    BY <1>2, <1>3

LEMMA CfgEffect ==
    ASSUME NEW p, NEW m, NEW from, Before(p, m, from, SET_CFG, 1), from \in {4, CfgFrom}
    PROVE  After(p, m, from, SET_CFG, 1)
  <1> DEFINE Sent16(data) == (from = 4 /\ data = 0) \/ (from = CfgFrom /\ data = 1)
  <1>4. Sent16(0) \/ Sent16(1)
    BY Zenon
  <1> HIDE DEF Sent16
  <1>5. PICK data : Sent16(data)
    BY <1>4, Zenon
  <1>6. (from = 4 /\ data = 0) \/ (from = CfgFrom /\ data = 1)
    BY <1>5 DEF Sent16
  <1>1. p \in {from, from + 1, from + 2, from + 3} /\ m \in Nat /\ from \in Nat
    BY DEF Before, Framed
  <1>2. CASE p # from + 2
    <2>1. p \in {from, from + 1, from + 1 + 2}
      BY <1>1, <1>2
    <2>2. ~Sets(p) /\ ~Carries(p + 1)
      <3>1. CASE from = 4
        <4>1. p \in {0, 1, 3, 4, 5, 7, 8, 9, 11 + Fields}
          BY <2>1, <3>1
        <4> QED
          BY <4>1, EarlyPlaces, Zenon
      <3>2. CASE from = CfgFrom
        <4>1. p \in {CfgFrom, CfgFrom + 1, CfgFrom + 3}
          BY <2>1, <3>2, Sizes
        <4> QED
          BY <4>1, LastPlaces, Zenon
      <3> QED
        BY <1>6, <3>1, <3>2
    <2> QED
      BY <2>1, <2>2, FrameEffect, Zenon
  <1>3. CASE p = from + 2
    <2>1. p \in (from + 2)..(from + 1 + 1) /\ p + 1 = from + 3
      BY <1>1, <1>3
    <2>2. Program(m)[p + 1] = W16(0, data) /\ ~Carries(p + 1)
      <3>1. 4 + 3 = 7
        OBVIOUS
      <3> QED
        BY <1>1, <1>6, <2>1, <3>1, OtherWords, MorePlaces, ZenonT(30)
    <2>3. /\ p # from + 1 + 2 /\ PortAt(SET_CFG, p + 1 - from)' /\ vio_cmd = SET_CFG
          /\ SetTiming(0, data) \/ SetPll(0, data) \/ SetOverride(data) \/ SetCfg(data)
      <3>1. Takes16(p, from, SET_CFG, 1, 0, data)
        BY <2>1, <2>2, DataEffect, Zenon
      <3> QED
        BY <2>1, <2>2, <3>1, Zenon DEF Takes16
    <2>4. Set(data = 1) /\ hit' = (hit /\ data = 1) /\ UNCHANGED <<vio_override, timing, lowlat>>
      BY <2>3 DEF SetTiming, SetPll, SetCfg, SetOverride, SET_MODE, SET_PLL, SET_OVERRIDE, SET_CFG
    <2>5. Effect(p, m)
      <3>1. CASE from = 4 /\ data = 0
        <4>1. p = 6 /\ (data = 1) = FALSE
          BY <1>3, <3>1
        <4>2. hit' = FALSE
          BY <2>4, <4>1, Zenon
        <4> QED
          BY <2>4, <4>1, <4>2, Zenon DEF Effect
      <3>2. CASE from = CfgFrom /\ data = 1
        <4>1. p = CfgFrom + 2 /\ (data = 1) = TRUE
          BY <1>3, <3>2
        <4>2. hit' = hit
          BY <2>4, <4>1, Zenon DEF Before
        <4> QED
          BY <2>4, <4>1, <4>2, Zenon DEF Effect
      <3> QED
        BY <1>6, <3>1, <3>2
    <2>6. CustomAt(p + 1, m)'
      BY <2>2, NotCarried, Zenon
    <2> QED
      BY <2>3, <2>5, <2>6, Zenon DEF After
  <1> QED
    BY <1>2, <1>3

LEMMA TimingEffect ==
    ASSUME NEW p, NEW m, Before(p, m, 8, SET_MODE, Fields + 1)
    PROVE  After(p, m, 8, SET_MODE, Fields + 1)
  <1>1. p \in 8..(11 + Fields) /\ m \in Nat
    BY Sizes DEF Before
  <1>2. CASE p \in {8, 9, 11 + Fields}
    <2>1. p \in {8, 8 + 1, 8 + (Fields + 1) + 2} /\ p \in {0, 1, 3, 4, 5, 7, 8, 9, 11 + Fields}
      BY <1>2, Sizes
    <2> QED
      BY <2>1, EarlyPlaces, FrameEffect, Zenon
  <1>3. ASSUME NEW a, NEW v, Program(m)[p + 1] = W16(a, v), p \in 10..(10 + Fields)
        PROVE  /\ p # 8 + (Fields + 1) + 2 /\ PortAt(SET_MODE, p + 1 - 8)' /\ vio_cnt = p - 10
               /\ SetTiming(a, v) /\ CustomAt(p + 1, m)'
    <2>1. p \in (8 + 2)..(8 + (Fields + 1) + 1) /\ p - 8 - 2 = p - 10
      BY <1>3, Sizes
    <2>2. /\ p # 8 + (Fields + 1) + 2 /\ PortAt(SET_MODE, p + 1 - 8)' /\ vio_cmd = SET_MODE /\ vio_cnt = p - 8 - 2
          /\ SetTiming(a, v) \/ SetPll(a, v) \/ SetOverride(v) \/ SetCfg(v)
      <3>1. Takes16(p, 8, SET_MODE, Fields + 1, a, v)
        BY <1>3, <2>1, DataEffect, Zenon
      <3> QED
        BY <1>3, <2>1, <3>1, Zenon DEF Takes16
    <2>3. SetTiming(a, v)
      BY <2>2 DEF SetPll, SetCfg, SetOverride, SET_MODE, SET_PLL, SET_OVERRIDE, SET_CFG
    <2>4. CustomAt(p + 1, m)'
      BY <1>3, MorePlaces, NotCarried, Zenon
    <2> QED
      BY <2>1, <2>2, <2>3, <2>4, Zenon
  <1>4. CASE p \in 10..(9 + Fields)
    <2> DEFINE f == p - 9
    <2>1. f \in 1..Fields /\ p = 9 + f /\ p + 1 = 10 + f /\ p \in 10..(10 + Fields)
      BY <1>4, Sizes
    <2> HIDE DEF f
    <2>2. Program(m)[p + 1] = W16(m, f)
      BY <1>1, <2>1, OtherWords, Zenon
    <2>3. /\ p # 8 + (Fields + 1) + 2 /\ PortAt(SET_MODE, p + 1 - 8)' /\ vio_cnt = p - 10
          /\ SetTiming(m, f) /\ CustomAt(p + 1, m)'
      BY <1>3, <2>1, <2>2, Zenon
    <2>4. vio_cnt < Fields /\ vio_cnt + 1 = f /\ vio_cnt # Fields
      BY <2>1, <2>3, Sizes
    <2>5. timing' = [timing EXCEPT ![f] = m] /\ lowlat' = lowlat /\ UNCHANGED <<vio_override, pllVars>>
      BY <2>3, <2>4, Zenon DEF SetTiming
    <2>6. Effect(p, m)
      BY <2>1, <2>3, <2>5, Zenon DEF Effect
    <2> QED
      BY <2>3, <2>6, Zenon DEF After
  <1>5. CASE p = 10 + Fields
    <2>1. p + 1 = 11 + Fields /\ p \in 10..(10 + Fields)
      BY <1>5, Sizes
    <2>2. Program(m)[p + 1] = W16(0, 1)
      BY <1>1, <2>1, OtherWords, Zenon
    <2>3. /\ p # 8 + (Fields + 1) + 2 /\ PortAt(SET_MODE, p + 1 - 8)' /\ vio_cnt = p - 10
          /\ SetTiming(0, 1) /\ CustomAt(p + 1, m)'
      BY <1>3, <2>1, <2>2, Zenon
    <2>4. ~(vio_cnt < Fields) /\ vio_cnt = Fields
      BY <1>5, <2>3, Sizes
    <2>5. timing' = timing /\ lowlat' = TRUE /\ UNCHANGED <<vio_override, pllVars>>
      BY <2>3, <2>4, Zenon DEF SetTiming
    <2>6. Effect(p, m)
      BY <1>5, <2>3, <2>5, Zenon DEF Effect
    <2> QED
      BY <2>3, <2>6, Zenon DEF After
  <1>6. p \in {8, 9, 11 + Fields} \/ p \in 10..(9 + Fields) \/ p = 10 + Fields
    BY <1>1, Sizes
  <1> QED
    BY <1>2, <1>4, <1>5, <1>6, Zenon

LEMMA PllEffect ==
    ASSUME NEW p, NEW m, NEW k \in 1..Settings, Before(p, m, PllFrom + 6 * k - 6, SET_PLL, 3)
    PROVE  After(p, m, PllFrom + 6 * k - 6, SET_PLL, 3)
  <1> DEFINE from == PllFrom + 6 * k - 6
  <1>1. /\ from \in Nat /\ k \in Nat \ {0} /\ m \in Nat
        /\ from + 1 = PllFrom + 6 * k - 5 /\ from + 2 = PllFrom + 6 * k - 4 /\ from + 3 = PllFrom + 6 * k - 3
        /\ from + 4 = PllFrom + 6 * k - 2 /\ from + 3 + 2 = PllFrom + 6 * k - 1
    BY Sizes DEF Before
  <1>2. Before(p, m, from, SET_PLL, 3) /\ from = PllFrom + 6 * k - 6
    OBVIOUS
  <1> HIDE DEF from
  <1>3. p \in {from, from + 1, from + 3 + 2} \/ p = from + 2 \/ p = from + 3 \/ p = from + 4
    BY <1>1, <1>2 DEF Before
  <1>4. CASE p \in {from, from + 1, from + 3 + 2}
    <2>1. p \in {PllFrom + 6 * k - 6, PllFrom + 6 * k - 5, PllFrom + 6 * k - 1}
      BY <1>1, <1>2, <1>4, Zenon
    <2>2. ~Sets(p) /\ ~Carries(p + 1)
      BY <2>1, PllPlaces, Zenon
    <2> QED
      BY <1>2, <1>4, <2>2, FrameEffect, Zenon
  <1>5. ASSUME NEW j \in {2, 3, 4}, p = from + j, NEW a, Program(m)[p + 1] = W16(a, k)
        PROVE  /\ p # from + 3 + 2 /\ PortAt(SET_PLL, p + 1 - from)' /\ vio_cnt = j - 2
               /\ SetPll(a, k)
    <2>1. p \in (from + 2)..(from + 3 + 1) /\ p - from - 2 = j - 2
      BY <1>1, <1>5
    <2>2. Takes16(p, from, SET_PLL, 3, a, k)
      BY <1>2, <1>5, <2>1, DataEffect, Zenon
    <2>3. /\ p # from + 3 + 2 /\ PortAt(SET_PLL, p + 1 - from)' /\ vio_cmd = SET_PLL /\ vio_cnt = j - 2
          /\ SetTiming(a, k) \/ SetPll(a, k) \/ SetOverride(k) \/ SetCfg(k)
      BY <2>1, <2>2, Zenon DEF Takes16
    <2>4. SetPll(a, k)
      BY <2>3 DEF SetTiming, SetCfg, SetOverride, SET_MODE, SET_PLL, SET_OVERRIDE, SET_CFG
    <2> QED
      BY <2>3, <2>4, Zenon
  <1>6. /\ Program(m)[PllFrom + 6 * k - 3] = W16(0, k) /\ Program(m)[PllFrom + 6 * k - 2] = W16(m, k)
        /\ Program(m)[PllFrom + 6 * k - 1] = W16(m, k)
    BY <1>1, PllWords, Zenon
  <1>7. CASE p = from + 2
    <2>1. p + 1 = PllFrom + 6 * k - 3 /\ p = PllFrom + 6 * k - 4 /\ 2 \in {2, 3, 4} /\ 2 - 2 = 0 /\ 0 # 2
      BY <1>1, <1>7
    <2>2. /\ p # from + 3 + 2 /\ PortAt(SET_PLL, p + 1 - from)' /\ vio_cnt = 0
          /\ SetPll(0, k)
      BY <1>5, <1>6, <1>7, <2>1, Zenon
    <2>3. custom'.addr = k /\ UNCHANGED dataVars
      BY <2>2 DEF SetPll, dataVars
    <2>4. ~Sets(p) /\ \A i \in 1..Settings : /\ i # k => p + 1 \notin {PllFrom + 6 * i - 3, PllFrom + 6 * i - 2}
                                             /\ p + 1 # PllFrom + 6 * i - 2
      BY <2>1, PllPlaces, Zenon
    <2>5. CustomAt(p + 1, m)'
      BY <2>3, <2>4, Zenon DEF CustomAt
    <2>6. Effect(p, m)
      BY <2>2, <2>3, <2>4, Zenon DEF Effect
    <2> QED
      BY <1>2, <2>2, <2>5, <2>6, Zenon DEF After
  <1>8. CASE p = from + 3
    <2>1. p + 1 = PllFrom + 6 * k - 2 /\ p = PllFrom + 6 * k - 3 /\ 3 \in {2, 3, 4} /\ 3 - 2 = 1
      BY <1>1, <1>8
    <2>2. /\ p # from + 3 + 2 /\ PortAt(SET_PLL, p + 1 - from)' /\ vio_cnt = 1
          /\ SetPll(m, k)
      BY <1>5, <1>6, <1>8, <2>1, Zenon
    <2>3. custom'.addr = custom.addr /\ custom'.lo = m /\ UNCHANGED dataVars
      BY <2>2 DEF SetPll, dataVars
    <2>4. ~Sets(p) /\ \A i \in 1..Settings : i # k => p + 1 \notin {PllFrom + 6 * i - 3, PllFrom + 6 * i - 2}
      BY <2>1, PllPlaces, Zenon
    <2>5. custom.addr = k
      BY <1>2, <2>1, Zenon DEF Before, CustomAt
    <2>7. CustomAt(p + 1, m)'
      BY <2>3, <2>4, <2>5, Zenon DEF CustomAt
    <2>6. Effect(p, m)
      BY <2>2, <2>3, <2>4, Zenon DEF Effect
    <2> QED
      BY <1>2, <2>2, <2>6, <2>7, Zenon DEF After
  <1>9. CASE p = from + 4
    <2>1. p + 1 = PllFrom + 6 * k - 1 /\ p = PllFrom + 6 * k - 2 /\ 4 \in {2, 3, 4} /\ 4 - 2 = 2
      BY <1>1, <1>9
    <2>2. /\ p # from + 3 + 2 /\ PortAt(SET_PLL, p + 1 - from)' /\ vio_cnt = 2
          /\ SetPll(m, k)
      BY <1>5, <1>6, <1>9, <2>1, Zenon
    <2>3. custom.addr = k /\ custom.lo = m
      BY <1>2, <2>1, Zenon DEF Before, CustomAt
    <2>4. Write(k, Mix(m, m)) /\ UNCHANGED <<vio_override, timing, lowlat>>
      BY <2>2, <2>3, Zenon DEF SetPll
    <2>5. Mix(m, m) = m
      BY DEF Mix
    <2>6. Effect(p, m)
      BY <2>1, <2>2, <2>4, <2>5, Zenon DEF Effect
    <2>7. CustomAt(p + 1, m)'
      <3>1. ~Carries(p + 1)
        BY <2>1, PllPlaces, Zenon
      <3> QED
        BY <3>1, NotCarried, Zenon
    <2> QED
      BY <1>2, <2>2, <2>6, <2>7, Zenon DEF After
  <1> QED
    BY <1>2, <1>3, <1>4, <1>7, <1>8, <1>9, Zenon

\* A write of hdmi_set_mode.
LEMMA BusStep ==
    ASSUME VioType, PortInv, call = "hdmi", NEW m \in Nat, mode = m, MainBus
    PROVE  /\ Done \in 0..(Total - 1) /\ Done' = Done + 1 /\ todo' \in Seq(AnyWord)
           /\ PortInv' /\ Effect(Done, m)
  <1>15. PICK p : p = Done
    OBVIOUS
  <1>1. Bus /\ call' = "hdmi" /\ mode' = m /\ hit \in BOOLEAN
    BY DEF MainBus, Alone, mainVars, VioType
  <1>2. todo # <<>> /\ todo' = Tail(todo)
    BY <1>1, BusIs, Zenon
  <1>3. /\ p \in 0..(Total - 1) /\ Done' = p + 1 /\ Head(todo) = Program(m)[p + 1]
        /\ todo' \in Seq(AnyWord) /\ Len(todo') <= Total
        /\ \A i \in 1..Len(todo') : todo'[i] = Program(m)[Done' + i]
    BY <1>1, <1>2, <1>15, NextWrite, Zenon
  <1>4. p # Total /\ PlaceAt(p) /\ CustomAt(p, m)
    <2>1. PlaceAt(Done) /\ CustomAt(Done, mode)
      BY DEF PortInv
    <2> QED
      BY <1>3, <1>15, <2>1, Sizes
  <1>5. PICK g \in Commands : p \in g.from..(g.from + g.n + 2) /\ PortAt(g.cmd, p - g.from)
    BY <1>4, Zenon DEF PlaceAt
  <1>6. Framed(m, g.from, g.cmd, g.n) /\ (g.from + g.n + 3 = Total \/ \E h \in Commands : h.from = g.from + g.n + 3)
    BY CommandWords, Zenon
  <1>7. Before(p, m, g.from, g.cmd, g.n)
    BY <1>1, <1>3, <1>4, <1>5, <1>6, Zenon DEF Before
  <1>8. After(p, m, g.from, g.cmd, g.n)
    <2>1. g.from = 0 /\ g.cmd = SET_OVERRIDE /\ g.n = 1 => After(p, m, g.from, g.cmd, g.n)
      BY <1>7, OverrideEffect, Zenon
    <2>2. g.from \in {4, CfgFrom} /\ g.cmd = SET_CFG /\ g.n = 1 => After(p, m, g.from, g.cmd, g.n)
      BY <1>7, CfgEffect, Zenon
    <2>3. g.from = 8 /\ g.cmd = SET_MODE /\ g.n = Fields + 1 => After(p, m, g.from, g.cmd, g.n)
      BY <1>7, TimingEffect, Zenon
    <2>4. ASSUME NEW i \in 1..Settings, g.from = PllFrom + 6 * i - 6, g.cmd = SET_PLL, g.n = 3
          PROVE  After(p, m, g.from, g.cmd, g.n)
      BY <1>7, <2>4, PllEffect, Zenon
    <2> QED
      BY <2>1, <2>2, <2>3, <2>4, Kinds, Zenon
  <1>9. g.from \in Nat /\ g.n \in Nat \ {0}
    BY <1>6, Zenon DEF Framed
  <1>14. p \in Nat
    BY <1>3, Sizes
  <1>10. PlaceAt(p + 1)'
    <2>1. CASE p = g.from + g.n + 2
      <3>1. ~vio_has_cmd'
        BY <1>8, <2>1, Zenon DEF After
      <3>4. p + 1 = g.from + g.n + 3
        BY <1>9, <2>1
      <3>2. CASE p + 1 = Total
        BY <3>1, <3>2, Zenon DEF PlaceAt
      <3>3. CASE p + 1 # Total
        <4>1. PICK h \in Commands : h.from = p + 1
          BY <1>6, <3>4, <3>3, Zenon
        <4>2. h.from \in Nat /\ h.n \in Nat \ {0}
          <5>1. Framed(m, h.from, h.cmd, h.n)
            BY CommandWords, Zenon
          <5> QED
            BY <5>1, Zenon DEF Framed
        <4>3. p + 1 \in h.from..(h.from + h.n + 2) /\ ~(p + 1 - h.from >= 2)
          BY <1>14, <4>1, <4>2
        <4>4. PICK q : q = p + 1
          OBVIOUS
        <4>5. q \in h.from..(h.from + h.n + 2) /\ ~(q - h.from >= 2)
          BY <1>14, <4>2, <4>3, <4>4
        <4>6. PlaceAt(q)'
          BY <3>1, <4>5 DEF PlaceAt, PortAt
        <4> QED
          BY <4>4, <4>6, Zenon DEF PlaceAt, PortAt
      <3> QED
        BY <3>2, <3>3
    <2>2. CASE p # g.from + g.n + 2
      <3>1. p + 1 \in g.from..(g.from + g.n + 2)
        BY <1>5, <1>9, <2>2
      <3>2. PortAt(g.cmd, p + 1 - g.from)'
        BY <1>8, <2>2, Zenon DEF After
      <3>3. PICK q : q = p + 1
        OBVIOUS
      <3>4. q \in g.from..(g.from + g.n + 2) /\ PortAt(g.cmd, q - g.from)'
        BY <3>1, <3>2, <3>3, <1>9, <1>14 DEF PortAt
      <3>5. PlaceAt(q)'
        BY <3>4 DEF PlaceAt, PortAt
      <3> QED
        BY <3>3, <3>5, Zenon DEF PlaceAt, PortAt
    <2> QED
      BY <2>1, <2>2
  <1>11. CustomAt(p + 1, m)' /\ Effect(p, m)
    BY <1>8, Zenon DEF After
  <1>12. PlaceAt(Done)' /\ CustomAt(Done, mode)'
    BY <1>1, <1>3, <1>10, <1>11, <1>15, Zenon DEF PlaceAt, CustomAt
  <1>13. PortInv'
    BY <1>1, <1>3, <1>12, Zenon DEF PortInv
  <1> QED
    BY <1>3, <1>11, <1>13, <1>15, Zenon

----------------------------------------------------------------------------
(* The core and the adjuster. *)

LEMMA Numbers ==
    /\ Settings \in Nat /\ Settings > 2 /\ Values = 2..Settings
    /\ M = 2 /\ K = Settings /\ MODE = 1 /\ START = Settings + 1
    /\ M \in Values /\ K \in Values /\ M # K /\ START \notin Values
    /\ Modes \in Nat /\ 0 \in 0..Modes
  BY VioAssumption, HdmiAssumption DEF M, K, START, MODE, Values

PllType == settings \in [Values -> Int] /\ adj \in AnyAdj

\* A write to the core: settings of one mode stay so if it is of that mode, or a start.
LEMMA CoreWriteIs ==
    ASSUME PllType, NEW i, NEW v \in Int, CoreWrite(i, v)
    PROVE  /\ settings' \in [Values -> Int]
           /\ i # START => running' = running
           /\ i # START /\ i \notin Values => settings' = settings
           /\ i \in Values /\ ~Waits => settings' = [settings EXCEPT ![i] = v]
           /\ \A k \in Nat : Held(k) /\ (i \in Values => v = k)
                  => Held(k)' /\ (running' # running => Whole(running', k))
  <1> DEFINE starts == i = START /\ StartsHere(hdmi_core, hdmi_locked, settings # Unchanged)
  <1>1. /\ settings' = IF starts THEN Unchanged
                       ELSE IF i \in Values /\ ~Waits THEN [settings EXCEPT ![i] = v] ELSE settings
        /\ running' = IF ~starts THEN running
                      ELSE [j \in Values |-> IF settings[j] = Unwritten THEN running[j] ELSE settings[j]]
    BY Zenon DEF CoreWrite
  <1>2. settings \in [Values -> Int] /\ Unwritten \in Int /\ \A k \in Nat : Unwritten # k
    BY DEF PllType, Unwritten
  <1>3. starts => i = START
    OBVIOUS
  <1> HIDE DEF starts
  <1>4. CASE starts
    <2>1. settings' = [j \in Values |-> Unwritten] /\ i \notin Values
      BY <1>1, <1>3, <1>4, Numbers DEF Unchanged
    <2>2. ASSUME NEW k \in Nat, Held(k) PROVE Held(k)' /\ Whole(running', k)
      <3>1. ASSUME NEW j \in Values PROVE running'[j] = k
        <4>1. settings[j] \in {k, Unwritten} /\ (settings[j] # k => running[j] = k)
          BY <2>2, <3>1 DEF Held, Whole
        <4>2. running'[j] = IF settings[j] = Unwritten THEN running[j] ELSE settings[j]
          BY <1>1, <1>4, <3>1
        <4> QED
          BY <1>2, <4>1, <4>2
      <3>2. \A j \in Values : settings'[j] = Unwritten
        BY <2>1
      <3> QED
        BY <3>1, <3>2 DEF Held, Whole
    <2> QED
      BY <1>2, <1>3, <1>4, <2>1, <2>2
  <1>5. CASE ~starts
    <2>1. running' = running /\ settings' \in [Values -> Int]
      BY <1>1, <1>2, <1>5
    <2>2. ASSUME NEW k \in Nat, Held(k), i \in Values => v = k PROVE Held(k)'
      <3>1. ASSUME NEW j \in Values PROVE settings'[j] = settings[j] \/ settings'[j] = k
        BY <1>1, <1>2, <1>5, <2>2, <3>1
      <3> QED
        BY <2>1, <2>2, <3>1 DEF Held, Whole
    <2>3. /\ i # START /\ i \notin Values => settings' = settings
          /\ i \in Values /\ ~Waits => settings' = [settings EXCEPT ![i] = v]
      BY <1>1, <1>5, Zenon
    <2> QED
      BY <2>1, <2>2, <2>3, Zenon
  <1> QED
    BY <1>4, <1>5, Zenon

LEMMA AdjNextIs ==
    ASSUME adj \in AnyAdj, adj.st # "idle"
    PROVE  /\ AdjNext \in AnyAdj /\ AdjNext.m = adj.m /\ AdjNext.k = adj.k
           /\ AdjNext.st \in {"M", "K"} => AdjNext.data = adj.k
  <1>1. adj.st = "M" => AdjNext = [adj EXCEPT !.st = "K", !.data = adj.k]
    BY DEF AdjNext
  <1>2. adj.st = "K" => AdjNext = [adj EXCEPT !.st = "start", !.data = 0]
    BY DEF AdjNext
  <1>3. adj.st = "start" => AdjNext = [adj EXCEPT !.st = "idle"]
    BY DEF AdjNext
  <1>4. adj.st \in {"M", "K", "start"}
    BY DEF AnyAdj
  <1>5. CASE adj.st = "M"
    BY <1>1, <1>5, Zenon DEF AnyAdj
  <1>6. CASE adj.st = "K"
    <2>1. 0 \in Int
      OBVIOUS
    <2> QED
      BY <1>2, <1>6, <2>1, Zenon DEF AnyAdj
  <1>7. CASE adj.st = "start"
    BY <1>3, <1>7 DEF AnyAdj
  <1> QED
    BY <1>4, <1>5, <1>6, <1>7

LEMMA PulseIs ==
    ASSUME PllType, NEW i, NEW v \in Int, Pulse(i, v)
    PROVE  /\ CoreWrite(i, v) /\ PllType'
           /\ i \notin {M, K} => \A k : Tuned(k) => Tuned(k)'
           /\ adj.st = "idle" => /\ adj'.st = "idle"
                                 /\ adj'.m = IF i = M THEN v ELSE adj.m
                                 /\ adj'.k = IF i = K THEN v ELSE adj.k
  <1>1. CoreWrite(i, v)
    BY DEF Pulse
  <1>2. PICK a : /\ a = adj \/ (adj.st # "idle" /\ a = AdjNext)
                 /\ adj' = [a EXCEPT !.m = IF i = M THEN v ELSE @, !.k = IF i = K THEN v ELSE @,
                                     !.modo = @ \/ i \in {M, K}]
    BY Zenon DEF Pulse
  <1>3. adj \in AnyAdj
    BY DEF PllType
  <1>4. /\ a \in AnyAdj /\ a.m = adj.m /\ a.k = adj.k /\ (a.st \in {"M", "K"} => a = adj \/ a.data = adj.k)
    BY <1>2, <1>3, AdjNextIs, Zenon
  <1>5. adj' \in AnyAdj
    BY <1>2, <1>4, Zenon DEF AnyAdj
  <1>6. /\ adj'.st = a.st /\ adj'.data = a.data
        /\ adj'.m = IF i = M THEN v ELSE a.m
        /\ adj'.k = IF i = K THEN v ELSE a.k
    BY <1>2, <1>4 DEF AnyAdj
  <1>7. ASSUME NEW k, i \notin {M, K}, Tuned(k) PROVE Tuned(k)'
    BY <1>4, <1>6, <1>7, Zenon DEF Tuned
  <1>8. settings' \in [Values -> Int]
    BY <1>1, CoreWriteIs, Zenon
  <1>9. adj.st = "idle" => a = adj
    BY <1>2
  <1> QED
    BY <1>1, <1>4, <1>5, <1>6, <1>7, <1>8, <1>9, Zenon DEF PllType

\* What is of one mode stays so, and is what a reconfiguration starts with.
Keeps == \A k \in Nat : Settled(k) => Settled(k)' /\ (running' # running => Whole(running', k))

LEMMA StartIs ==
    ASSUME PllType, Pulse(START, 0), timing' = timing
    PROVE  PllType' /\ Keeps
  <1>1. 0 \in Int /\ START \notin Values /\ START \notin {M, K}
    BY Numbers
  <1>2. CoreWrite(START, 0) /\ PllType' /\ \A k : Tuned(k) => Tuned(k)'
    BY <1>1, PulseIs, Zenon
  <1>3. ASSUME NEW k \in Nat, Held(k) PROVE Held(k)' /\ (running' # running => Whole(running', k))
    BY <1>1, <1>2, <1>3, CoreWriteIs, Zenon
  <1>4. \A k : Timed(k) => Timed(k)'
    BY DEF Timed
  <1> QED
    BY <1>2, <1>3, <1>4, Zenon DEF Keeps, Settled

LEMMA RiseIs ==
    ASSUME PllType, NEW got \in BOOLEAN, Rise(got), timing' = timing
    PROVE  /\ cfg_got' = got /\ PllType' /\ Keeps
           /\ ~got => settings' = settings /\ adj' = adj /\ running' = running
  <1>1. CASE got /\ ~cfg_got
    <2>1. Pulse(START, 0) /\ cfg_got' = got
      BY <1>1, Zenon DEF Rise
    <2> QED
      BY <1>1, <2>1, StartIs, Zenon
  <1>2. CASE ~(got /\ ~cfg_got)
    <2>1. cfg_got' = got /\ settings' = settings /\ running' = running /\ adj' = adj
      BY <1>2 DEF Rise, coreVars
    <2>2. PllType' /\ Keeps
      BY <2>1 DEF PllType, Keeps, Settled, Timed, Held, Whole, Tuned
    <2> QED
      BY <2>1, <2>2
  <1> QED
    BY <1>1, <1>2

LEMMA SetIs ==
    ASSUME PllType, cfg_got \in BOOLEAN, NEW set \in BOOLEAN, Set(set), timing' = timing
    PROVE  /\ cfg_set' = set /\ cfg_got' \in BOOLEAN /\ PllType' /\ Keeps
           /\ ~set => ~cfg_got' /\ settings' = settings /\ adj' = adj /\ running' = running
  <1>1. cfg_set' = set /\ Rise(Got(set))
    BY Zenon DEF Set
  <1>2. Got(set) \in BOOLEAN /\ (~set => ~Got(set))
    BY DEF Got
  <1> QED
    BY <1>1, <1>2, RiseIs, Zenon

\* A setting that nothing hinders is in the core, and the others stay.
LEMMA WriteIs ==
    ASSUME PllType, NEW i \in 1..Settings, NEW v \in Int, Write(i, v)
    PROVE  /\ UNCHANGED <<cfg_set, cfg_got>> /\ running' = running /\ PllType' /\ hit' \in BOOLEAN
           /\ ~hit' /\ ~cfg_got =>
                  /\ ~hit /\ adj'.st = "idle"
                  /\ i \in Values => Written(i, v)'
                  /\ \A j \in Values \ {i} : \A k : Written(j, k) => Written(j, k)'
  <1>1. UNCHANGED <<cfg_set, cfg_got>> /\ hit' = (hit \/ Waits \/ adj.st # "idle")
    BY DEF Write
  <1>2. hit' \in BOOLEAN
    BY <1>1, Zenon
  <1>3. CASE cfg_got
    BY <1>1, <1>2, <1>3 DEF Write, coreVars, PllType
  <1>4. CASE ~cfg_got
    <2>1. Pulse(i, v) /\ i # START
      BY <1>4, Numbers DEF Write
    <2>2. /\ CoreWrite(i, v) /\ PllType'
          /\ adj.st = "idle" => /\ adj'.st = "idle"
                                /\ adj'.m = IF i = M THEN v ELSE adj.m
                                /\ adj'.k = IF i = K THEN v ELSE adj.k
      BY <2>1, PulseIs, Zenon
    <2>3. /\ running' = running
          /\ i \notin Values => settings' = settings
          /\ i \in Values /\ ~Waits => settings' = [settings EXCEPT ![i] = v]
      BY <2>1, <2>2, CoreWriteIs, Zenon
    <2>4. settings \in [Values -> Int]
      BY DEF PllType
    <2>7. ~hit' => ~hit /\ ~Waits /\ adj.st = "idle"
      BY <1>1, Zenon
    <2>5. ASSUME ~hit', i \in Values PROVE Written(i, v)'
      <3>1. settings' = [settings EXCEPT ![i] = v]
        BY <2>3, <2>5, <2>7, Zenon
      <3>2. settings'[i] = v
        BY <2>4, <2>5, <3>1, Zenon
      <3> QED
        BY <2>2, <2>5, <2>7, <3>2, Zenon DEF Written
    <2>6. ASSUME ~hit', NEW j \in Values \ {i}, NEW k, Written(j, k) PROVE Written(j, k)'
      <3>1. settings'[j] = settings[j]
        <4>1. CASE i \in Values
          <5>1. settings' = [settings EXCEPT ![i] = v]
            BY <2>3, <2>6, <2>7, <4>1, Zenon
          <5> QED
            BY <2>4, <5>1
        <4>2. CASE i \notin Values
          BY <2>3, <4>2
        <4> QED
          BY <4>1, <4>2
      <3>2. (j = M => adj'.m = adj.m) /\ (j = K => adj'.k = adj.k)
        <4>1. j # i
          OBVIOUS
        <4>2. (i # M => adj'.m = adj.m) /\ (i # K => adj'.k = adj.k)
          BY <2>2, <2>6, <2>7, Zenon
        <4> QED
          BY <4>1, <4>2, Zenon
      <3> QED
        BY <2>6, <3>1, <3>2 DEF Written
    <2> QED
      BY <1>1, <1>2, <2>2, <2>3, <2>5, <2>6, <2>7, Zenon
  <1> QED
    BY <1>3, <1>4

----------------------------------------------------------------------------
(* The writes of hdmi_set_mode. *)

TimeAlone == timing' = timing /\ lowlat' = lowlat /\ vio_override' = vio_override
PllAlone == UNCHANGED <<cfg_set, cfg_got, settings, running, adj>>

LEMMA AloneKeeps ==
    ASSUME timing' = timing, PllAlone
    PROVE  /\ Keeps /\ \A k : Settled(k) => Settled(k)'
           /\ \A i, k : Written(i, k) => Written(i, k)'
           /\ PllType => PllType'
  <1>1. settings' = settings /\ running' = running /\ adj' = adj
    BY DEF PllAlone
  <1>2. /\ \A k : Settled(k) => Settled(k)'
        /\ \A i, k : Written(i, k) => Written(i, k)'
    BY <1>1, Zenon DEF Settled, Timed, Held, Whole, Tuned, Written
  <1>3. PllType => PllType'
    BY <1>1 DEF PllType
  <1> QED
    BY <1>1, <1>2, <1>3, Zenon DEF Keeps

LEMMA FoundKept ==
    ASSUME NEW p, NEW m \in Nat, Found(p, m), TimeAlone,
           hit' \/ (~hit /\ (PllAlone \/ (p \notin 7..(CfgFrom + 2) /\ Keeps)))
    PROVE  Found(p, m)'
  <1>1. /\ p \in Nat /\ (p >= 3 => vio_override')
        /\ \A f \in 1..Fields : p >= 10 + f => timing'[f] = m
        /\ p >= 11 + Fields => lowlat'
    BY Zenon DEF Found, TimeAlone
  <1>2. CASE hit'
    BY <1>1, <1>2, Zenon DEF Found, CfgFrom, PllFrom
  <1>3. CASE ~hit /\ PllAlone
    <2>1. /\ \A k : Settled(k) => Settled(k)'
          /\ \A i, k : Written(i, k) => Written(i, k)'
      BY <1>3, AloneKeeps, Zenon DEF TimeAlone
    <2>2. cfg_set' = cfg_set /\ cfg_got' = cfg_got /\ adj' = adj
      BY <1>3 DEF PllAlone
    <2> QED
      BY <1>1, <1>3, <2>1, <2>2, Zenon DEF Found, CfgFrom, PllFrom
  <1>4. CASE ~hit /\ p \notin 7..(CfgFrom + 2) /\ Keeps
    BY <1>1, <1>4, Zenon DEF Found, CfgFrom, PllFrom, Keeps
  <1> QED
    BY <1>2, <1>3, <1>4, Zenon

\* A write that sets nothing.
LEMMA Later ==
    ASSUME NEW p \in Nat, NEW m, Found(p, m), ~Sets(p)
    PROVE  Found(p + 1, m)
  <1>1. /\ p # 2 /\ p # 6 /\ p # 10 + Fields /\ p # CfgFrom + 2 /\ p \notin 10..(9 + Fields)
        /\ \A i \in 1..Settings : p # PllFrom + 6 * i - 2
    BY Zenon DEF Sets
  <1>2. /\ p + 1 \in Nat /\ (p + 1 >= 3 => p >= 3) /\ (p + 1 >= 11 + Fields => p >= 11 + Fields)
        /\ p + 1 \in 7..(CfgFrom + 2) => p \in 7..(CfgFrom + 2)
        /\ p + 1 >= CfgFrom + 3 => p >= CfgFrom + 3
    BY <1>1, Sizes
  <1>3. \A f \in 1..Fields : p + 1 >= 10 + f => p >= 10 + f
    BY <1>1, Sizes
  <1>4. \A i \in Values : p + 1 >= PllFrom + 6 * i - 1 => p >= PllFrom + 6 * i - 1
    BY <1>1, Sizes, Numbers
  <1>5. p + 1 >= PllFrom + 5 => p >= PllFrom + 5
    <2>1. p # PllFrom + 6 * 1 - 2 /\ PllFrom \in Nat
      BY <1>1, Sizes
    <2> QED
      BY <2>1
  <1> QED
    BY <1>2, <1>3, <1>4, <1>5, Zenon DEF Found

\* A write before the settings, which leaves the PLL alone.
LEMMA FoundEarly ==
    ASSUME NEW p \in 9..(10 + Fields), NEW m \in Nat, Found(p, m), vio_override' = vio_override,
           PllAlone, hit' = hit, \A f \in 1..Fields : p + 1 >= 10 + f => timing'[f] = m,
           p = 10 + Fields => lowlat'
    PROVE  Found(p + 1, m)'
  <1>1. p >= 3 /\ p \in 7..(CfgFrom + 2)
    BY Sizes
  <1>2. vio_override' /\ (~hit' => ~cfg_set' /\ ~cfg_got')
    BY <1>1 DEF Found, PllAlone
  <1>3. /\ p + 1 \in Nat /\ ~(p + 1 >= CfgFrom + 3) /\ ~(p + 1 >= PllFrom + 5)
        /\ p + 1 >= 11 + Fields => p = 10 + Fields
    BY Sizes
  <1>4. \A i \in Values : ~(p + 1 >= PllFrom + 6 * i - 1)
    BY Sizes, Numbers
  <1>5. PICK q : q = p + 1
    OBVIOUS
  <1>6. Found(q, m)'
    BY <1>2, <1>3, <1>4, <1>5, Zenon DEF Found
  <1> QED
    BY <1>5, <1>6, Zenon

\* With all its settings written, what the core and the adjuster hold is of mode m.
LEMMA AllWritten ==
    ASSUME NEW m \in Nat, Found(CfgFrom + 2, m), ~hit
    PROVE  Settled(m) /\ ~cfg_got
  <1>1. /\ CfgFrom + 2 \in 7..(CfgFrom + 2) /\ CfgFrom + 2 >= PllFrom + 5
        /\ \A f \in 1..Fields : CfgFrom + 2 >= 10 + f
    BY Sizes, Numbers
  <1>2. \A i \in Values : CfgFrom + 2 >= PllFrom + 6 * i - 1
    BY Sizes, Numbers
  <1>3. ~cfg_got /\ adj.st = "idle" /\ (\A i \in Values : Written(i, m)) /\ \A f \in 1..Fields : timing[f] = m
    BY <1>1, <1>2, Zenon DEF Found
  <1>4. adj.m = m /\ adj.k = m /\ \A i \in Values : settings[i] = m
    BY <1>3, Numbers, Zenon DEF Written
  <1>5. adj.st \notin {"M", "K"}
    BY <1>3
  <1> QED
    BY <1>3, <1>4, <1>5, Zenon DEF Settled, Timed, Held, Whole, Tuned

\* A write sets what it is there to set, and leaves the rest.
LEMMA EffectFound ==
    ASSUME NEW p \in Nat, NEW m \in Nat, VioType, Found(p, m), Effect(p, m)
    PROVE  Found(p + 1, m)' /\ (running' # running => hit' \/ (Whole(running', m) /\ Timed(m)))
  <1>1. /\ cfg_got \in BOOLEAN /\ timing \in [1..Fields -> Nat] /\ PllType /\ FALSE \in BOOLEAN /\ TRUE \in BOOLEAN
    BY DEF VioType, PllType
  <1>9. pllVars' = pllVars => PllAlone /\ hit' = hit /\ running' = running
    BY DEF pllVars, coreVars, PllAlone
  <1>2. CASE p = 2 /\ vio_override' = TRUE /\ UNCHANGED <<timing, lowlat, pllVars>>
    <2>1. /\ p + 1 \in Nat /\ ~(p + 1 >= 11 + Fields) /\ ~(p + 1 \in 7..(CfgFrom + 2))
          /\ ~(p + 1 >= CfgFrom + 3) /\ \A f \in 1..Fields : ~(p + 1 >= 10 + f)
      BY <1>2, Sizes
    <2>2. PICK q : q = p + 1
      OBVIOUS
    <2>3. Found(q, m)'
      BY <1>2, <2>1, <2>2, Zenon DEF Found, CfgFrom, PllFrom
    <2> QED
      BY <1>2, <1>9, <2>2, <2>3, Zenon
  <1>3. CASE p = 6 /\ Set(FALSE) /\ hit' = FALSE /\ UNCHANGED <<vio_override, timing, lowlat>>
    <2>1. ~cfg_set' /\ ~cfg_got' /\ running' = running
      BY <1>1, <1>3, SetIs, Zenon
    <2>2. /\ p + 1 \in Nat /\ ~(p + 1 >= 11 + Fields) /\ p >= 3 /\ ~(p + 1 >= PllFrom + 5)
          /\ ~(p + 1 >= CfgFrom + 3) /\ \A f \in 1..Fields : ~(p + 1 >= 10 + f)
      BY <1>3, Sizes
    <2>3. \A i \in Values : ~(p + 1 >= PllFrom + 6 * i - 1)
      BY <1>3, Sizes, Numbers
    <2>4. vio_override'
      BY <1>3, <2>2 DEF Found
    <2>5. PICK q : q = p + 1
      OBVIOUS
    <2>6. Found(q, m)'
      BY <2>1, <2>2, <2>3, <2>4, <2>5, Zenon DEF Found
    <2> QED
      BY <2>1, <2>5, <2>6, Zenon
  <1>4. ASSUME NEW f \in 1..Fields, p = 9 + f, timing' = [timing EXCEPT ![f] = m],
               UNCHANGED <<vio_override, lowlat, pllVars>>
        PROVE  Found(p + 1, m)' /\ running' = running
    <2>1. \A g \in 1..Fields : p + 1 >= 10 + g => timing'[g] = m
      <3>1. \A g \in 1..Fields : p >= 10 + g => timing[g] = m
        BY ZenonT(30) DEF Found
      <3> QED
        BY <1>1, <1>4, <3>1, Sizes
    <2>2. p \in 9..(10 + Fields) /\ p # 10 + Fields
      BY <1>4, Sizes
    <2> QED
      BY <1>4, <1>9, <2>1, <2>2, FoundEarly, Zenon
  <1>5. CASE p = 10 + Fields /\ lowlat' = TRUE /\ UNCHANGED <<vio_override, timing, pllVars>>
    <2>1. \A g \in 1..Fields : p + 1 >= 10 + g => timing'[g] = m
      <3>1. \A g \in 1..Fields : p >= 10 + g
        BY <1>5, Sizes
      <3> QED
        BY <1>5, <3>1, Zenon DEF Found
    <2>2. p \in 9..(10 + Fields)
      BY <1>5, Sizes
    <2> QED
      BY <1>5, <1>9, <2>1, <2>2, FoundEarly, Zenon
  <1>6. ASSUME NEW k \in 1..Settings, p = PllFrom + 6 * k - 2, Write(k, m),
               UNCHANGED <<vio_override, timing, lowlat>>
        PROVE  Found(p + 1, m)' /\ running' = running
    <2>1. /\ p \in 7..(CfgFrom + 2) /\ p >= 11 + Fields /\ p + 1 \in Nat /\ p >= 3
          /\ ~(p + 1 >= CfgFrom + 3) /\ \A g \in 1..Fields : p >= 10 + g
      BY <1>6, Sizes
    <2>2. ~hit => ~cfg_set /\ ~cfg_got
      BY <2>1, Zenon DEF Found
    <2>3. /\ UNCHANGED <<cfg_set, cfg_got>> /\ running' = running
          /\ ~hit' /\ ~cfg_got =>
                 /\ ~hit /\ adj'.st = "idle"
                 /\ k \in Values => Written(k, m)'
                 /\ \A j \in Values \ {k} : \A n : Written(j, n) => Written(j, n)'
      <3>1. m \in Int
        OBVIOUS
      <3> QED
        BY <1>1, <1>6, <3>1, WriteIs, Zenon
    <2>7. ~hit' => ~hit
      BY <1>6, Zenon DEF Write
    <2>4. ASSUME NEW i \in Values, ~hit', p + 1 >= PllFrom + 6 * i - 1 PROVE Written(i, m)'
      <3>1. i = k \/ p >= PllFrom + 6 * i - 1
        BY <1>6, <2>4, Sizes, Numbers
      <3>2. ~hit /\ ~cfg_got
        BY <2>2, <2>4, <2>7, Zenon
      <3>3. CASE i = k
        BY <2>3, <2>4, <3>2, <3>3, Zenon
      <3>4. CASE i # k
        <4>1. Written(i, m) /\ i \in Values \ {k}
          BY <2>1, <3>1, <3>2, <3>4, Zenon DEF Found
        <4> QED
          BY <2>3, <2>4, <3>2, <4>1, Zenon
      <3> QED
        BY <3>3, <3>4
    <2>5. /\ vio_override' /\ lowlat' /\ (~hit' => ~cfg_set' /\ ~cfg_got' /\ adj'.st = "idle")
          /\ \A g \in 1..Fields : timing'[g] = m
      <3>1. vio_override' /\ lowlat' /\ \A g \in 1..Fields : timing'[g] = m
        BY <1>6, <2>1 DEF Found
      <3>2. ~hit' => ~cfg_set' /\ ~cfg_got' /\ adj'.st = "idle"
        BY <2>2, <2>3, <2>7
      <3> QED
        BY <3>1, <3>2
    <2>6. PICK q : q = p + 1
      OBVIOUS
    <2>8. Found(q, m)'
      BY <2>1, <2>4, <2>5, <2>6, Zenon DEF Found
    <2> QED
      BY <2>3, <2>6, <2>8, Zenon
  <1>7. CASE p = CfgFrom + 2 /\ Set(TRUE) /\ hit' = hit /\ UNCHANGED <<vio_override, timing, lowlat>>
    <2>1. /\ p + 1 \in Nat /\ p + 1 \notin 7..(CfgFrom + 2) /\ p >= 3 /\ p >= 11 + Fields
          /\ \A g \in 1..Fields : p >= 10 + g
      BY <1>7, Sizes
    <2>2. ~hit => Settled(m)
      BY <1>7, AllWritten, Zenon
    <2>3. Keeps
      BY <1>1, <1>7, SetIs, Zenon
    <2>4. vio_override' /\ lowlat' /\ \A g \in 1..Fields : timing'[g] = m
      BY <1>7, <2>1 DEF Found
    <2>5. PICK q : q = p + 1
      OBVIOUS
    <2>6. Found(q, m)'
      BY <1>7, <2>1, <2>2, <2>3, <2>4, <2>5, Zenon DEF Found, Keeps
    <2> QED
      BY <1>7, <2>2, <2>3, <2>5, <2>6, Zenon DEF Keeps, Settled
  <1>8. CASE ~Sets(p) /\ UNCHANGED dataVars
    <2>1. TimeAlone /\ PllAlone /\ hit' = hit /\ running' = running
      BY <1>8, <1>9 DEF TimeAlone, dataVars
    <2>2. PICK q : q = p + 1
      OBVIOUS
    <2>3. Found(q, m)
      BY <1>8, <2>2, Later, Zenon
    <2>4. Found(q, m)'
      BY <2>1, <2>3, FoundKept, Zenon
    <2> QED
      BY <2>1, <2>2, <2>4, Zenon
  <1> QED
    BY <1>2, <1>3, <1>4, <1>5, <1>6, <1>7, <1>8, Zenon DEF Effect

\* The types of what a write sets.
SetType ==
    /\ vio_override \in BOOLEAN /\ lowlat \in BOOLEAN /\ hit \in BOOLEAN
    /\ cfg_set \in BOOLEAN /\ cfg_got \in BOOLEAN /\ timing \in [1..Fields -> Nat] /\ PllType

LEMMA EffectType ==
    ASSUME NEW p \in Nat, NEW m \in Nat, SetType, Effect(p, m)
    PROVE  SetType'
  <1> USE DEF SetType
  <1>8. pllVars' = pllVars => PllType' /\ hit' = hit /\ cfg_set' = cfg_set /\ cfg_got' = cfg_got
    BY DEF pllVars, coreVars, PllType
  <1>1. CASE p = 2 /\ vio_override' = TRUE /\ UNCHANGED <<timing, lowlat, pllVars>>
    BY <1>1, <1>8
  <1>2. ASSUME NEW b \in BOOLEAN, Set(b), hit' \in BOOLEAN, UNCHANGED <<vio_override, timing, lowlat>>
        PROVE  SetType'
    <2>1. cfg_set' \in BOOLEAN /\ cfg_got' \in BOOLEAN /\ PllType'
      BY <1>2, SetIs, Zenon
    <2> QED
      BY <1>2, <2>1
  <1>3. ASSUME NEW f \in 1..Fields, timing' = [timing EXCEPT ![f] = m],
               UNCHANGED <<vio_override, lowlat, pllVars>>
        PROVE  SetType'
    BY <1>3, <1>8
  <1>4. CASE lowlat' = TRUE /\ UNCHANGED <<vio_override, timing, pllVars>>
    BY <1>4, <1>8
  <1>5. ASSUME NEW i \in 1..Settings, Write(i, m), UNCHANGED <<vio_override, timing, lowlat>>
        PROVE  SetType'
    <2>1. m \in Int
      OBVIOUS
    <2>2. UNCHANGED <<cfg_set, cfg_got>> /\ PllType' /\ hit' \in BOOLEAN
      BY <1>5, <2>1, WriteIs, Zenon
    <2> QED
      BY <1>5, <2>2
  <1>6. CASE UNCHANGED dataVars
    BY <1>6, <1>8 DEF dataVars
  <1>7. FALSE \in BOOLEAN /\ TRUE \in BOOLEAN /\ (hit' = FALSE => hit' \in BOOLEAN) /\ (hit' = hit => hit' \in BOOLEAN)
    BY Zenon
  <1> HIDE DEF SetType
  <1> QED
    BY <1>1, <1>2, <1>3, <1>4, <1>5, <1>6, <1>7, Zenon DEF Effect

----------------------------------------------------------------------------
(* The actions. *)

\* A reconfiguration that starts has all the settings of the mode that the timing has.
Started == running' # running => hit' \/ \E k \in 0..Modes : Whole(running', k) /\ Timed(k)

LEMMA MainBusInv ==
    ASSUME VioInv, MainBus
    PROVE  VioInv' /\ Started
  <1>1. VioType /\ PortInv /\ MadeInv /\ HpsInv /\ CoherentInv
    BY DEF VioInv
  <1>2. call = "hdmi"
    BY <1>1 DEF PortInv, MainBus, Bus
  <1>3. PICK m \in 0..Modes : m = mode
    BY <1>1 DEF VioType
  <1>4. m \in Nat
    BY Numbers
  <1>5. /\ Done \in 0..(Total - 1) /\ Done' = Done + 1 /\ todo' \in Seq(AnyWord)
        /\ PortInv' /\ Effect(Done, m)
    BY <1>1, <1>2, <1>3, <1>4, BusStep, Zenon
  <1>6. PICK p \in Nat : p = Done
    BY <1>5, Sizes
  <1>7. Effect(p, m) /\ Done' = p + 1 /\ p \in 0..(Total - 1)
    BY <1>5, <1>6
  <1>8. UNCHANGED <<call, mode, video_mode_desc, hps>>
    BY DEF MainBus, Alone, mainVars, Bus
  <1>9. SetType /\ Found(p, m)
    <2>1. SetType
      BY <1>1 DEF VioType, SetType, PllType
    <2> QED
      BY <1>1, <1>2, <1>3, <1>6, <2>1, Zenon DEF MadeInv
  <1>10. SetType'
    BY <1>4, <1>7, <1>9, EffectType, Zenon
  <1>11. VioType'
    <2>1. hps' = hps /\ mode' = mode
      BY <1>8
    <2> QED
      BY <1>1, <1>5, <1>10, <2>1, Zenon DEF VioType, SetType, PllType
  <1>12. Found(p + 1, m)' /\ (running' # running => hit' \/ (Whole(running', m) /\ Timed(m)))
    BY <1>1, <1>4, <1>7, <1>9, EffectFound, Zenon
  <1>13. PICK q : q = p + 1
    OBVIOUS
  <1>14. Found(q, m)' /\ Done' = q /\ mode' = m
    BY <1>3, <1>7, <1>8, <1>12, <1>13, Zenon
  <1>15. MadeInv'
    BY <1>14, Zenon DEF MadeInv, Found, CfgFrom, PllFrom
  <1>16. CoherentInv'
    <2> SUFFICES ASSUME ~hit', cfg_set' \/ ~Middle' PROVE \E k \in 0..Modes : Settled(k)'
      BY Zenon DEF CoherentInv
    <2>1. CASE q >= CfgFrom + 3
      <3>1. Settled(m)'
        BY <1>14, <2>1, Zenon DEF Found, CfgFrom, PllFrom
      <3> QED
        BY <3>1, Zenon
    <2>2. CASE ~(q >= CfgFrom + 3)
      <3>1. cfg_set'
        <4>1. Len(todo') # 0
          <5>1. Done' = Total' - Len(todo') /\ Total' = Total
            BY Zenon DEF Done, Total, CfgFrom, PllFrom
          <5> QED
            BY <1>14, <2>2, <5>1, Sizes
        <4>2. todo' # <<>>
          BY <4>1
        <4> QED
          BY <4>2, Zenon DEF Middle
      <3>2. q \notin 7..(CfgFrom + 2)
        BY <1>14, <3>1, Zenon DEF Found, CfgFrom, PllFrom
      <3>3. p \in 0..5
        BY <1>7, <1>13, <2>2, <3>2, Sizes
      <3>4. timing' = timing /\ pllVars' = pllVars
        <4>1. p # 6 /\ p # 10 + Fields /\ p # CfgFrom + 2 /\ \A f \in 1..Fields : p # 9 + f
          BY <3>3, Sizes
        <4>2. \A i \in 1..Settings : p # PllFrom + 6 * i - 2
          BY <3>3, Sizes
        <4> QED
          BY <1>7, <4>1, <4>2, Zenon DEF Effect, dataVars
      <3>5. PllAlone /\ hit' = hit /\ cfg_set' = cfg_set
        BY <3>4 DEF pllVars, coreVars, PllAlone
      <3>6. PICK k \in 0..Modes : Settled(k)
        BY <1>1, <3>1, <3>5, Zenon DEF CoherentInv
      <3> QED
        BY <3>4, <3>5, <3>6, AloneKeeps, Zenon
    <2> QED
      BY <2>1, <2>2
  <1>17. HpsInv'
    <2> SUFFICES ASSUME ~vio_override' PROVE HpsInv'
      BY Zenon DEF HpsInv
    <2>1. ~(q >= 3)
      BY <1>14, Zenon DEF Found
    <2>2. p \in 0..1
      BY <1>7, <1>13, <2>1
    <2>3. timing' = timing /\ pllVars' = pllVars /\ vio_override' = vio_override
      <3>1. p # 2 /\ p # 6 /\ p # 10 + Fields /\ p # CfgFrom + 2 /\ \A f \in 1..Fields : p # 9 + f
        BY <2>2, Sizes
      <3>2. \A i \in 1..Settings : p # PllFrom + 6 * i - 2
        BY <2>2, Sizes
      <3> QED
        BY <1>7, <3>1, <3>2, Zenon DEF Effect, dataVars
    <2>4. PllAlone /\ hit' = hit /\ hps' = hps
      BY <1>8, <2>3 DEF pllVars, coreVars, PllAlone
    <2> QED
      BY <1>1, <2>3, <2>4 DEF HpsInv, Written, PllAlone
  <1>18. ShownInv'
    BY <1>2, <1>8 DEF ShownInv
  <1>19. Started
    BY <1>12, Zenon DEF Started
  <1> QED
    BY <1>5, <1>11, <1>15, <1>16, <1>17, <1>18, <1>19, Zenon DEF VioInv

\* A step that leaves the port alone and neither enters nor leaves hdmi_set_mode.
PortAlone ==
    /\ UNCHANGED <<todo, port, custom, mode>>
    /\ call = "hdmi" <=> call' = "hdmi"

LEMMA PortKept == ASSUME PortInv, PortAlone PROVE PortInv' /\ Done' = Done
  <1>1. /\ todo' = todo /\ vio_has_cmd' = vio_has_cmd /\ vio_cmd' = vio_cmd
        /\ vio_cnt' = vio_cnt /\ custom' = custom /\ mode' = mode
    BY DEF PortAlone, port
  <1>2. Done' = Done
    BY <1>1, Zenon DEF Done, Total, CfgFrom, PllFrom
  <1>3. CASE call # "hdmi"
    <2>1. call' # "hdmi" /\ todo = <<>> /\ ~vio_has_cmd
      BY <1>3, Zenon DEF PortInv, PortAlone
    <2> QED
      BY <1>1, <1>2, <2>1, Zenon DEF PortInv
  <1>4. CASE call = "hdmi"
    <2>1. PICK p, m : p = Done /\ m = mode
      OBVIOUS
    <2>2. call' = "hdmi" /\ p = Done' /\ m = mode'
      BY <1>1, <1>2, <1>4, <2>1, Zenon DEF PortAlone
    <2>3. /\ Len(todo) <= Total /\ PlaceAt(p) /\ CustomAt(p, m)
          /\ \A i \in 1..Len(todo) : todo[i] = Program(m)[p + i]
      BY <1>4, <2>1, Zenon DEF PortInv
    <2>4. CustomAt(p, m)'
      BY <1>1, <2>3, Zenon DEF CustomAt, PllFrom
    <2>5. PlaceAt(p)'
      <3>1. Commands' = Commands /\ Total' = Total
        BY Zenon DEF Commands, Total, CfgFrom, PllFrom
      <3>2. ASSUME NEW cmd, NEW j, PortAt(cmd, j) PROVE PortAt(cmd, j)'
        BY <1>1, <3>2, Zenon DEF PortAt
      <3> QED
        BY <1>1, <2>3, <3>1, <3>2, Zenon DEF PlaceAt
    <2>6. PlaceAt(Done)' /\ CustomAt(Done, mode)'
      BY <2>2, <2>4, <2>5, Zenon
    <2>7. Len(todo)' <= Total' /\ \A i \in 1..Len(todo)' : todo'[i] = Program(mode)'[Done' + i]
      BY <1>1, <2>2, <2>3, Zenon
    <2> QED
      BY <1>2, <2>2, <2>6, <2>7, Zenon DEF PortInv
  <1> QED
    BY <1>3, <1>4

\* When hdmi_set_mode has made all its writes.
LEMMA AllDone ==
    ASSUME VioInv, call = "hdmi", todo = <<>>
    PROVE  ~vio_has_cmd /\ vio_override /\ Timed(mode) /\ lowlat /\ Done = Total
  <1>1. Done = Total
    BY Sizes DEF Done
  <1>2. ~vio_has_cmd
    <2>1. PlaceAt(Total)
      BY <1>1 DEF VioInv, PortInv
    <2>2. ASSUME NEW g \in Commands, Total \in g.from..(g.from + g.n + 2)
          PROVE  FALSE
      BY <2>2, Sizes DEF Commands
    <2> QED
      BY <2>1, <2>2, Zenon DEF PlaceAt
  <1>3. Total >= 3 /\ Total >= 11 + Fields /\ \A f \in 1..Fields : Total >= 10 + f
    BY Sizes
  <1>4. Found(Total, mode)
    BY <1>1, Zenon DEF VioInv, MadeInv
  <1> QED
    BY <1>1, <1>2, <1>3, <1>4, Zenon DEF Found, Timed

\* A step that leaves the port and the timing alone; whatever it does to the clock
\* while settings are written, it is a hit.
OtherSide ==
    /\ PortAlone /\ TimeAlone /\ video_mode_desc' = video_mode_desc
    /\ hps' = hps \/ (hps' = 0 /\ vio_override)
    /\ PllType' /\ hit' \in BOOLEAN /\ cfg_set' \in BOOLEAN /\ cfg_got' \in BOOLEAN
    /\ hit' \/ (~hit /\ (PllAlone \/ ((cfg_set \/ ~Middle) /\ Keeps)))
    /\ running' = running \/ hit' \/ ((cfg_set \/ ~Middle) /\ Keeps)

LEMMA OtherSideInv == ASSUME VioInv, OtherSide PROVE VioInv' /\ Started
  <1>1. VioType /\ PortInv /\ MadeInv /\ HpsInv /\ CoherentInv /\ ShownInv
    BY Zenon DEF VioInv
  <1>2. /\ PortAlone /\ TimeAlone /\ video_mode_desc' = video_mode_desc
        /\ hps' = hps \/ (hps' = 0 /\ vio_override)
        /\ PllType' /\ hit' \in BOOLEAN /\ cfg_set' \in BOOLEAN /\ cfg_got' \in BOOLEAN
        /\ hit' \/ (~hit /\ (PllAlone \/ ((cfg_set \/ ~Middle) /\ Keeps)))
        /\ running' = running \/ hit' \/ ((cfg_set \/ ~Middle) /\ Keeps)
    BY Zenon DEF OtherSide
  <1>3. /\ todo' = todo /\ mode' = mode /\ (call = "hdmi" <=> call' = "hdmi")
        /\ timing' = timing /\ lowlat' = lowlat /\ vio_override' = vio_override
    BY <1>2 DEF PortAlone, TimeAlone
  <1>4. PortInv' /\ Done' = Done
    BY <1>1, <1>2, PortKept, Zenon
  <1>5. VioType'
    <2>1. hps' \in 0..(Fields + Settings - 2)
      BY <1>1, <1>2, Sizes DEF VioType
    <2> QED
      BY <1>1, <1>2, <1>3, <2>1, Zenon DEF VioType, PllType
  <1>6. \A k \in 0..Modes : k \in Nat
    BY Numbers
  <1>7. MadeInv'
    <2> SUFFICES ASSUME call' = "hdmi" PROVE Found(Done, mode)'
      BY Zenon DEF MadeInv
    <2>6. PICK m \in Nat : m = mode
      BY <1>1, <1>6 DEF VioType
    <2>1. PICK p : p = Done /\ m = mode
      BY <2>6
    <2>2. Found(p, m)
      BY <1>1, <1>3, <2>1, Zenon DEF MadeInv
    <2>3. ~hit /\ (cfg_set \/ ~Middle) => p \notin 7..(CfgFrom + 2)
      <3>1. ~hit /\ p \in 7..(CfgFrom + 2) => ~cfg_set
        BY <2>2, Zenon DEF Found
      <3>2. todo = <<>> => p = Total /\ ~(p \in 7..(CfgFrom + 2))
        BY <2>1, Sizes DEF Done
      <3> QED
        BY <3>1, <3>2, Zenon DEF Middle
    <2>4. Found(p, m)'
      BY <1>2, <2>2, <2>3, FoundKept, Zenon
    <2>5. p = Done' /\ m = mode'
      BY <1>3, <1>4, <2>1
    <2> QED
      BY <2>4, <2>5, Zenon DEF Found, CfgFrom, PllFrom
  <1>8. HpsInv'
    <2> SUFFICES ASSUME hps' > 0, ~vio_override' PROVE HpsInv'
      BY Zenon DEF HpsInv
    <2>1. ~vio_override /\ hps' = hps /\ hps > 0
      BY <1>2, <1>3
    <2>2. Middle /\ (~hit => ~cfg_set) /\ \A f \in 1..Fields : f <= hps' => timing'[f] = 0
      BY <1>1, <1>3, <2>1, Zenon DEF HpsInv, Middle
    <2>3. CASE hit'
      BY <2>2, <2>3, Zenon DEF HpsInv
    <2>4. CASE ~hit /\ PllAlone
      <3>1. /\ ~cfg_set /\ ~cfg_got /\ (hps > 1 => adj.st = "idle")
            /\ \A i \in Values : i < hps - Fields + M => Written(i, 0)
        BY <1>1, <2>1, <2>4, Zenon DEF HpsInv
      <3>2. /\ ~cfg_set' /\ ~cfg_got' /\ (hps' > 1 => adj'.st = "idle")
            /\ \A i, k : Written(i, k) => Written(i, k)'
        <4>1. cfg_set' = cfg_set /\ cfg_got' = cfg_got /\ adj' = adj
          BY <2>4 DEF PllAlone
        <4> QED
          BY <1>3, <2>1, <2>4, <3>1, <4>1, AloneKeeps, Zenon
      <3> QED
        BY <2>1, <2>2, <3>1, <3>2, Zenon DEF HpsInv, M
    <2> QED
      BY <1>2, <2>2, <2>3, <2>4, Zenon
  <1>9. Middle' = Middle
    <2>1. hps' = hps \/ vio_override
      BY <1>2
    <2> QED
      BY <1>3, <2>1 DEF Middle
  <1>10. ~hit /\ (cfg_set \/ ~Middle) => \E k \in 0..Modes : Settled(k)
    BY <1>1, Zenon DEF CoherentInv
  <1>11. CoherentInv'
    <2> SUFFICES ASSUME ~hit', cfg_set' \/ ~Middle' PROVE \E k \in 0..Modes : Settled(k)'
      BY Zenon DEF CoherentInv
    <2>1. CASE PllAlone
      <3>1. ~hit /\ (cfg_set \/ ~Middle)
        BY <1>2, <1>9, <2>1, Zenon DEF PllAlone
      <3> QED
        BY <1>3, <1>10, <2>1, <3>1, AloneKeeps, Zenon
    <2>2. CASE (cfg_set \/ ~Middle) /\ Keeps
      BY <1>2, <1>6, <1>10, <2>2, Zenon DEF Keeps
    <2> QED
      BY <1>2, <2>1, <2>2, Zenon
  <1>12. ShownInv'
    BY <1>1, <1>2, <1>3, Zenon DEF ShownInv, Timed
  <1>13. Started
    <2> SUFFICES ASSUME running' # running, ~hit' PROVE \E k \in 0..Modes : Whole(running', k) /\ Timed(k)
      BY Zenon DEF Started
    <2>1. ~hit /\ (cfg_set \/ ~Middle) /\ Keeps
      BY <1>2, Zenon
    <2> QED
      BY <1>6, <1>10, <2>1, Zenon DEF Keeps, Settled
  <1> QED
    BY <1>4, <1>5, <1>7, <1>8, <1>11, <1>12, <1>13, Zenon DEF VioInv

\* Steps that touch none of the registers of the HDMI output.
LEMMA ApartSteps ==
    ASSUME VioInv, PixelSys \/ PixelRef \/ Booted \/ UNCHANGED hdmiVars
    PROVE  OtherSide
  <1>1. vioVars' = vioVars /\ mode' = mode /\ video_mode_desc' = video_mode_desc /\ (call = "hdmi" <=> call' = "hdmi")
    <2>1. CASE PixelSys \/ PixelRef
      BY <2>1 DEF PixelSys, PixelRef, Pixel, mainVars
    <2>2. CASE Booted
      BY <2>2, SMTT(20) DEF Booted
    <2>3. CASE UNCHANGED hdmiVars
      BY <2>3 DEF hdmiVars, mainVars
    <2> QED
      BY <2>1, <2>2, <2>3
  <1>2. cmdVars' = cmdVars /\ pllVars' = pllVars
    BY <1>1 DEF vioVars
  <1>3. PortAlone /\ TimeAlone /\ hps' = hps
    BY <1>1, <1>2 DEF cmdVars, PortAlone, TimeAlone
  <1>4. PllAlone /\ hit' = hit /\ running' = running
    BY <1>2 DEF pllVars, coreVars, PllAlone
  <1>5. PllType' /\ hit' \in BOOLEAN /\ cfg_set' \in BOOLEAN /\ cfg_got' \in BOOLEAN
    BY <1>4 DEF VioInv, VioType, PllType, PllAlone
  <1> QED
    BY <1>1, <1>3, <1>4, <1>5, Zenon DEF OtherSide

\* A frame starts a reconfiguration only when cfg_set is up.
LEMMA NextFrameStep == ASSUME VioInv, NextFrame PROVE OtherSide
  <1>1. cfg_set /\ Rise(TRUE) /\ cmdVars' = cmdVars /\ cfg_set' = cfg_set /\ hit' = hit
        /\ mainVars' = mainVars
    BY Zenon DEF NextFrame, Vsync, Alone
  <1>2. PortAlone /\ TimeAlone /\ hps' = hps /\ video_mode_desc' = video_mode_desc
    BY <1>1 DEF cmdVars, PortAlone, TimeAlone, mainVars
  <1>3. PllType /\ TRUE \in BOOLEAN /\ hit \in BOOLEAN /\ cfg_set \in BOOLEAN /\ timing' = timing
    BY <1>2 DEF VioInv, VioType, PllType, TimeAlone
  <1>4. cfg_got' = TRUE /\ PllType' /\ Keeps
    BY <1>1, <1>3, RiseIs, Zenon
  <1> QED
    BY <1>1, <1>2, <1>3, <1>4, Zenon DEF OtherSide

LEMMA PllClockStep == ASSUME VioInv, PllClock PROVE OtherSide
  <1>1. cmdVars' = cmdVars /\ PllAlone /\ hit' = hit /\ running' = running /\ mainVars' = mainVars
    BY DEF PllClock, PllEdge, Alone, PllAlone
  <1>2. PortAlone /\ TimeAlone /\ hps' = hps /\ video_mode_desc' = video_mode_desc
    BY <1>1 DEF cmdVars, PortAlone, TimeAlone, mainVars
  <1>3. PllType' /\ hit' \in BOOLEAN /\ cfg_set' \in BOOLEAN /\ cfg_got' \in BOOLEAN
    BY <1>1 DEF VioInv, VioType, PllType, PllAlone
  <1> QED
    BY <1>1, <1>2, <1>3, Zenon DEF OtherSide

\* The adjuster puts a mode together with itself, and writes what it is at.
LEMMA AdjTuneKeeps ==
    ASSUME PllType, timing' = timing, AdjTune
    PROVE  PllType' /\ running' = running /\ Keeps
  <1>1. coreVars' = coreVars /\ adj \in AnyAdj
    BY Zenon DEF AdjTune, PllType
  <1>2. settings' = settings /\ running' = running
    BY <1>1 DEF coreVars
  <1>3. PICK f : f = Mix(adj.m, adj.k)
    OBVIOUS
  <1>4. f \in Int /\ \A k \in Nat : Tuned(k) => f = k
    BY <1>1, <1>3 DEF Mix, Mixed, Tuned, AnyAdj
  <1>5. \/ adj.st # "idle" /\ adj' = [adj EXCEPT !.m = f, !.k = f]
        \/ \E st \in {"M", "K"} :
               adj' = [st |-> st, data |-> f, m |-> f, k |-> f, modo |-> lowlat /\ adj.modo]
    BY <1>3, Zenon DEF AdjTune
  <1>6. adj' \in AnyAdj /\ \A k \in Nat : Tuned(k) => Tuned(k)'
    <2>1. CASE adj' = [adj EXCEPT !.m = f, !.k = f]
      <3>1. adj' \in AnyAdj /\ adj'.m = f /\ adj'.k = f /\ adj'.st = adj.st /\ adj'.data = adj.data
        BY <1>1, <1>4, <2>1, Zenon DEF AnyAdj
      <3> QED
        BY <1>4, <3>1, Zenon DEF Tuned
    <2>2. ASSUME NEW st \in {"M", "K"},
                 adj' = [st |-> st, data |-> f, m |-> f, k |-> f, modo |-> lowlat /\ adj.modo]
          PROVE  adj' \in AnyAdj /\ \A k \in Nat : Tuned(k) => Tuned(k)'
      <3>1. (lowlat /\ adj.modo) \in BOOLEAN
        BY Zenon
      <3>2. adj' \in AnyAdj /\ adj'.m = f /\ adj'.k = f /\ adj'.data = f
        BY <1>4, <2>2, <3>1, Zenon DEF AnyAdj
      <3> QED
        BY <1>4, <3>2, Zenon DEF Tuned
    <2> QED
      BY <1>5, <2>1, <2>2, Zenon
  <1>7. \A k : (Timed(k) => Timed(k)') /\ (Held(k) => Held(k)')
    BY <1>2, Zenon DEF Timed, Held, Whole
  <1> QED
    BY <1>2, <1>6, <1>7, Zenon DEF PllType, Keeps, Settled

LEMMA AdjWriteKeeps ==
    ASSUME PllType, timing' = timing, AdjWrite
    PROVE  PllType' /\ Keeps
  <1>1. adj \in AnyAdj /\ adj.st # "idle" /\ adj' = AdjNext
    BY Zenon DEF AdjWrite, PllType
  <1>2. PICK i : /\ i = CASE adj.st = "M" -> M [] adj.st = "K" -> K [] adj.st = "start" -> START
                 /\ CoreWrite(i, adj.data)
    BY Zenon DEF AdjWrite
  <1>3. adj.data \in Int /\ adj.st \in {"M", "K", "start"}
    BY <1>1 DEF AnyAdj
  <1>4. i \in Values => adj.st \in {"M", "K"}
    BY <1>2, <1>3, Numbers
  <1>5. /\ settings' \in [Values -> Int]
        /\ \A k \in Nat : Held(k) /\ (i \in Values => adj.data = k)
               => Held(k)' /\ (running' # running => Whole(running', k))
    BY <1>2, <1>3, CoreWriteIs, Zenon
  <1>6. /\ adj' \in AnyAdj /\ adj'.m = adj.m /\ adj'.k = adj.k
        /\ adj'.st \in {"M", "K"} => adj'.data = adj.k
    BY <1>1, AdjNextIs, Zenon
  <1>7. \A k : (Timed(k) => Timed(k)') /\ (Tuned(k) => Tuned(k)')
    BY <1>6, Zenon DEF Timed, Tuned
  <1>8. \A k : Tuned(k) => (i \in Values => adj.data = k)
    BY <1>4, Zenon DEF Tuned
  <1> QED
    BY <1>5, <1>6, <1>7, <1>8, Zenon DEF PllType, Keeps, Settled

LEMMA AdjustStep == ASSUME VioInv, Adjust PROVE OtherSide
  <1>1. AdjTune \/ AdjWrite
    BY DEF Adjust
  <1>2. /\ cmdVars' = cmdVars /\ cfg_set' = cfg_set /\ cfg_got' = cfg_got
        /\ hit' = (hit \/ Middle) /\ mainVars' = mainVars
    BY <1>1, Zenon DEF Adjust, Alone, AdjTune, AdjWrite
  <1>3. PortAlone /\ TimeAlone /\ hps' = hps /\ video_mode_desc' = video_mode_desc
    BY <1>2 DEF cmdVars, PortAlone, TimeAlone, mainVars
  <1>4. PllType /\ timing' = timing /\ cfg_set' \in BOOLEAN /\ cfg_got' \in BOOLEAN
    BY <1>2, <1>3 DEF VioInv, VioType, PllType, TimeAlone
  <1>5. hit' \in BOOLEAN /\ (hit' \/ (~hit /\ ~Middle))
    BY <1>2, Zenon
  <1>6. PllType' /\ Keeps
    BY <1>1, <1>4, AdjTuneKeeps, AdjWriteKeeps, Zenon
  <1> QED
    BY <1>3, <1>4, <1>5, <1>6, Zenon DEF OtherSide

\* The buttons and switches set cfg_set.
LEMMA HpsWordStep == ASSUME VioInv, Alone, HpsWord PROVE OtherSide
  <1>1. /\ Set(TRUE) /\ hit' = (hit \/ Middle) /\ cmdVars' = cmdVars /\ mainVars' = mainVars
    BY Zenon DEF HpsWord, Alone
  <1>2. PortAlone /\ TimeAlone /\ hps' = hps /\ video_mode_desc' = video_mode_desc
    BY <1>1 DEF cmdVars, PortAlone, TimeAlone, mainVars
  <1>3. PllType /\ timing' = timing /\ cfg_got \in BOOLEAN /\ TRUE \in BOOLEAN
    BY <1>2 DEF VioInv, VioType, PllType, TimeAlone
  <1>4. cfg_set' = TRUE /\ cfg_got' \in BOOLEAN /\ PllType' /\ Keeps
    BY <1>1, <1>3, SetIs, Zenon
  <1>5. hit' \in BOOLEAN /\ (hit' \/ (~hit /\ ~Middle))
    BY <1>1, Zenon
  <1> QED
    BY <1>2, <1>3, <1>4, <1>5, Zenon DEF OtherSide

\* hdmi_set_mode is entered: nothing is written yet.
LEMMA SetHdmiInv == ASSUME VioInv, SetHdmi PROVE VioInv' /\ Started
  <1>1. VioType /\ PortInv /\ HpsInv /\ CoherentInv
    BY DEF VioInv
  <1>2. PICK m \in 0..Modes : m = mode'
    BY <1>1, Numbers DEF SetHdmi, VioType
  <1>3. /\ todo' = Program(m) /\ call = "loop" /\ call' = "hdmi" /\ pllVars' = pllVars
        /\ port' = port /\ hps' = hps /\ TimeAlone
    BY <1>2, Zenon DEF SetHdmi, TimeAlone
  <1>4. PllAlone /\ hit' = hit /\ running' = running /\ vio_has_cmd' = vio_has_cmd
    BY <1>3 DEF pllVars, coreVars, PllAlone, port
  <1>5. m \in Nat
    BY Numbers
  <1>6. Program(m) \in Seq(AnyWord) /\ Len(Program(m)) = Total
    BY <1>5, ProgramIs, Zenon
  <1>7. Done' = 0 /\ todo' # <<>>
    BY <1>3, <1>6, Sizes DEF Done, Total
  <1>8. ~vio_has_cmd'
    BY <1>1, <1>3, <1>4 DEF PortInv
  <1>9. VioType' /\ HpsInv' /\ ShownInv'
    <2>1. PllType' /\ cfg_set' = cfg_set /\ cfg_got' = cfg_got
      BY <1>1, <1>4 DEF PllAlone, VioType, PllType
    <2>2. VioType'
      BY <1>1, <1>2, <1>3, <1>4, <1>6, <2>1, Zenon DEF VioType, PllType, TimeAlone
    <2>3. HpsInv'
      <3>1. \A i, k : Written(i, k) => Written(i, k)'
        BY <1>3, <1>4, AloneKeeps, Zenon DEF TimeAlone
      <3>2. adj' = adj
        BY <1>4 DEF PllAlone
      <3> QED
        BY <1>1, <1>3, <1>4, <2>1, <3>1, <3>2, Zenon DEF HpsInv, TimeAlone, M
    <2>4. ShownInv'
      BY <1>3 DEF ShownInv
    <2> QED
      BY <2>2, <2>3, <2>4
  <1>10. PortInv'
    <2>1. PlaceAt(0)'
      <3>1. [from |-> 0, cmd |-> SET_OVERRIDE, n |-> 1] \in Commands
        BY DEF Commands
      <3>2. PortAt(SET_OVERRIDE, 0 - 0)'
        BY <1>8 DEF PortAt
      <3>3. 0 \in 0..(0 + 1 + 2)
        OBVIOUS
      <3> QED
        BY <3>1, <3>2, <3>3, SMTT(20) DEF PlaceAt
    <2>2. CustomAt(0, m)'
      <3>1. ~Carries(0)
        BY Sizes DEF Carries
      <3> QED
        BY <3>1, NotCarried, Zenon
    <2>3. Len(todo') <= Total /\ \A i \in 1..Len(todo') : todo'[i] = Program(m)[0 + i]
      BY <1>3, <1>6, Sizes
    <2> QED
      BY <1>2, <1>3, <1>7, <2>1, <2>2, <2>3 DEF PortInv
  <1>11. MadeInv'
    <2>1. /\ 0 \in Nat /\ ~(0 >= 3) /\ ~(0 >= 11 + Fields) /\ 0 \notin 7..(CfgFrom + 2)
          /\ ~(0 >= CfgFrom + 3) /\ \A f \in 1..Fields : ~(0 >= 10 + f)
      BY Sizes
    <2>2. Found(0, m)'
      BY <2>1, Zenon DEF Found, CfgFrom, PllFrom
    <2> QED
      BY <1>2, <1>7, <2>2, Zenon DEF MadeInv, Found, CfgFrom, PllFrom
  <1>12. CoherentInv'
    <2>1. Middle'
      BY <1>7, Zenon DEF Middle
    <2>2. hit' = hit /\ cfg_set' = cfg_set /\ \A k : Settled(k) => Settled(k)'
      BY <1>3, <1>4, AloneKeeps DEF PllAlone, TimeAlone
    <2> QED
      BY <1>1, <2>1, <2>2, Zenon DEF CoherentInv
  <1>13. Started
    BY <1>4 DEF Started
  <1> QED
    BY <1>9, <1>10, <1>11, <1>12, <1>13, Zenon DEF VioInv

\* It returns: everything is written.
LEMMA AppliedInv == ASSUME VioInv, Applied PROVE VioInv' /\ Started
  <1>1. VioType /\ PortInv /\ MadeInv /\ HpsInv /\ CoherentInv
    BY DEF VioInv
  <1>2. /\ call = "hdmi" /\ call' # "hdmi" /\ todo = <<>> /\ vioVars' = vioVars /\ mode' = mode
        /\ video_mode_desc' = mode
    BY DEF Applied
  <1>3. cmdVars' = cmdVars /\ pllVars' = pllVars
    BY <1>2 DEF vioVars
  <1>4. todo' = todo /\ vio_has_cmd' = vio_has_cmd /\ TimeAlone /\ hps' = hps
    BY <1>3 DEF cmdVars, TimeAlone, port
  <1>5. PllAlone /\ hit' = hit /\ running' = running
    BY <1>3 DEF pllVars, coreVars, PllAlone
  <1>6. ~vio_has_cmd /\ vio_override /\ Timed(mode) /\ lowlat
    BY <1>2, AllDone, Zenon
  <1>7. VioType' /\ HpsInv'
    <2>1. PllType' /\ cfg_set' = cfg_set /\ cfg_got' = cfg_got
      BY <1>1, <1>5 DEF PllAlone, VioType, PllType
    <2>2. VioType'
      BY <1>1, <1>2, <1>4, <1>5, <2>1, Zenon DEF VioType, PllType, TimeAlone
    <2>3. HpsInv'
      BY <1>4, <1>6 DEF HpsInv, TimeAlone
    <2> QED
      BY <2>2, <2>3
  <1>8. PortInv' /\ MadeInv'
    BY <1>2, <1>4, <1>6, Zenon DEF PortInv, MadeInv
  <1>9. ShownInv'
    BY <1>2, <1>4, <1>6, Zenon DEF ShownInv, Timed, TimeAlone
  <1>10. CoherentInv'
    <2>1. Middle' = Middle
      BY <1>4 DEF Middle, TimeAlone
    <2>2. hit' = hit /\ cfg_set' = cfg_set /\ \A k : Settled(k) => Settled(k)'
      BY <1>4, <1>5, AloneKeeps DEF PllAlone, TimeAlone
    <2> QED
      BY <1>1, <2>1, <2>2, Zenon DEF CoherentInv
  <1>11. Started
    BY <1>5 DEF Started
  <1> QED
    BY <1>7, <1>8, <1>9, <1>10, <1>11, Zenon DEF VioInv

LEMMA WrapMod ==
    ASSUME NEW n \in Nat \ {0}, NEW a \in 0..n
    PROVE  a % n = IF a = n THEN 0 ELSE a
  <1>1. a < n => a % n = a
    BY SMT
  <1>2. n % n = 0
    BY SMT
  <1> QED
    BY <1>1, <1>2

\* What a word of the HPS does to the clock.
LEMMA HpsWriteIs ==
    ASSUME VioType, HpsInv, ~vio_override, HpsWrite
    PROVE  /\ PllType' /\ running' = running /\ hit' \in BOOLEAN
           /\ cfg_set' \in BOOLEAN /\ cfg_got' \in BOOLEAN
           /\ ~hit' => /\ ~cfg_set' /\ ~cfg_got'
                       /\ hps >= 1 => adj'.st = "idle"
                       /\ \A i \in Values : i < hps + 1 - Fields + M => Written(i, 0)'
  <1>1. /\ PllType /\ hps \in 0..(Fields + Settings - 2) /\ cfg_set \in BOOLEAN /\ cfg_got \in BOOLEAN
        /\ Fields \in Nat /\ Fields > 1 /\ 0 \in Int /\ hit \in BOOLEAN
    BY VioAssumption DEF VioType, PllType
  <1>2. hps > 0 /\ ~hit => /\ ~cfg_set /\ ~cfg_got /\ (hps > 1 => adj.st = "idle")
                           /\ \A i \in Values : i < hps - Fields + M => Written(i, 0)
    BY Zenon DEF HpsInv
  <1>3. ASSUME NEW n \in 1..Settings, Write(n, 0), hps >= 1,
               \A i \in Values : i < hps + 1 - Fields + M => i = n \/ i < hps - Fields + M
        PROVE  /\ PllType' /\ running' = running /\ hit' \in BOOLEAN
               /\ cfg_set' \in BOOLEAN /\ cfg_got' \in BOOLEAN
               /\ ~hit' => /\ ~cfg_set' /\ ~cfg_got' /\ adj'.st = "idle"
                           /\ \A i \in Values : i < hps + 1 - Fields + M => Written(i, 0)'
    <2>1. /\ UNCHANGED <<cfg_set, cfg_got>> /\ running' = running /\ PllType' /\ hit' \in BOOLEAN
          /\ ~hit' /\ ~cfg_got =>
                 /\ ~hit /\ adj'.st = "idle"
                 /\ n \in Values => Written(n, 0)'
                 /\ \A j \in Values \ {n} : \A k : Written(j, k) => Written(j, k)'
      BY <1>1, <1>3, WriteIs, Zenon
    <2>2. hps > 0
      BY <1>1, <1>3
    <2>3. ~hit' => ~hit /\ ~cfg_set /\ ~cfg_got
      <3>1. ~hit' => ~hit
        BY <1>3, Zenon DEF Write
      <3> QED
        BY <1>2, <2>2, <3>1, Zenon
    <2>4. ASSUME ~hit', NEW i \in Values, i < hps + 1 - Fields + M PROVE Written(i, 0)'
      <3>1. CASE i = n
        BY <2>1, <2>3, <2>4, <3>1, Zenon
      <3>2. CASE i # n
        <4>1. Written(i, 0) /\ i \in Values \ {n}
          BY <1>2, <1>3, <2>2, <2>3, <2>4, <3>2, Zenon
        <4> QED
          BY <2>1, <2>3, <2>4, <4>1, Zenon
      <3> QED
        BY <3>1, <3>2
    <2>5. cfg_set' = cfg_set /\ cfg_got' = cfg_got
      BY <2>1
    <2>6. cfg_set' \in BOOLEAN /\ cfg_got' \in BOOLEAN /\ (~hit' => ~cfg_set' /\ ~cfg_got')
      BY <1>1, <2>3, <2>5, Zenon
    <2>7. ~hit' => adj'.st = "idle"
      BY <2>1, <2>3, Zenon
    <2> QED
      BY <2>1, <2>4, <2>6, <2>7, Zenon
  <1>4. CASE hps = 1
    <2>1. Write(1, 0)
      BY <1>4, Zenon DEF HpsWrite, MODE
    <2>2. 1 \in 1..Settings /\ hps >= 1 /\ \A i \in Values : ~(i < hps + 1 - Fields + M)
      BY <1>1, <1>4, Numbers
    <2> QED
      BY <1>3, <2>1, <2>2, Zenon
  <1>5. CASE hps # 1 /\ hps >= Fields
    <2>1. PICK n : n = hps - Fields + M
      OBVIOUS
    <2>2. Write(n, 0)
      BY <1>5, <2>1, Zenon DEF HpsWrite
    <2>3. n \in 1..Settings /\ hps >= 1 /\ \A i \in Values : i < hps + 1 - Fields + M => i = n \/ i < hps - Fields + M
      BY <1>1, <1>5, <2>1, Numbers
    <2> QED
      BY <1>3, <2>2, <2>3, Zenon
  <1>6. CASE hps # 1 /\ ~(hps >= Fields)
    <2>1. /\ cfg_set' = FALSE /\ cfg_got' = FALSE /\ hit' = (hit /\ hps > 0)
          /\ UNCHANGED <<coreVars, adj>>
      BY <1>6 DEF HpsWrite
    <2>2. \A i \in Values : ~(i < hps + 1 - Fields + M)
      BY <1>1, <1>6, Numbers
    <2>3. settings' = settings /\ running' = running /\ adj' = adj
      BY <2>1 DEF coreVars
    <2>4. hps >= 1 => hps > 1 /\ hps > 0
      BY <1>1, <1>6
    <2>5. ~hit' /\ hps >= 1 => adj'.st = "idle"
      BY <1>2, <2>1, <2>3, <2>4, Zenon
    <2>6. hit' \in BOOLEAN /\ FALSE \in BOOLEAN /\ PllType'
      <3>1. hit' \in BOOLEAN /\ FALSE \in BOOLEAN
        BY <2>1, Zenon
      <3>2. PllType'
        BY <1>1, <2>3 DEF PllType
      <3> QED
        BY <3>1, <3>2
    <2> QED
      BY <2>1, <2>2, <2>3, <2>5, <2>6, Zenon
  <1> QED
    BY <1>4, <1>5, <1>6, Zenon

\* A word of the HPS is heeded only before the override is set; its last one leaves
\* the registers in mode 0.
LEMMA HpsHeededInv ==
    ASSUME VioInv, Alone, ~vio_override, HpsWrite,
           hps' = (hps + 1) % (Fields + Settings - 1),
           timing' = IF hps < Fields THEN [timing EXCEPT ![hps + 1] = 0] ELSE timing,
           lowlat' \in IF hps = Fields THEN BOOLEAN ELSE {lowlat},
           UNCHANGED <<todo, port, vio_override, custom>>
    PROVE  VioInv' /\ Started
  <1>1. VioType /\ PortInv /\ MadeInv /\ HpsInv /\ ShownInv
    BY Zenon DEF VioInv
  <1>2. /\ todo' = todo /\ vio_override' = vio_override /\ call' = call /\ mode' = mode
        /\ video_mode_desc' = video_mode_desc
    BY DEF Alone, mainVars
  <1>3. PortInv' /\ Done' = Done
    <2>1. PortAlone
      BY <1>2 DEF PortAlone
    <2> QED
      BY <1>1, <2>1, PortKept, Zenon
  <1>4. /\ PllType' /\ running' = running /\ hit' \in BOOLEAN /\ cfg_set' \in BOOLEAN /\ cfg_got' \in BOOLEAN
        /\ ~hit' => /\ ~cfg_set' /\ ~cfg_got'
                    /\ hps >= 1 => adj'.st = "idle"
                    /\ \A i \in Values : i < hps + 1 - Fields + M => Written(i, 0)'
    BY <1>1, HpsWriteIs, Zenon
  <1>5. /\ hps \in 0..(Fields + Settings - 2) /\ timing \in [1..Fields -> Nat] /\ lowlat \in BOOLEAN
        /\ Fields \in Nat /\ Fields > 1 /\ Settings \in Nat /\ Settings > 2
    BY <1>1, VioAssumption DEF VioType
  <1>6. \/ hps' = hps + 1 /\ hps' \in 1..(Fields + Settings - 2)
        \/ hps' = 0 /\ hps = Fields + Settings - 2
    <2>1. PICK n \in Nat \ {0} : n = Fields + Settings - 1
      BY <1>5
    <2>2. hps + 1 \in 0..n
      BY <1>5, <2>1
    <2>3. (hps + 1) % n = IF hps + 1 = n THEN 0 ELSE hps + 1
      BY <2>1, <2>2, WrapMod
    <2>4. hps' = IF hps + 1 = n THEN 0 ELSE hps + 1
      BY <2>1, <2>3, Zenon
    <2> QED
      BY <1>5, <2>1, <2>4
  <1>7. timing' \in [1..Fields -> Nat] /\ \A f \in 1..Fields : f <= hps + 1 => timing'[f] = 0
    <2>1. \A f \in 1..Fields : f <= hps => timing[f] = 0
      <3>1. hps = 0 => \A f \in 1..Fields : ~(f <= hps)
        BY <1>5
      <3>2. hps = 0 \/ hps > 0
        BY <1>5
      <3> QED
        BY <1>1, <3>1, <3>2, Zenon DEF HpsInv
    <2>2. CASE hps < Fields
      <3>1. timing' = [timing EXCEPT ![hps + 1] = 0] /\ hps + 1 \in 1..Fields
        BY <1>5, <2>2
      <3> QED
        BY <1>5, <2>1, <3>1
    <2>3. CASE ~(hps < Fields)
      BY <1>5, <2>1, <2>3
    <2> QED
      BY <2>2, <2>3
  <1>8. VioType'
    <2>1. lowlat' \in BOOLEAN
      <3>1. lowlat' \in BOOLEAN \/ lowlat' \in {lowlat}
        BY Zenon
      <3> QED
        BY <1>5, <3>1, Zenon
    <2>2. hps' \in 0..(Fields + Settings - 2)
      BY <1>5, <1>6
    <2> QED
      BY <1>1, <1>2, <1>4, <1>7, <2>1, <2>2, Zenon DEF VioType, PllType
  <1>9. HpsInv'
    <2> SUFFICES ASSUME hps' > 0 PROVE HpsInv'
      BY Zenon DEF HpsInv
    <2>1. hps' = hps + 1 /\ (hps' > 1 => hps >= 1)
      BY <1>5, <1>6
    <2>2. PICK n : n = hps + 1
      OBVIOUS
    <2>3. hps' = n /\ \A f \in 1..Fields : f <= n => timing'[f] = 0
      BY <1>7, <2>1, <2>2, Zenon
    <2>4. ~hit' => \A i \in Values : i < n - Fields + M => Written(i, 0)'
      <3>1. \A i \in Values : i < n - Fields + M => i < hps + 1 - Fields + M
        BY <1>5, <2>2, Numbers
      <3> QED
        BY <1>4, <3>1, Zenon
    <2> QED
      BY <1>4, <2>1, <2>3, <2>4, Zenon DEF HpsInv, M
  <1>10. ShownInv'
    BY <1>1, <1>2, Zenon DEF ShownInv
  <1>11. MadeInv'
    <2> SUFFICES ASSUME call = "hdmi" PROVE Found(Done, mode)'
      BY <1>2, Zenon DEF MadeInv
    <2>1. PICK p, m : p = Done /\ m = mode
      OBVIOUS
    <2>2. p \in Nat /\ ~(p >= 3)
      BY <1>1, <2>1, Zenon DEF MadeInv, Found
    <2>3. /\ ~(p >= 11 + Fields) /\ ~(p >= CfgFrom + 3) /\ p \notin 7..(CfgFrom + 2)
          /\ \A f \in 1..Fields : ~(p >= 10 + f)
      BY <2>2, Sizes
    <2>4. Found(p, m)'
      BY <2>2, <2>3, Zenon DEF Found, CfgFrom, PllFrom
    <2>5. p = Done' /\ m = mode'
      BY <1>2, <1>3, <2>1
    <2> QED
      BY <2>4, <2>5, Zenon DEF Found, CfgFrom, PllFrom
  <1>12. CoherentInv'
    <2> SUFFICES ASSUME ~hit', ~Middle' PROVE \E k \in 0..Modes : Settled(k)'
      BY <1>4, Zenon DEF CoherentInv
    <2>1. ~(hps' > 0)
      BY <1>2 DEF Middle
    <2>2. hps = Fields + Settings - 2 /\ hps >= 1
      BY <1>5, <1>6, <2>1
    <2>3. /\ \A f \in 1..Fields : f <= hps + 1
          /\ \A i \in Values : i < hps + 1 - Fields + M
      BY <1>5, <2>2, Numbers
    <2>4. \A i \in Values : Written(i, 0)'
      BY <1>4, <2>3, Zenon
    <2>5. \A f \in 1..Fields : timing'[f] = 0
      BY <1>7, <2>3, Zenon
    <2>6. adj'.m = 0 /\ adj'.k = 0 /\ \A i \in Values : settings'[i] = 0
      BY <2>4, Numbers, Zenon DEF Written
    <2>7. adj'.st \notin {"M", "K"}
      <3>1. adj'.st = "idle"
        BY <1>4, <2>2, Zenon
      <3> QED
        BY <3>1
    <2>8. Settled(0)'
      BY <2>5, <2>6, <2>7, Zenon DEF Settled, Timed, Held, Whole, Tuned, Values, M, K
    <2> QED
      BY <2>8, Numbers, Zenon
  <1>13. Started
    BY <1>4 DEF Started
  <1> QED
    BY <1>3, <1>8, <1>9, <1>10, <1>11, <1>12, <1>13, Zenon DEF VioInv

LEMMA HpsInvStep == ASSUME VioInv, Hps PROVE VioInv' /\ Started
  <1>1. CASE HpsWord
    <2>1. OtherSide
      BY <1>1, HpsWordStep, Zenon DEF Hps
    <2> QED
      BY <2>1, OtherSideInv, Zenon
  <1>2. CASE HpsMode /\ Heeds
    BY <1>2, HpsHeededInv, Zenon DEF Hps, HpsMode, Heeds
  <1>3. CASE HpsMode /\ ~Heeds
    <2>1. /\ vio_override /\ hps' = 0 /\ UNCHANGED <<timing, lowlat, pllVars>>
          /\ UNCHANGED <<todo, port, vio_override, custom>> /\ mainVars' = mainVars
      BY <1>3, Zenon DEF Hps, HpsMode, Heeds, Alone
    <2>2. PortAlone /\ TimeAlone /\ video_mode_desc' = video_mode_desc
      BY <2>1 DEF PortAlone, TimeAlone, mainVars
    <2>3. PllAlone /\ hit' = hit /\ running' = running
      BY <2>1 DEF pllVars, coreVars, PllAlone
    <2>4. PllType' /\ hit' \in BOOLEAN /\ cfg_set' \in BOOLEAN /\ cfg_got' \in BOOLEAN
      BY <2>3 DEF VioInv, VioType, PllType, PllAlone
    <2>5. OtherSide
      BY <2>1, <2>2, <2>3, <2>4, Zenon DEF OtherSide
    <2> QED
      BY <2>5, OtherSideInv, Zenon
  <1> QED
    BY <1>1, <1>2, <1>3, Zenon DEF Hps

LEMMA ResetCoreInv == ASSUME VioInv, ResetCore PROVE VioInv' /\ Started
  <1>1. VioType /\ HpsInv /\ CoherentInv
    BY Zenon DEF VioInv
  <1>2. PICK framework \in BOOLEAN : ResetPort(framework)
    BY DEF ResetCore
  <1>3. /\ todo' = <<>> /\ ~vio_has_cmd' /\ (framework => hps = 0) /\ call' # "hdmi"
        /\ vio_override' = (vio_override /\ ~framework) /\ video_mode_desc' = 0 /\ mode' = mode
        /\ UNCHANGED <<timing, lowlat, cfg_set, cfg_got, running, hps>>
        /\ hit' = (hit \/ Middle \/ (framework /\ settings # Unchanged))
    BY <1>2 DEF ResetPort, Closed, ResetCore
  <1>4. ~framework => settings' = settings /\ adj' = adj
    BY <1>2 DEF ResetPort
  <1>5. framework => settings' = Unchanged /\ adj' = [adj EXCEPT !.st = "idle", !.modo = FALSE]
    BY <1>2, Zenon DEF ResetPort
  <1>6. PllType /\ Unchanged \in [Values -> Int]
    BY <1>1 DEF VioType, PllType, Unchanged, Unwritten
  <1>7. framework => /\ adj' \in AnyAdj /\ adj'.m = adj.m /\ adj'.k = adj.k /\ adj'.st = "idle"
    BY <1>5, <1>6, Zenon DEF PllType, AnyAdj
  <1>8. PllType'
    BY <1>4, <1>5, <1>6, <1>7 DEF PllType
  <1>9. hit' \in BOOLEAN /\ vio_override' \in BOOLEAN /\ (~hit' => ~hit /\ ~Middle /\ (framework => settings = Unchanged))
    BY <1>3, Zenon
  <1>10. VioType'
    <2>1. <<>> \in Seq(AnyWord)
      OBVIOUS
    <2>2. /\ timing' = timing /\ lowlat' = lowlat /\ cfg_set' = cfg_set /\ cfg_got' = cfg_got /\ hps' = hps
      BY <1>3
    <2> QED
      BY <1>1, <1>3, <1>8, <1>9, <2>1, <2>2, Zenon DEF VioType, PllType
  <1>11. HpsInv'
    <2>1. CASE framework
      BY <1>3, <2>1 DEF HpsInv
    <2>2. CASE ~framework
      <3>1. /\ timing' = timing /\ cfg_set' = cfg_set /\ cfg_got' = cfg_got /\ hps' = hps
            /\ settings' = settings /\ adj' = adj
        BY <1>3, <1>4, <2>2
      <3>2. vio_override' <=> vio_override
        BY <1>3, <2>2, Zenon
      <3>3. ~hit' => ~hit
        BY <1>9, Zenon
      <3> QED
        BY <1>1, <3>1, <3>2, <3>3, Zenon DEF HpsInv, Written, Values, M, K
    <2> QED
      BY <2>1, <2>2
  <1>12. PortInv' /\ MadeInv' /\ ShownInv'
    BY <1>3, Zenon DEF PortInv, MadeInv, ShownInv
  <1>13. CoherentInv'
    <2> SUFFICES ASSUME ~hit' PROVE \E k \in 0..Modes : Settled(k)'
      BY Zenon DEF CoherentInv
    <2>1. PICK k \in 0..Modes : Settled(k)
      BY <1>1, <1>9, Zenon DEF CoherentInv
    <2>2. settings' = settings /\ running' = running /\ timing' = timing
      BY <1>3, <1>4, <1>5, <1>9
    <2>3. Tuned(k)'
      <3>1. CASE framework
        <4>1. adj'.m = adj.m /\ adj'.k = adj.k /\ adj'.st \notin {"M", "K"}
          BY <1>7, <3>1
        <4> QED
          BY <2>1, <4>1, Zenon DEF Tuned, Settled
      <3>2. CASE ~framework
        BY <1>4, <2>1, <3>2, Zenon DEF Tuned, Settled
      <3> QED
        BY <3>1, <3>2
    <2> QED
      BY <2>1, <2>2, <2>3, Zenon DEF Settled, Timed, Held, Whole
  <1>14. Started
    BY <1>3 DEF Started
  <1> QED
    BY <1>10, <1>11, <1>12, <1>13, <1>14, Zenon DEF VioInv

LEMMA VioInitInv == HdmiInit => VioInv
  <1> SUFFICES ASSUME HdmiInit PROVE VioInv
    OBVIOUS
  <1>1. /\ todo = <<>> /\ ~vio_has_cmd /\ vio_override = FALSE /\ lowlat = FALSE /\ hit = FALSE
        /\ cfg_set = FALSE /\ cfg_got = FALSE /\ hps = 0 /\ mode = 0 /\ video_mode_desc = 0
        /\ call # "hdmi"
    BY DEF HdmiInit, VioInit
  <1>2. /\ timing = [f \in 1..Fields |-> 0] /\ settings = Unchanged /\ running = [i \in Values |-> 0]
        /\ adj = [st |-> "idle", data |-> 0, m |-> 0, k |-> 0, modo |-> FALSE]
    BY Zenon DEF HdmiInit, VioInit
  <1>3. timing \in [1..Fields -> Nat] /\ settings \in [Values -> Int] /\ adj \in AnyAdj
    BY <1>2 DEF Unchanged, Unwritten, AnyAdj
  <1>4. VioType
    <2>1. todo \in Seq(AnyWord)
      BY <1>1
    <2>2. hps \in 0..(Fields + Settings - 2) /\ mode \in 0..Modes
      BY <1>1, Sizes, Numbers
    <2>3. /\ vio_override \in BOOLEAN /\ lowlat \in BOOLEAN /\ hit \in BOOLEAN
          /\ cfg_set \in BOOLEAN /\ cfg_got \in BOOLEAN
      BY <1>1, Zenon
    <2> QED
      BY <1>3, <2>1, <2>2, <2>3, Zenon DEF VioType
  <1>5. PortInv /\ MadeInv /\ HpsInv /\ ShownInv
    BY <1>1 DEF PortInv, MadeInv, HpsInv, ShownInv
  <1>6. Settled(0)
    <2>1. Timed(0) /\ Held(0)
      BY <1>2 DEF Timed, Held, Whole, Unchanged
    <2>2. Tuned(0)
      BY <1>2 DEF Tuned
    <2> QED
      BY <2>1, <2>2 DEF Settled
  <1> QED
    BY <1>4, <1>5, <1>6, Numbers, Zenon DEF VioInv, CoherentInv

LEMMA VioStep == VioInv /\ [HdmiNext]_hdmiVars => VioInv' /\ Started
  <1> SUFFICES ASSUME VioInv, [HdmiNext]_hdmiVars PROVE VioInv' /\ Started
    OBVIOUS
  <1>1. CASE PixelSys \/ PixelRef \/ Booted \/ UNCHANGED hdmiVars
    BY <1>1, ApartSteps, OtherSideInv, Zenon
  <1>2. CASE NextFrame
    BY <1>2, NextFrameStep, OtherSideInv, Zenon
  <1>3. CASE PllClock
    BY <1>3, PllClockStep, OtherSideInv, Zenon
  <1>4. CASE Adjust
    BY <1>4, AdjustStep, OtherSideInv, Zenon
  <1>5. CASE Hps
    BY <1>5, HpsInvStep, Zenon
  <1>6. CASE SetHdmi
    BY <1>6, SetHdmiInv, Zenon
  <1>7. CASE MainBus
    BY <1>7, MainBusInv, Zenon
  <1>8. CASE Applied
    BY <1>8, AppliedInv, Zenon
  <1>9. CASE ResetCore
    BY <1>9, ResetCoreInv, Zenon
  <1> QED
    BY <1>1, <1>2, <1>3, <1>4, <1>5, <1>6, <1>7, <1>8, <1>9, Zenon DEF HdmiNext

LEMMA HdmiInv == HdmiSpec => []VioInv
  <1>1. VioInv /\ [HdmiNext]_hdmiVars => VioInv'
    BY VioStep
  <1> QED
    BY <1>1, VioInitInv, PTL DEF HdmiSpec

\* For every number of fields and of settings: while the menu names a mode, the HDMI
\* output has the timing of that mode, whole, and low latency, whatever the HPS sends
\* and whenever a reset comes (hdmi.c:193-208, sys_top.v:380, 419, 544, main.c:250, 550).
THEOREM ShownStays == HdmiSpec => []ShownHolds
  <1>1. VioInv => ShownHolds
    BY Zenon DEF VioInv, ShownInv, ShownHolds
  <1> QED
    BY <1>1, HdmiInv, PTL

\* For every number of fields and of settings: a reconfiguration of the HDMI clock,
\* whether the firmware, a frame, the HPS or the adjuster starts it, has all the
\* parameters of one mode, the one that the timing has; unless, while they were
\* written, a word of the HPS, a reset or the adjuster came in between or the core was
\* busy (hdmi.c:193-212, sys_top.v:414-417, 556-566, 1107-1140, pll_hdmi_adj.vhd:243-425).
THEOREM HdmiClockWhole == HdmiSpec => HdmiStartHasAll
  <1>1. VioInv /\ [HdmiNext]_hdmiVars
        => [running' # running =>
              hit' \/ \E k \in 0..Modes : Whole(running', k) /\ Timed(k)]_hdmiVars
    BY VioStep DEF Started
  <1> QED
    BY <1>1, HdmiInv, PTL DEF HdmiSpec, HdmiStartHasAll
=============================================================================
