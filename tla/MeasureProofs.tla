--------------------------- MODULE MeasureProofs ----------------------------
(***************************************************************************)
(* From the interrupt of a measurement to its statistics.                  *)
(*                                                                         *)
(* First the interrupt controller: its invariants, and that it implements  *)
(* IrqSpec, for any number of source changes.  Then the statistics: the    *)
(* lines of Stats are those of the recent samples, for every size of the   *)
(* ring and every sequence of samples.                                     *)
(***************************************************************************)
EXTENDS Irq, Stats, FiniteSetTheorems, TLAPS

----------------------------------------------------------------------------
(* The interrupt controller. *)

\* The multiplexers give a set of lines, and Highest picks from a set of lines.
LEMMA HighestLine ==
  ASSUME NEW S \in SUBSET Lines, S # {}
  PROVE  /\ Highest(S) \in S
         /\ \A j \in S : j <= Highest(S)
<1>1. \E i \in S : \A j \in S : j <= i
  <2>1. S \subseteq {1, 2, 3}
    BY DEF Lines
  <2>2. CASE 3 \in S
    BY <2>1, <2>2
  <2>3. CASE 3 \notin S /\ 2 \in S
    BY <2>1, <2>3
  <2>4. CASE 3 \notin S /\ 2 \notin S
    <3>1. S = {1}
      BY <2>1, <2>4, Zenon
    <3> QED
      BY <3>1
  <2> QED
    BY <2>2, <2>3, <2>4
<1> QED
  BY <1>1 DEF Highest

\* Init establishes the invariant (reset branch, system.sv:205-208).
LEMMA InvInit == Init => IInv
BY EdgesAssumption DEF Init, IInv, TypeOK, AckMatchesVector, PresentedIsFlagged, BoundedInversion,
       NextInTurn, EnteringIdle, Unrouted, Nibbles, Lines, Sources

\* What Clk computes has the type of the register it is assigned to, and every
\* presented line is a flagged one.
LEMMA ClkValues ==
  ASSUME IInv
  PROVE  /\ Presented \in 0..3 /\ Acknowledged \in 0..3
         /\ intp \subseteq Lines /\ Rising \subseteq Lines /\ Flags \subseteq Lines
         /\ Presented # 0 => Presented \in irq_flagged /\ cpu # "ack"
         /\ irq_level # 0 /\ cpu # "ack" => Presented = irq_level
         /\ irq_level = 0 /\ Presented # 0 => \A j \in irq_flagged : j <= Presented
<1>1. /\ irq_level \in 0..3 /\ irq_flagged \in SUBSET Lines
      /\ irq_level # 0 => irq_level \in irq_flagged
  BY DEF IInv, TypeOK, PresentedIsFlagged
<1>2. Highest(irq_flagged) # 0 => irq_flagged # {}
  BY DEF Highest
<1>3. Highest(irq_flagged) \in 0..3
  <2>1. CASE irq_flagged = {}
    BY <2>1 DEF Highest
  <2>2. CASE irq_flagged # {}
    <3>1. Highest(irq_flagged) \in irq_flagged
      BY <1>1, <2>2, HighestLine
    <3>2. irq_flagged \subseteq Lines
      BY <1>1
    <3>3. Highest(irq_flagged) \in Lines
      BY <3>1, <3>2
    <3> QED
      BY <3>3 DEF Lines
  <2> QED
    BY <2>1, <2>2
<1>4. intp \subseteq Lines /\ Rising \subseteq Lines /\ Flags \subseteq Lines
  BY <1>1 DEF intp, Rising, Flags
<1>5. Presented \in 0..3 /\ Acknowledged \in 0..3
  BY <1>1, <1>3 DEF Presented, Acknowledged
<1>6. Presented # 0 => Presented \in irq_flagged /\ cpu # "ack"
  BY <1>1, <1>2, HighestLine DEF Presented
<1>7. irq_level # 0 /\ cpu # "ack" => Presented = irq_level
  BY DEF Presented
<1>8. irq_level = 0 /\ Presented # 0 => \A j \in irq_flagged : j <= Presented
  BY <1>1, <1>2, HighestLine DEF Presented
<1> QED
  BY <1>4, <1>5, <1>6, <1>7, <1>8

\* A clk edge keeps the invariant (system.sv:204-224).
LEMMA ClkStep ==
  ASSUME IInv, Clk
  PROVE  IInv'
<1> USE DEF Clk, Vpa
<1>0. /\ irq_level \in 0..3 /\ irq_flagged \subseteq Lines /\ passed \in [Lines -> Nat]
      /\ \A i \in Lines : passed[i] <= 1
  BY DEF IInv, TypeOK, BoundedInversion
<1>1. passed' \in [Lines -> Nat]
  BY <1>0
<1>2. TypeOK'
  BY <1>1, ClkValues DEF IInv, TypeOK, cpuVars
<1>3. AckMatchesVector'
  <2>1. CASE cpu = "ack"
    BY <2>1 DEF IInv, AckMatchesVector, Presented, cpuVars
  <2>2. CASE cpu = "enter"
    <3>1. cpu_vpa_n' = 1 /\ vector' = vector
      BY <2>2 DEF cpuVars
    <3>2. irq_level = vector /\ vector # 0
      BY <2>2 DEF IInv, AckMatchesVector, EnteringIdle
    <3> QED
      BY <2>2, <3>1, <3>2, ClkValues DEF AckMatchesVector
  <2>3. CASE cpu = "run"
    BY <2>3 DEF AckMatchesVector, cpuVars
  <2> QED
    BY <2>1, <2>2, <2>3 DEF IInv, TypeOK
<1>6. EnteringIdle'
  BY DEF IInv, EnteringIdle, cpuVars
<1>4. PresentedIsFlagged'
  <2>1. Presented # 0 => Acknowledged = 0
    BY ClkValues DEF Acknowledged
  <2> QED
    BY <2>1, ClkValues, <1>0 DEF PresentedIsFlagged, Flags, Lines
<1>5. BoundedInversion' /\ NextInTurn'
  <2> SUFFICES ASSUME NEW i \in Lines
               PROVE  /\ passed'[i] <= 1
                      /\ passed'[i] # 0 => i \in irq_flagged' /\ (irq_level' = 0 \/ irq_level' >= i)
    BY DEF BoundedInversion, NextInTurn
  <2>1. /\ passed[i] \in Nat /\ passed[i] <= 1 /\ i \in Nat
        /\ passed[i] # 0 => i \in irq_flagged /\ (irq_level = 0 \/ irq_level >= i)
    BY <1>0 DEF IInv, NextInTurn, Lines
  <2>2. passed'[i] = IF i \notin irq_flagged \/ i = Acknowledged THEN 0
                     ELSE IF Acknowledged \in 1..(i - 1) THEN passed[i] + 1
                     ELSE passed[i]
    OBVIOUS
  <2>3. Acknowledged \in 0..3 /\ (Acknowledged # 0 => Acknowledged = irq_level /\ cpu = "ack")
    BY ClkValues DEF Acknowledged
  <2>4. passed'[i] <= 1
    BY <2>1, <2>2, <2>3
  <2>5. ASSUME passed'[i] # 0
        PROVE  i \in irq_flagged' /\ (irq_level' = 0 \/ irq_level' >= i)
    <3>1. i \in irq_flagged /\ i # Acknowledged
      BY <2>2, <2>5
    <3>2. i \in irq_flagged'
      BY <3>1 DEF Flags
    <3>3. CASE cpu = "ack"
      BY <3>2, <3>3 DEF Presented
    <3>4. CASE cpu # "ack"
      <4>1. Acknowledged = 0 /\ passed[i] # 0
        BY <2>2, <2>5, <3>4 DEF Acknowledged
      <4>2. CASE irq_level # 0
        BY <3>2, <3>4, <4>1, <4>2, <2>1, ClkValues, SMTT(30)
      <4>3. CASE irq_level = 0
        BY <3>1, <3>2, <4>3, ClkValues
      <4> QED
        BY <4>2, <4>3
    <3> QED
      BY <3>3, <3>4
  <2> QED
    BY <2>4, <2>5
<1> QED
  BY <1>2, <1>3, <1>4, <1>5, <1>6 DEF IInv

\* So does every other step: the CPU, its code and the sources.
LEMMA InvStep == IInv /\ [Next]_vars => IInv'
<1> SUFFICES ASSUME IInv, [Next]_vars
             PROVE  IInv'
  OBVIOUS
<1> USE DEF IInv, TypeOK, AckMatchesVector, PresentedIsFlagged, BoundedInversion, NextInTurn,
           EnteringIdle
<1>1. CASE Clk
  BY <1>1, ClkStep
<1>2. CASE Recognize
  BY <1>2 DEF Recognize, hwVars
<1>3. CASE BeginAck
  BY <1>3 DEF BeginAck, hwVars
<1>4. CASE EndAck
  <2>1. mask' \in {0, 2, 4, 6, 7}
    BY <1>4 DEF EndAck
  <2> QED
    BY <1>4, <2>1 DEF EndAck, hwVars
<1>5. CASE \E m \in {0, 2, 4, 6, 7} : SetMask(m)
  BY <1>5 DEF SetMask, hwVars
<1>6. CASE Route
  <2>1. \A f \in Sources : Routing(f) \in [Lines -> Nibbles]
    BY DEF Routing, Nibbles, Lines, Sources
  <2>2. int_ctrl' \in [Lines -> Nibbles]
    BY <1>6, <2>1 DEF Route, Sources
  <2> QED
    BY <1>6, <2>2 DEF Route, hwVars, cpuVars
<1>7. CASE \E s \in Sources : Change(s)
  <2>1. high' \subseteq Sources /\ edges' \in 0..MaxEdges
    BY <1>7, EdgesAssumption DEF Change
  <2> QED
    BY <1>7, <2>1 DEF Change, hwVars, cpuVars
<1>8. CASE UNCHANGED vars
  BY <1>8 DEF vars, hwVars, cpuVars
<1> QED
  BY <1>1, <1>2, <1>3, <1>4, <1>5, <1>6, <1>7, <1>8 DEF Next

\* The invariant holds for ever.
THEOREM Invariance == Spec => []IInv
BY InvInit, InvStep, PTL DEF Spec

\* The acknowledge cycle clears the flag of the interrupt that the CPU takes
\* (system.sv:210-212).
THEOREM AckRight == Spec => []AckMatchesVector
<1>1. IInv => AckMatchesVector
  BY DEF IInv
<1> QED
  BY <1>1, Invariance, PTL

\* A waiting line is passed over for a lower one at most once
\* (system.sv:213-216).
THEOREM Inversion == Spec => []BoundedInversion
<1>1. IInv => BoundedInversion
  BY DEF IInv
<1> QED
  BY <1>1, Invariance, PTL

\* No edge is lost and no interrupt is invented: the controller implements the
\* abstract one (system.sv:204-224).
THEOREM Implements == Spec => ImplementsIrqSpec
<1>1. Init => Abstract!Init
  BY DEF Init, Abstract!Init
<1>2. IInv /\ [Next]_vars => [Abstract!Next]_(Abstract!vars)
  <2> SUFFICES ASSUME IInv, [Next]_vars
               PROVE  [Abstract!Next]_(Abstract!vars)
    OBVIOUS
  <2>1. CASE Clk
    <3>1. Rising \in SUBSET Lines
      BY ClkValues
    <3>2. Acknowledged \in irq_flagged \union {0}
      BY DEF Acknowledged, IInv, PresentedIsFlagged
    <3> QED
      BY <2>1, <3>1, <3>2 DEF Clk, Vpa, Flags, Abstract!Next
  <2>2. CASE UNCHANGED hwVars
    BY <2>2 DEF hwVars, Abstract!vars
  <2> QED
    BY <2>1, <2>2 DEF Next, vars, Recognize, BeginAck, EndAck, SetMask, Route, Change
<1> QED
  BY <1>1, <1>2, Invariance, PTL DEF Spec, ImplementsIrqSpec, Abstract!Spec

----------------------------------------------------------------------------
(* Induction, from the order of the natural numbers. *)

LEMMA Minimal ==
    ASSUME NEW R, IsWellFoundedOn(R, Nat), NEW T, T \subseteq Nat, T # {}
    PROVE  \E x \in T : \A y \in T : <<y, x>> \notin R
  BY WFMin, Zenon

LEMMA Below == \A a, b \in Nat : a < b => <<a, b>> \in OpToRel(<, Nat)
  BY Zenon DEF OpToRel

LEMMA Least ==
    ASSUME NEW T, T \subseteq Nat, T # {}
    PROVE  \E x \in T : \A y \in T : x <= y
  <1>1. \E x \in T : \A y \in T : <<y, x>> \notin OpToRel(<, Nat)
    BY Minimal, NatLessThanWellFounded, Zenon
  <1>2. ASSUME NEW x \in T, \A y \in T : <<y, x>> \notin OpToRel(<, Nat)
        PROVE  \A y \in T : ~(y < x)
    BY <1>2, Below, Zenon
  <1>3. \E x \in T : \A y \in T : ~(y < x)
    BY <1>1, <1>2, Zenon
  <1> QED
    BY <1>3

\* A set with 0 that has the successor of each of its numbers has all numbers.
LEMMA Inductive ==
    ASSUME NEW S, 0 \in S, \A n \in Nat : n \in S => n + 1 \in S
    PROVE  \A n \in Nat : n \in S
  <1> DEFINE T == Nat \ S
  <1> SUFFICES ASSUME T # {} PROVE FALSE
    OBVIOUS
  <1>1. \E x \in T : \A y \in T : x <= y
    <2>1. T \subseteq Nat
      OBVIOUS
    <2> QED
      BY <2>1, Least, Zenon
  <1>2. PICK x \in T : \A y \in T : x <= y
    BY <1>1
  <1>3. x \in Nat /\ x # 0 /\ x - 1 \in Nat /\ x - 1 + 1 = x
    OBVIOUS
  <1>4. x - 1 \in S
    BY <1>2, <1>3
  <1> QED
    BY <1>3, <1>4

----------------------------------------------------------------------------
(* The sum over a finite set, as MapThenSumSet computes it. *)

Chosen(s) == CHOOSE x \in s : TRUE

\* The values of the after subsets, from those in it.
More(it, f, S) ==
    [s \in SUBSET S |-> IF s = {} THEN 0 ELSE f[Chosen(s)] + it[s \ {Chosen(s)}]]

Iterated(f, S) == CHOOSE it : it = More(it, f, S)

Sum(f, S) == Iterated(f, S)[S]

LEMMA SumIs == ASSUME NEW f, NEW S PROVE MapThenSumSet(LAMBDA i : f[i], S) = Sum(f, S)
  BY DEF MapThenSumSet, MapThenFoldSet, Sum, Iterated, More, Chosen

\* it is right for the subsets of S of up to n elements.
Right(it, f, S, n) ==
    /\ it \in [SUBSET S -> Nat]
    /\ \A s \in SUBSET S : Cardinality(s) <= n => it[s] = More(it, f, S)[s]

LEMMA ChosenIn == ASSUME NEW s, s # {} PROVE Chosen(s) \in s
  BY Zenon DEF Chosen

\* A subset of a finite set, with and without the element that is chosen first.
LEMMA Without ==
    ASSUME NEW S, IsFiniteSet(S), NEW s \in SUBSET S, NEW x \in s
    PROVE  /\ s \ {x} \in SUBSET S /\ IsFiniteSet(s) /\ IsFiniteSet(s \ {x})
           /\ Cardinality(s) \in Nat /\ Cardinality(s \ {x}) \in Nat
           /\ Cardinality(s) = Cardinality(s \ {x}) + 1
  <1>1. IsFiniteSet(s)
    BY FS_Subset, Zenon
  <1>2. IsFiniteSet(s \ {x}) /\ Cardinality(s \ {x}) = Cardinality(s) - 1
    BY <1>1, FS_RemoveElement
  <1>3. Cardinality(s) \in Nat /\ Cardinality(s \ {x}) \in Nat
    BY <1>1, <1>2, FS_CardinalityType, Zenon
  <1> QED
    BY <1>1, <1>2, <1>3

LEMMA MoreType ==
    ASSUME NEW S, NEW f, \A x \in S : f[x] \in Nat, NEW it \in [SUBSET S -> Nat]
    PROVE  More(it, f, S) \in [SUBSET S -> Nat]
  <1>1. ASSUME NEW s \in SUBSET S, s # {} PROVE f[Chosen(s)] + it[s \ {Chosen(s)}] \in Nat
    <2>1. Chosen(s) \in S /\ s \ {Chosen(s)} \in SUBSET S
      BY <1>1, ChosenIn
    <2> QED
      BY <2>1
  <1> QED
    BY <1>1 DEF More

LEMMA SumDefined ==
    ASSUME NEW S, IsFiniteSet(S), NEW f, \A x \in S : f[x] \in Nat
    PROVE  \E it \in [SUBSET S -> Nat] : it = More(it, f, S)
  <1> DEFINE T == {n \in Nat : \E it : Right(it, f, S, n)}
  <1>1. 0 \in T
    <2> DEFINE it == [s \in SUBSET S |-> 0]
    <2>1. \A s \in SUBSET S : Cardinality(s) <= 0 => s = {}
      <3> TAKE s \in SUBSET S
      <3>1. IsFiniteSet(s) /\ Cardinality(s) \in Nat
        BY FS_Subset, FS_CardinalityType
      <3> QED
        BY <3>1, FS_EmptySet
    <2>2. Right(it, f, S, 0)
      BY <2>1 DEF Right, More
    <2> QED
      BY <2>2
  <1>2. ASSUME NEW n \in Nat, n \in T PROVE n + 1 \in T
    <2>1. PICK it : Right(it, f, S, n)
      BY <1>2
    <2>2. it \in [SUBSET S -> Nat]
      BY <2>1 DEF Right
    <2> DEFINE after == More(it, f, S)
    <2>3. after \in [SUBSET S -> Nat]
      BY <2>2, MoreType
    <2>4. ASSUME NEW s \in SUBSET S, Cardinality(s) <= n + 1
          PROVE  after[s] = More(after, f, S)[s]
      <3>1. CASE s = {}
        BY <3>1 DEF More
      <3>2. CASE s # {}
        <4>1. PICK x : x = Chosen(s)
          OBVIOUS
        <4>2. x \in s
          BY <3>2, <4>1, ChosenIn
        <4>3. s \ {x} \in SUBSET S /\ Cardinality(s \ {x}) <= n
          <5>1. s \ {x} \in SUBSET S
            OBVIOUS
          <5>2. /\ Cardinality(s) \in Nat /\ Cardinality(s \ {x}) \in Nat
                /\ Cardinality(s) = Cardinality(s \ {x}) + 1
            BY <4>2, Without, Zenon
          <5> QED
            BY <2>4, <5>1, <5>2
        <4>4. it[s \ {x}] = after[s \ {x}]
          BY <2>1, <4>3, Zenon DEF Right
        <4>5. after[s] = f[x] + it[s \ {x}]
          BY <3>2, <4>1 DEF More
        <4>6. More(after, f, S)[s] = f[x] + after[s \ {x}]
          BY <3>2, <4>1 DEF More
        <4> QED
          BY <4>4, <4>5, <4>6, Zenon
      <3> QED
        BY <3>1, <3>2
    <2>5. Right(after, f, S, n + 1)
      <3> HIDE DEF after
      <3> QED
        BY <2>3, <2>4, Zenon DEF Right
    <2> QED
      BY <2>5
  <1>3. Cardinality(S) \in Nat
    BY FS_CardinalityType
  <1>4. Cardinality(S) \in T
    <2> HIDE DEF T
    <2> QED
      BY <1>1, <1>2, <1>3, Inductive
  <1>5. PICK it : Right(it, f, S, Cardinality(S))
    BY <1>4
  <1>6. it \in [SUBSET S -> Nat] /\ More(it, f, S) \in [SUBSET S -> Nat]
    BY <1>5, MoreType DEF Right
  <1>7. \A s \in SUBSET S : it[s] = More(it, f, S)[s]
    <2> TAKE s \in SUBSET S
    <2>1. Cardinality(s) <= Cardinality(S)
      BY FS_Subset
    <2> QED
      BY <1>5, <2>1, Zenon DEF Right
  <1> QED
    BY <1>6, <1>7

----------------------------------------------------------------------------

LEMMA IteratedIs ==
    ASSUME NEW S, IsFiniteSet(S), NEW f, \A x \in S : f[x] \in Nat
    PROVE  /\ Iterated(f, S) \in [SUBSET S -> Nat]
           /\ Iterated(f, S) = More(Iterated(f, S), f, S)
  <1>1. \E it : it = More(it, f, S)
    BY SumDefined, Zenon
  <1>2. PICK it : it = Iterated(f, S)
    OBVIOUS
  <1>3. it = More(it, f, S)
    BY <1>1, <1>2, Zenon DEF Iterated
  <1> DEFINE T == {n \in Nat : \A s \in SUBSET S : Cardinality(s) <= n => it[s] \in Nat}
  <1>4. ASSUME NEW s \in SUBSET S, s # {}
        PROVE  /\ Chosen(s) \in s /\ s \ {Chosen(s)} \in SUBSET S
               /\ it[s] = f[Chosen(s)] + it[s \ {Chosen(s)}]
    <2>1. it[s] = More(it, f, S)[s]
      BY <1>3, Zenon
    <2> QED
      BY <1>4, <2>1, ChosenIn DEF More
  <1>5. it[{}] = 0
    <2>1. it[{}] = More(it, f, S)[{}]
      BY <1>3, Zenon
    <2> QED
      BY <2>1 DEF More
  <1>6. 0 \in T
    <2> SUFFICES ASSUME NEW s \in SUBSET S, Cardinality(s) <= 0 PROVE it[s] \in Nat
      OBVIOUS
    <2>1. s = {}
      BY FS_Subset, FS_CardinalityType, FS_EmptySet
    <2> QED
      BY <1>5, <2>1
  <1>7. ASSUME NEW n \in Nat, n \in T PROVE n + 1 \in T
    <2> SUFFICES ASSUME NEW s \in SUBSET S, Cardinality(s) <= n + 1 PROVE it[s] \in Nat
      OBVIOUS
    <2>1. CASE s = {}
      BY <1>5, <2>1
    <2>2. CASE s # {}
      <3>1. PICK x \in s : s \ {x} \in SUBSET S /\ it[s] = f[x] + it[s \ {x}]
        BY <1>4, <2>2, Zenon
      <3>2. /\ Cardinality(s) \in Nat /\ Cardinality(s \ {x}) \in Nat
            /\ Cardinality(s) = Cardinality(s \ {x}) + 1
        BY <3>1, Without, ZenonT(30)
      <3>3. Cardinality(s \ {x}) <= n
        BY <3>2
      <3>4. it[s \ {x}] \in Nat
        BY <1>7, <3>1, <3>3
      <3> QED
        BY <3>1, <3>4
    <2> QED
      BY <2>1, <2>2
  <1>8. Cardinality(S) \in T
    <2> HIDE DEF T
    <2> QED
      BY <1>6, <1>7, Inductive, FS_CardinalityType
  <1>9. \A s \in SUBSET S : it[s] \in Nat
    BY <1>8, FS_Subset, Zenon
  <1> QED
    BY <1>2, <1>3, <1>9, Zenon DEF More

LEMMA SumEmpty == ASSUME NEW f PROVE Sum(f, {}) = 0
  <1>1. IsFiniteSet({})
    BY FS_EmptySet
  <1>2. Iterated(f, {}) = More(Iterated(f, {}), f, {})
    BY <1>1, IteratedIs, Zenon
  <1>3. Iterated(f, {})[{}] = More(Iterated(f, {}), f, {})[{}]
    BY <1>2, Zenon
  <1> QED
    BY <1>3 DEF Sum, More

LEMMA SumType ==
    ASSUME NEW S, IsFiniteSet(S), NEW f, \A x \in S : f[x] \in Nat
    PROVE  Sum(f, S) \in Nat
  BY IteratedIs, Zenon DEF Sum

LEMMA IteratedStep ==
    ASSUME NEW S, IsFiniteSet(S), NEW f, \A x \in S : f[x] \in Nat, NEW s \in SUBSET S, s # {}
    PROVE  Iterated(f, S)[s] = f[Chosen(s)] + Iterated(f, S)[s \ {Chosen(s)}]
  <1>1. Iterated(f, S) = More(Iterated(f, S), f, S)
    BY IteratedIs, Zenon
  <1>2. Iterated(f, S)[s] = More(Iterated(f, S), f, S)[s]
    BY <1>1, Zenon
  <1> QED
    BY <1>2 DEF More

LEMMA IteratedNone ==
    ASSUME NEW S, IsFiniteSet(S), NEW f, \A x \in S : f[x] \in Nat
    PROVE  Iterated(f, S)[{}] = 0
  <1>1. Iterated(f, S) = More(Iterated(f, S), f, S)
    BY IteratedIs, Zenon
  <1>2. Iterated(f, S)[{}] = More(Iterated(f, S), f, S)[{}]
    BY <1>1, Zenon
  <1> QED
    BY <1>2 DEF More

\* The values for the subsets of S are the sums over them.
LEMMA SumPart ==
    ASSUME NEW S, IsFiniteSet(S), NEW f, \A x \in S : f[x] \in Nat, NEW A \in SUBSET S
    PROVE  Iterated(f, S)[A] = Sum(f, A)
  <1> DEFINE T == {n \in Nat : \A s \in SUBSET A : Cardinality(s) <= n =>
                                   Iterated(f, A)[s] = Iterated(f, S)[s]}
  <1>1. IsFiniteSet(A) /\ \A x \in A : f[x] \in Nat
    BY FS_Subset
  <1>2. 0 \in T
    <2> SUFFICES ASSUME NEW s \in SUBSET A, Cardinality(s) <= 0
                 PROVE  Iterated(f, A)[s] = Iterated(f, S)[s]
      OBVIOUS
    <2>1. s = {}
      BY <1>1, FS_Subset, FS_CardinalityType, FS_EmptySet
    <2>2. Iterated(f, A)[{}] = 0
      BY <1>1, IteratedNone, Zenon
    <2>3. Iterated(f, S)[{}] = 0
      BY IteratedNone, Zenon
    <2> QED
      BY <2>1, <2>2, <2>3, Zenon
  <1>3. ASSUME NEW n \in Nat, n \in T PROVE n + 1 \in T
    <2> SUFFICES ASSUME NEW s \in SUBSET A, Cardinality(s) <= n + 1
                 PROVE  Iterated(f, A)[s] = Iterated(f, S)[s]
      OBVIOUS
    <2>1. CASE s = {}
      <3>1. Iterated(f, A)[{}] = 0
        BY <1>1, IteratedNone, Zenon
      <3>2. Iterated(f, S)[{}] = 0
        BY IteratedNone, Zenon
      <3> QED
        BY <2>1, <3>1, <3>2, Zenon
    <2>2. CASE s # {}
      <3>1. PICK x : x = Chosen(s)
        OBVIOUS
      <3>2. x \in s
        BY <2>2, <3>1, ChosenIn, Zenon
      <3>3. /\ Cardinality(s) \in Nat /\ Cardinality(s \ {x}) \in Nat
            /\ Cardinality(s) = Cardinality(s \ {x}) + 1
        BY <1>1, <3>2, Without, ZenonT(30)
      <3>4. Cardinality(s \ {x}) <= n /\ s \ {x} \in SUBSET A
        BY <3>3
      <3>5. Iterated(f, A)[s \ {x}] = Iterated(f, S)[s \ {x}]
        BY <1>3, <3>4, Zenon
      <3>6. Iterated(f, A)[s] = f[x] + Iterated(f, A)[s \ {x}]
        BY <1>1, <2>2, <3>1, IteratedStep, Zenon
      <3>7. s \in SUBSET S
        OBVIOUS
      <3>8. Iterated(f, S)[s] = f[x] + Iterated(f, S)[s \ {x}]
        BY <2>2, <3>1, <3>7, IteratedStep, Zenon
      <3> QED
        BY <3>5, <3>6, <3>8, Zenon
    <2> QED
      BY <2>1, <2>2, Zenon
  <1>4. Cardinality(A) \in T /\ Cardinality(A) \in Nat
    <2> HIDE DEF T
    <2> QED
      BY <1>1, <1>2, <1>3, Inductive, FS_CardinalityType
  <1>5. Cardinality(A) <= Cardinality(A)
    BY <1>4
  <1>6. Iterated(f, A)[A] = Iterated(f, S)[A]
    BY <1>4, <1>5, Zenon
  <1> QED
    BY <1>6, Zenon DEF Sum

LEMMA SumStep ==
    ASSUME NEW S, IsFiniteSet(S), NEW f, \A x \in S : f[x] \in Nat, S # {}
    PROVE  Sum(f, S) = f[Chosen(S)] + Sum(f, S \ {Chosen(S)})
  <1>1. S \in SUBSET S /\ S \ {Chosen(S)} \in SUBSET S
    OBVIOUS
  <1>2. Iterated(f, S)[S] = f[Chosen(S)] + Iterated(f, S)[S \ {Chosen(S)}]
    BY <1>1, IteratedStep, Zenon
  <1>3. Iterated(f, S)[S \ {Chosen(S)}] = Sum(f, S \ {Chosen(S)})
    BY <1>1, SumPart, Zenon
  <1> QED
    BY <1>2, <1>3, Zenon DEF Sum

\* The order of the terms does not matter: any of them may be taken first.
LEMMA SumWithout ==
    ASSUME NEW S, IsFiniteSet(S), NEW f, \A x \in S : f[x] \in Nat, NEW y \in S
    PROVE  Sum(f, S) = f[y] + Sum(f, S \ {y})
  <1> DEFINE T == {n \in Nat : \A s \in SUBSET S : Cardinality(s) <= n =>
                                   \A x \in s : Sum(f, s) = f[x] + Sum(f, s \ {x})}
  <1>1. 0 \in T
    <2> SUFFICES ASSUME NEW s \in SUBSET S, Cardinality(s) <= 0 PROVE s = {}
      OBVIOUS
    <2> QED
      BY FS_Subset, FS_CardinalityType, FS_EmptySet
  <1>2. ASSUME NEW n \in Nat, n \in T PROVE n + 1 \in T
    <2> SUFFICES ASSUME NEW s \in SUBSET S, Cardinality(s) <= n + 1, NEW x \in s
                 PROVE  Sum(f, s) = f[x] + Sum(f, s \ {x})
      OBVIOUS
    <2>1. PICK first : first = Chosen(s)
      OBVIOUS
    <2>2. first \in s
      BY <2>1, ChosenIn
    <2>3. IsFiniteSet(s) /\ \A z \in s : f[z] \in Nat
      BY FS_Subset
    <2>4. Sum(f, s) = f[first] + Sum(f, s \ {first})
      BY <2>1, <2>2, <2>3, SumStep, Zenon
    <2>5. CASE x = first
      BY <2>4, <2>5, Zenon
    <2>6. CASE x # first
      <3>1. /\ Cardinality(s) \in Nat /\ Cardinality(s \ {first}) \in Nat
            /\ Cardinality(s) = Cardinality(s \ {first}) + 1
        BY <2>2, Without, ZenonT(30)
      <3>2. /\ Cardinality(s) \in Nat /\ Cardinality(s \ {x}) \in Nat
            /\ Cardinality(s) = Cardinality(s \ {x}) + 1
        BY Without, ZenonT(30)
      <3>3. Cardinality(s \ {first}) <= n /\ Cardinality(s \ {x}) <= n
        BY <3>1, <3>2
      <3>4. s \ {first} \in SUBSET S /\ s \ {x} \in SUBSET S /\ x \in s \ {first} /\ first \in s \ {x}
        BY <2>2, <2>6
      <3>5. Sum(f, s \ {first}) = f[x] + Sum(f, (s \ {first}) \ {x})
        BY <1>2, <3>3, <3>4, Zenon
      <3>6. Sum(f, s \ {x}) = f[first] + Sum(f, (s \ {x}) \ {first})
        BY <1>2, <3>3, <3>4, Zenon
      <3>7. (s \ {first}) \ {x} = (s \ {x}) \ {first}
        OBVIOUS
      <3>8. PICK rest : rest = Sum(f, (s \ {first}) \ {x})
        OBVIOUS
      <3>9. rest \in Nat
        <4>1. IsFiniteSet((s \ {first}) \ {x}) /\ \A z \in (s \ {first}) \ {x} : f[z] \in Nat
          BY <2>3, FS_Subset
        <4> QED
          BY <3>8, <4>1, SumType, Zenon
      <3>10. f[first] \in Nat /\ f[x] \in Nat
        BY <2>2
      <3>11. Sum(f, s \ {first}) = f[x] + rest /\ Sum(f, s \ {x}) = f[first] + rest
        BY <3>5, <3>6, <3>7, <3>8, Zenon
      <3> QED
        BY <2>4, <3>9, <3>10, <3>11
    <2> QED
      BY <2>5, <2>6
  <1>3. Cardinality(S) \in T /\ Cardinality(S) \in Nat
    <2> HIDE DEF T
    <2> QED
      BY <1>1, <1>2, Inductive, FS_CardinalityType
  <1>4. Cardinality(S) <= Cardinality(S)
    BY <1>3
  <1> QED
    BY <1>3, <1>4, Zenon

Image(b, s) == {b[x] : x \in s}

\* b takes the terms of f to the same terms of g.
Renames(b, S, f, g) ==
    /\ \A x \in S : f[x] \in Nat /\ g[b[x]] = f[x]
    /\ \A x, y \in S : b[x] = b[y] => x = y

Terms(f, S) == {f[x] : x \in S}

LEMMA TermsRenamed ==
    ASSUME NEW S, NEW f, NEW g, NEW b, Renames(b, S, f, g)
    PROVE  Terms(g, Image(b, S)) = Terms(f, S)
  BY DEF Terms, Image, Renames

\* The same terms under other names have the same sum.
LEMMA SumRenamed ==
    ASSUME NEW S, IsFiniteSet(S), NEW f, NEW g, NEW b, Renames(b, S, f, g)
    PROVE  Sum(f, S) = Sum(g, Image(b, S))
  <1> /\ \A x \in S : f[x] \in Nat /\ g[b[x]] = f[x]
      /\ \A x, y \in S : b[x] = b[y] => x = y
    BY Zenon DEF Renames
  <1> DEFINE T == {n \in Nat : \A s \in SUBSET S : Cardinality(s) <= n =>
                       IsFiniteSet(Image(b, s)) /\ Sum(f, s) = Sum(g, Image(b, s))}
  <1>1. IsFiniteSet(Image(b, {})) /\ Sum(f, {}) = Sum(g, Image(b, {}))
    <2>1. Image(b, {}) = {}
      BY DEF Image
    <2> QED
      BY <2>1, SumEmpty, FS_EmptySet, Zenon
  <1>2. 0 \in T
    <2> SUFFICES ASSUME NEW s \in SUBSET S, Cardinality(s) <= 0 PROVE s = {}
      BY <1>1, Zenon
    <2> QED
      BY FS_Subset, FS_CardinalityType, FS_EmptySet
  <1>3. ASSUME NEW n \in Nat, n \in T PROVE n + 1 \in T
    <2> SUFFICES ASSUME NEW s \in SUBSET S, Cardinality(s) <= n + 1
                 PROVE  IsFiniteSet(Image(b, s)) /\ Sum(f, s) = Sum(g, Image(b, s))
      OBVIOUS
    <2>1. CASE s = {}
      BY <1>1, <2>1, Zenon
    <2>2. CASE s # {}
      <3>1. PICK x \in s : TRUE
        BY <2>2
      <3>2. /\ Cardinality(s) \in Nat /\ Cardinality(s \ {x}) \in Nat
            /\ Cardinality(s) = Cardinality(s \ {x}) + 1
        BY Without, ZenonT(30)
      <3>3. Cardinality(s \ {x}) <= n /\ s \ {x} \in SUBSET S
        BY <3>2
      <3>4. IsFiniteSet(Image(b, s \ {x})) /\ Sum(f, s \ {x}) = Sum(g, Image(b, s \ {x}))
        BY <1>3, <3>3, Zenon
      <3>5. /\ Image(b, s) = Image(b, s \ {x}) \union {b[x]} /\ b[x] \in Image(b, s)
            /\ Image(b, s) \ {b[x]} = Image(b, s \ {x})
        BY DEF Image
      <3>6. IsFiniteSet(Image(b, s))
        <4>1. IsFiniteSet(Image(b, s \ {x}) \union {b[x]})
          BY <3>4, FS_AddElement, Zenon
        <4> QED
          BY <3>5, <4>1, Zenon
      <3>7. \A z \in Image(b, s) : g[z] \in Nat
        BY DEF Image
      <3>8. Sum(g, Image(b, s)) = g[b[x]] + Sum(g, Image(b, s) \ {b[x]})
        BY <3>5, <3>6, <3>7, SumWithout, Zenon
      <3>9. IsFiniteSet(s) /\ \A z \in s : f[z] \in Nat
        BY FS_Subset
      <3>10. Sum(f, s) = f[x] + Sum(f, s \ {x})
        BY <3>9, SumWithout, Zenon
      <3>11. g[b[x]] = f[x]
        OBVIOUS
      <3> QED
        BY <3>4, <3>5, <3>6, <3>8, <3>10, <3>11, Zenon
    <2> QED
      BY <2>1, <2>2, Zenon
  <1>4. Cardinality(S) \in T /\ Cardinality(S) \in Nat
    <2> HIDE DEF T
    <2> QED
      BY <1>2, <1>3, Inductive, FS_CardinalityType
  <1>5. Cardinality(S) <= Cardinality(S)
    BY <1>4
  <1> QED
    BY <1>4, <1>5, Zenon

\* n terms between lo and hi.
LEMMA SumBetween ==
    ASSUME NEW S, IsFiniteSet(S), NEW f, \A x \in S : f[x] \in Nat,
           NEW lo \in Nat, NEW hi \in Nat, \A x \in S : lo <= f[x] /\ f[x] <= hi
    PROVE  lo * Cardinality(S) <= Sum(f, S) /\ Sum(f, S) <= hi * Cardinality(S)
  <1> DEFINE Between(s) == lo * Cardinality(s) <= Sum(f, s) /\ Sum(f, s) <= hi * Cardinality(s)
             T == {n \in Nat : \A s \in SUBSET S : Cardinality(s) <= n => Between(s)}
  <1>1. Between({})
    BY SumEmpty, FS_EmptySet
  <1>2. 0 \in T
    <2> SUFFICES ASSUME NEW s \in SUBSET S, Cardinality(s) <= 0 PROVE s = {}
      BY <1>1, Zenon
    <2> QED
      BY FS_Subset, FS_CardinalityType, FS_EmptySet
  <1>3. ASSUME NEW n \in Nat, n \in T PROVE n + 1 \in T
    <2> SUFFICES ASSUME NEW s \in SUBSET S, Cardinality(s) <= n + 1 PROVE Between(s)
      OBVIOUS
    <2>1. CASE s = {}
      BY <1>1, <2>1, Zenon
    <2>2. CASE s # {}
      <3>1. PICK x \in s : TRUE
        BY <2>2
      <3>2. PICK first : first = Cardinality(s \ {x})
        OBVIOUS
      <3>3. first \in Nat /\ Cardinality(s) = first + 1 /\ Cardinality(s) \in Nat
        BY <3>2, Without, ZenonT(30)
      <3>4. first <= n /\ s \ {x} \in SUBSET S
        BY <3>3
      <3>5. Between(s \ {x})
        BY <1>3, <3>2, <3>4, Zenon
      <3>6. IsFiniteSet(s) /\ \A z \in s : f[z] \in Nat
        BY FS_Subset
      <3>7. Sum(f, s) = f[x] + Sum(f, s \ {x})
        BY <3>6, SumWithout, Zenon
      <3>8. IsFiniteSet(s \ {x}) /\ \A z \in s \ {x} : f[z] \in Nat
        BY FS_Subset
      <3>9. PICK rest : rest = Sum(f, s \ {x})
        OBVIOUS
      <3>10. rest \in Nat
        BY <3>8, <3>9, SumType, Zenon
      <3>11. lo * first <= rest /\ rest <= hi * first
        BY <3>2, <3>5, <3>9, Zenon
      <3>12. f[x] \in Nat /\ lo <= f[x] /\ f[x] <= hi
        OBVIOUS
      <3>13. lo * (first + 1) = lo * first + lo /\ hi * (first + 1) = hi * first + hi
        BY <3>3
      <3>14. lo * first \in Nat /\ hi * first \in Nat
        BY <3>3
      <3>15. lo * (first + 1) <= f[x] + rest /\ f[x] + rest <= hi * (first + 1)
        BY <3>10, <3>11, <3>12, <3>13, <3>14
      <3> QED
        BY <3>3, <3>7, <3>9, <3>15, Zenon
    <2> QED
      BY <2>1, <2>2, Zenon
  <1>4. Cardinality(S) \in T /\ Cardinality(S) \in Nat
    <2> HIDE DEF T
    <2> QED
      BY <1>2, <1>3, Inductive, FS_CardinalityType
  <1>5. Cardinality(S) <= Cardinality(S)
    BY <1>4
  <1> QED
    BY <1>4, <1>5, Zenon

----------------------------------------------------------------------------
(* The least and the greatest of a set of natural numbers. *)

LEMMA MinIs ==
    ASSUME NEW S, S \subseteq Nat, S # {}
    PROVE  Min(S) \in S /\ \A y \in S : Min(S) <= y
  <1>1. \E x \in S : \A y \in S : x <= y
    BY Least, Zenon
  <1> QED
    BY <1>1, Zenon DEF Min

LEMMA MaxIs ==
    ASSUME NEW S, NEW n \in Nat, S \subseteq 0..n, S # {}
    PROVE  Max(S) \in S /\ \A y \in S : y <= Max(S)
  <1> DEFINE T == {n - x : x \in S}
  <1>1. T \subseteq Nat /\ T # {}
    <2>1. \A x \in S : n - x \in Nat
      OBVIOUS
    <2>2. \A z \in T : z \in Nat
      BY <2>1, Zenon
    <2>3. PICK x \in S : TRUE
      BY Zenon
    <2>4. n - x \in T
      BY Zenon
    <2> QED
      BY <2>2, <2>4, Zenon
  <1>2. \E z \in T : \A y \in T : z <= y
    <2> HIDE DEF T
    <2> QED
      BY <1>1, Least, Zenon
  <1>3. PICK x \in S : \A y \in T : n - x <= y
    BY <1>2
  <1>4. \A y \in S : x >= y
    <2> TAKE y \in S
    <2>1. n - x <= n - y
      BY <1>3
    <2> QED
      BY <2>1
  <1>5. Max(S) \in S /\ \A y \in S : Max(S) >= y
    BY <1>4, Zenon DEF Max
  <1>6. PICK len : len = Max(S)
    OBVIOUS
  <1>7. len \in S /\ \A y \in S : len >= y
    BY <1>5, <1>6, Zenon
  <1>8. \A y \in S : y <= len
    BY <1>7
  <1> QED
    BY <1>6, <1>7, <1>8, Zenon

\* The values the two searches start with do not get into the result.
LEMMA MinOfMore ==
    ASSUME NEW S, S \subseteq Nat, S # {}, NEW top \in Nat, \A y \in S : y <= top
    PROVE  Min(S \union {top}) = Min(S)
  <1>1. Min(S) \in S /\ \A y \in S : Min(S) <= y
    BY MinIs, Zenon
  <1>2. /\ Min(S \union {top}) \in S \union {top}
        /\ \A y \in S \union {top} : Min(S \union {top}) <= y
    <2>1. S \union {top} \subseteq Nat /\ S \union {top} # {}
      OBVIOUS
    <2> QED
      BY <2>1, MinIs, Zenon
  <1>3. PICK a, b : a = Min(S) /\ b = Min(S \union {top})
    OBVIOUS
  <1>4. a \in S /\ b \in S \union {top} /\ b <= a /\ a <= top /\ (b \in S => a <= b)
    BY <1>1, <1>2, <1>3, Zenon
  <1>5. a = b
    BY <1>4
  <1> QED
    BY <1>3, <1>5

LEMMA MaxOfMore ==
    ASSUME NEW S, NEW n \in Nat, S \subseteq 0..n, S # {}
    PROVE  Max(S \union {0}) = Max(S)
  <1>1. Max(S) \in S /\ \A y \in S : y <= Max(S)
    BY MaxIs, Zenon
  <1>2. /\ Max(S \union {0}) \in S \union {0}
        /\ \A y \in S \union {0} : y <= Max(S \union {0})
    <2>1. S \union {0} \subseteq 0..n /\ S \union {0} # {}
      OBVIOUS
    <2> QED
      BY <2>1, MaxIs, Zenon
  <1>3. PICK a, b : a = Max(S) /\ b = Max(S \union {0})
    OBVIOUS
  <1>4. a \in S /\ b \in S \union {0} /\ a <= b /\ (b \in S => b <= a)
    BY <1>1, <1>2, <1>3, Zenon
  <1>5. a = b
    BY <1>4
  <1> QED
    BY <1>3, <1>5

----------------------------------------------------------------------------
(* The ring. *)

LEMMA Sizes ==
    /\ HISTORY_SIZE \in Nat /\ HISTORY_SIZE > 0 /\ TickMod \in Nat /\ MaxSamples \in Nat
    /\ CLOCK_REF_MHZ \in Nat /\ CLOCK_REF_MHZ > 0
    /\ Longest \in Nat /\ HISTORY_SIZE * Longest < TickMod
    /\ \A t \in Samples : t \in 0..Longest
  BY StatsAssumption

LEMMA DivMod ==
    ASSUME NEW H \in Nat, H > 0, NEW v \in Nat
    PROVE  /\ v \div H \in Nat /\ v % H \in 0..(H - 1)
           /\ v = H * (v \div H) + (v % H)
  <1>1. v = H * (v \div H) + (v % H)
    OBVIOUS
  <1>2. v % H \in 0..(H - 1)
    OBVIOUS
  <1>3. v \div H \in Nat
    OBVIOUS
  <1> QED
    BY <1>1, <1>2, <1>3

LEMMA ModSmall ==
    ASSUME NEW H \in Nat, NEW v \in Nat, v < H
    PROVE  v % H = v
  <1>1. PICK q, r : q = v \div H /\ r = v % H
    OBVIOUS
  <1>2. q \in Nat /\ r \in 0..(H - 1) /\ v = H * q + r
    BY <1>1, DivMod
  <1>3. q >= 1 => H * q >= H
    BY <1>2
  <1>4. q = 0
    BY <1>2, <1>3
  <1> QED
    BY <1>1, <1>2, <1>4

\* Places less than the size of the ring apart are different.
LEMMA Apart ==
    ASSUME NEW H \in Nat, H > 0, NEW a \in Nat, NEW b \in Nat, a < b, b < a + H
    PROVE  a % H # b % H
  <1> SUFFICES ASSUME a % H = b % H PROVE FALSE
    OBVIOUS
  <1>1. PICK qa, qb : qa = a \div H /\ qb = b \div H
    OBVIOUS
  <1>2. qa \in Nat /\ qb \in Nat /\ a % H \in Nat /\ a = H * qa + (a % H) /\ b = H * qb + (b % H)
    BY <1>1, DivMod
  <1>3. PICK r : r = a % H
    OBVIOUS
  <1>4. r \in Nat /\ a = H * qa + r /\ b = H * qb + r
    BY <1>2, <1>3
  <1>5. H * (qb - qa) = H * qb - H * qa
    BY <1>2
  <1>6. H * (qb - qa) > 0 /\ H * (qb - qa) < H
    BY <1>2, <1>4, <1>5
  <1>7. PICK q \in Int : q = qb - qa
    BY <1>2
  <1>8. H * q > 0 /\ H * q < H
    BY <1>6, <1>7
  <1>9. q >= 1 => H * q >= H
    BY <1>7
  <1>10. q <= 0 => H * q <= 0
    BY <1>7
  <1> QED
    BY <1>7, <1>8, <1>9, <1>10

\* Recent, of any sequence.
RecentOf(p) == SubSeq(p, IF Len(p) > HISTORY_SIZE THEN Len(p) - HISTORY_SIZE + 1 ELSE 1, Len(p))

\* The ring holds the last samples of p, each at its place.
Holds(ring, p) ==
    /\ p \in Seq(Samples) /\ ring \in [0..(HISTORY_SIZE - 1) -> 0..Longest]
    /\ \A k \in 1..Len(p) : k > Len(p) - HISTORY_SIZE => ring[(k - 1) % HISTORY_SIZE] = p[k]

\* Place of the j-th of the last len samples of n.
Place(n, len) == [j \in 1..len |-> (n - len + j - 1) % HISTORY_SIZE]

LEMMA RecentIs ==
    ASSUME NEW p \in Seq(Samples)
    PROVE  /\ HistoryLen(Len(p)) \in 0..HISTORY_SIZE /\ HistoryLen(Len(p)) <= Len(p)
           /\ p # <<>> => HistoryLen(Len(p)) > 0
           /\ Len(RecentOf(p)) = HistoryLen(Len(p))
           /\ DOMAIN RecentOf(p) = 1..HistoryLen(Len(p))
           /\ \A j \in 1..HistoryLen(Len(p)) :
                  RecentOf(p)[j] = p[Len(p) - HistoryLen(Len(p)) + j]
  <1>1. PICK n \in Nat : n = Len(p)
    OBVIOUS
  <1>2. PICK len : len = HistoryLen(n)
    OBVIOUS
  <1>3. len \in 0..HISTORY_SIZE /\ len <= n /\ (n > 0 => len > 0) /\ (n <= HISTORY_SIZE => len = n)
        /\ (n > HISTORY_SIZE => len = HISTORY_SIZE)
    BY <1>2, Sizes DEF HistoryLen
  <1>4. p # <<>> => n > 0
    BY <1>1
  <1>5. RecentOf(p) = SubSeq(p, n - len + 1, n)
    <2>1. CASE n > HISTORY_SIZE
      <3>1. n - len + 1 = n - HISTORY_SIZE + 1
        BY <1>3, <2>1, Sizes
      <3> QED
        BY <1>1, <2>1, <3>1, Zenon DEF RecentOf
    <2>2. CASE ~(n > HISTORY_SIZE)
      <3>1. n - len + 1 = 1
        BY <1>3, <2>2, Sizes
      <3> QED
        BY <1>1, <2>2, <3>1, Zenon DEF RecentOf
    <2> QED
      BY <2>1, <2>2
  <1>6. /\ Len(SubSeq(p, n - len + 1, n)) = len /\ DOMAIN SubSeq(p, n - len + 1, n) = 1..len
        /\ \A j \in 1..len : SubSeq(p, n - len + 1, n)[j] = p[n - len + j]
    BY <1>1, <1>3, Sizes
  <1> QED
    BY <1>1, <1>2, <1>3, <1>4, <1>5, <1>6, Zenon

\* The last len samples fill the first len places, each once.
LEMMA Places ==
    ASSUME NEW n \in Nat, NEW len, len = HistoryLen(n)
    PROVE  /\ \A x, y \in 1..len : Place(n, len)[x] = Place(n, len)[y] => x = y
           /\ Image(Place(n, len), 1..len) = 0..(len - 1)
  <1> DEFINE b == Place(n, len)
  <1>1. len \in 0..HISTORY_SIZE /\ len <= n /\ (n < HISTORY_SIZE => len = n)
        /\ (n >= HISTORY_SIZE => len = HISTORY_SIZE)
    BY Sizes DEF HistoryLen
  <1>2. ASSUME NEW j \in 1..len
        PROVE  n - len + j - 1 \in Nat /\ b[j] = (n - len + j - 1) % HISTORY_SIZE /\ b[j] \in 0..(len - 1)
    <2>1. n - len + j - 1 \in Nat /\ b[j] = (n - len + j - 1) % HISTORY_SIZE
      BY <1>1, Sizes DEF Place
    <2>2. CASE n < HISTORY_SIZE
      <3>1. n - len + j - 1 = j - 1 /\ j - 1 \in Nat /\ j - 1 < HISTORY_SIZE /\ j - 1 < len
        BY <1>1, <2>2, Sizes
      <3>2. (j - 1) % HISTORY_SIZE = j - 1
        BY <3>1, ModSmall, Sizes, Zenon
      <3>3. b[j] = j - 1
        BY <2>1, <3>1, <3>2, Zenon
      <3>4. j - 1 \in 0..(len - 1)
        BY <1>1, <3>1, Sizes
      <3> QED
        BY <2>1, <3>3, <3>4, Zenon
    <2>3. CASE n >= HISTORY_SIZE
      <3>1. b[j] \in 0..(HISTORY_SIZE - 1)
        BY <2>1, DivMod, Sizes
      <3> QED
        BY <1>1, <2>1, <2>3, <3>1
    <2> QED
      BY <2>2, <2>3, Sizes
  <1>3. ASSUME NEW x \in 1..len, NEW y \in 1..len, x < y PROVE b[x] # b[y]
    <2>1. n - len + x - 1 \in Nat /\ n - len + y - 1 \in Nat /\ n - len + x - 1 < n - len + y - 1
          /\ n - len + y - 1 < (n - len + x - 1) + HISTORY_SIZE
      BY <1>1, <1>3, Sizes
    <2>2. (n - len + x - 1) % HISTORY_SIZE # (n - len + y - 1) % HISTORY_SIZE
      BY <2>1, Apart, Sizes, Zenon
    <2> QED
      BY <1>2, <2>2, Zenon
  <1>4. \A x, y \in 1..len : b[x] = b[y] => x = y
    <2> SUFFICES ASSUME NEW x \in 1..len, NEW y \in 1..len, b[x] = b[y], x # y PROVE FALSE
      BY Zenon
    <2>1. x < y \/ y < x
      OBVIOUS
    <2> QED
      BY <1>3, <2>1, Zenon
  <1>5. b \in [1..len -> 0..(len - 1)]
    BY <1>2, Zenon DEF Place
  <1>6. b \in Injection(1..len, 0..(len - 1))
    <2>1. DOMAIN b = 1..len
      BY <1>5, Zenon
    <2> QED
      BY <1>4, <1>5, <2>1, Zenon DEF Injection, IsInjective
  <1>7. /\ IsFiniteSet(1..len) /\ IsFiniteSet(0..(len - 1))
        /\ Cardinality(1..len) = Cardinality(0..(len - 1))
    <2>1. IsFiniteSet(1..len) /\ Cardinality(1..len) = len
      BY <1>1, FS_Interval, Sizes
    <2>2. len - 1 \in Int /\ 0 \in Int
      BY <1>1, Sizes
    <2>3. IsFiniteSet(0..(len - 1)) /\ Cardinality(0..(len - 1)) = len
      <3>1. PICK l \in Int : l = len - 1
        BY <2>2
      <3>2. IsFiniteSet(0..l) /\ Cardinality(0..l) = IF 0 > l THEN 0 ELSE l - 0 + 1
        BY <2>2, FS_Interval, Zenon
      <3>3. (IF 0 > l THEN 0 ELSE l - 0 + 1) = len
        BY <1>1, <3>1, Sizes
      <3> QED
        BY <3>1, <3>2, <3>3, Zenon
    <2> QED
      BY <2>1, <2>3
  <1>8. b \in Surjection(1..len, 0..(len - 1))
    <2> HIDE DEF b
    <2> QED
      BY <1>6, <1>7, FS_Injection, Zenon
  <1>9. \A t \in 0..(len - 1) : \E x \in 1..len : b[x] = t
    BY <1>8, Zenon DEF Surjection
  <1>10. Image(b, 1..len) = 0..(len - 1)
    <2> HIDE DEF b
    <2> QED
      BY <1>2, <1>9 DEF Image
  <1> QED
    BY <1>4, <1>10, Zenon

Held(ring, len) == {ring[i] : i \in 0..(len - 1)}

\* The part of the ring that is in use holds the recent samples.
LEMMA HeldIsRecent ==
    ASSUME NEW ring, NEW p, Holds(ring, p), p # <<>>, NEW len, len = HistoryLen(Len(p))
    PROVE  /\ Held(ring, len) = Range(RecentOf(p))
           /\ Sum(ring, 0..(len - 1)) = Sum(RecentOf(p), 1..len)
           /\ \A j \in 1..len : RecentOf(p)[j] \in 0..Longest
  <1>1. PICK n \in Nat : n = Len(p)
    BY DEF Holds
  <1>2. PICK R : R = RecentOf(p)
    OBVIOUS
  <1>3. p \in Seq(Samples)
    BY DEF Holds
  <1>4. /\ len \in 0..HISTORY_SIZE /\ len <= n /\ DOMAIN R = 1..len
        /\ \A j \in 1..len : R[j] = p[n - len + j]
    BY <1>1, <1>2, <1>3, RecentIs, Zenon
  <1>5. PICK b : b = Place(n, len)
    OBVIOUS
  <1>6. (\A x, y \in 1..len : b[x] = b[y] => x = y) /\ Image(b, 1..len) = 0..(len - 1)
    BY <1>1, <1>5, Places, Zenon
  <1>7. ASSUME NEW j \in 1..len PROVE ring[b[j]] = R[j] /\ R[j] \in 0..Longest
    <2>1. PICK k : k = n - len + j
      OBVIOUS
    <2>2. k \in 1..n /\ k > n - HISTORY_SIZE /\ k - 1 = n - len + j - 1
      BY <1>4, <2>1, Sizes
    <2>3. b[j] = (n - len + j - 1) % HISTORY_SIZE
      BY <1>5, Zenon DEF Place
    <2>4. ring[(k - 1) % HISTORY_SIZE] = p[k]
      BY <1>1, <2>2, Zenon DEF Holds
    <2>5. p[k] \in Samples
      BY <1>1, <1>3, <2>2
    <2> QED
      BY <1>4, <2>1, <2>2, <2>3, <2>4, <2>5, Sizes, Zenon
  <1>8. Renames(b, 1..len, R, ring)
    <2>1. \A x \in 1..len : R[x] \in Nat
      BY <1>7
    <2> QED
      BY <1>6, <1>7, <2>1, Zenon DEF Renames
  <1>9. Held(ring, len) = Range(R)
    <2>1. Range(R) = Terms(R, 1..len) /\ Held(ring, len) = Terms(ring, 0..(len - 1))
      BY <1>4, Zenon DEF Range, Held, Terms
    <2>2. Terms(ring, Image(b, 1..len)) = Terms(R, 1..len)
      BY <1>8, TermsRenamed
    <2> QED
      BY <1>6, <2>1, <2>2
  <1>10. Sum(R, 1..len) = Sum(ring, Image(b, 1..len))
    <2>1. IsFiniteSet(1..len)
      BY <1>4, FS_Interval, Sizes
    <2> QED
      BY <1>8, <2>1, SumRenamed
  <1> QED
    BY <1>2, <1>6, <1>7, <1>9, <1>10, Zenon

\* n numbers between lo and hi have their mean there too.
LEMMA MeanBetween ==
    ASSUME NEW n \in Nat, n > 0, NEW lo \in Nat, NEW hi \in Nat, NEW sum \in Nat,
           lo * n <= sum, sum <= hi * n
    PROVE  sum \div n \in Nat /\ lo <= sum \div n /\ sum \div n <= hi
  <1>1. PICK q, r : q = sum \div n /\ r = sum % n
    OBVIOUS
  <1>2. q \in Nat /\ r \in 0..(n - 1) /\ sum = n * q + r
    BY <1>1, DivMod
  <1>3. lo <= q
    <2> SUFFICES ASSUME lo >= q + 1 PROVE FALSE
      BY <1>2
    <2>1. lo * n >= (q + 1) * n
      BY <1>2
    <2>2. (q + 1) * n = n * q + n
      BY <1>2
    <2>3. lo * n \in Nat /\ n * q \in Nat
      BY <1>2
    <2> QED
      BY <1>2, <2>1, <2>2, <2>3
  <1>4. q <= hi
    <2> SUFFICES ASSUME q >= hi + 1 PROVE FALSE
      BY <1>2
    <2>1. q * n >= (hi + 1) * n
      BY <1>2
    <2>2. (hi + 1) * n = hi * n + n /\ q * n = n * q
      BY <1>2
    <2>3. hi * n \in Nat /\ n * q \in Nat
      BY <1>2
    <2> QED
      BY <1>2, <2>1, <2>2, <2>3
  <1> QED
    BY <1>1, <1>2, <1>3, <1>4

LeastOf(p) == Min(Range(RecentOf(p)))
MostOf(p) == Max(Range(RecentOf(p)))
SumOf(p) == Sum(RecentOf(p), 1..Len(RecentOf(p)))
MeanOf(p) == SumOf(p) \div Len(RecentOf(p))

\* The statistics of the recent samples of p are in order.
LEMMA InOrder ==
    ASSUME NEW p \in Seq(Samples), p # <<>>
    PROVE  /\ SumOf(p) \in Nat /\ SumOf(p) < TickMod
           /\ LeastOf(p) \in 0..Longest /\ MostOf(p) \in 0..Longest /\ MeanOf(p) \in 0..Longest
           /\ LeastOf(p) <= MeanOf(p) /\ MeanOf(p) <= MostOf(p)
           /\ p[Len(p)] \in 0..Longest /\ LeastOf(p) <= p[Len(p)] /\ p[Len(p)] <= MostOf(p)
  <1>1. PICK R, len : R = RecentOf(p) /\ len = HistoryLen(Len(p))
    OBVIOUS
  <1>2. PICK n \in Nat : n = Len(p)
    OBVIOUS
  <1>3. /\ len \in 0..HISTORY_SIZE /\ len > 0 /\ len <= n /\ Len(R) = len /\ DOMAIN R = 1..len
        /\ \A j \in 1..len : R[j] = p[n - len + j]
    BY <1>1, <1>2, RecentIs, Zenon
  <1>4. ASSUME NEW j \in 1..len PROVE R[j] \in 0..Longest
    <2>1. n - len + j \in 1..n
      BY <1>3, Sizes
    <2>2. p[n - len + j] \in Samples
      BY <1>2, <2>1
    <2> QED
      BY <1>3, <2>2, Sizes, Zenon
  <1>5. PICK lo, hi : lo = Min(Range(R)) /\ hi = Max(Range(R))
    OBVIOUS
  <1>6. Range(R) \subseteq 0..Longest /\ Range(R) # {} /\ \A j \in 1..len : R[j] \in Range(R)
    <2>1. Range(R) = {R[j] : j \in 1..len}
      BY <1>3, Zenon DEF Range
    <2>2. 1 \in 1..len
      BY <1>3, Sizes
    <2> QED
      BY <1>4, <2>1, <2>2
  <1>7. /\ lo \in 0..Longest /\ hi \in 0..Longest
        /\ \A j \in 1..len : lo <= R[j] /\ R[j] <= hi
    <2>1. lo \in Range(R) /\ \A y \in Range(R) : lo <= y
      <3>1. Range(R) \subseteq Nat
        BY <1>6, Sizes
      <3> QED
        BY <1>5, <1>6, <3>1, MinIs, Zenon
    <2>2. hi \in Range(R) /\ \A y \in Range(R) : y <= hi
      BY <1>5, <1>6, MaxIs, Sizes, Zenon
    <2> QED
      BY <1>6, <2>1, <2>2, Zenon
  <1>8. PICK sum : sum = Sum(R, 1..len)
    OBVIOUS
  <1>9. sum \in Nat /\ lo * len <= sum /\ sum <= hi * len
    <2>1. IsFiniteSet(1..len) /\ Cardinality(1..len) = len
      BY <1>3, FS_Interval, Sizes
    <2>2. \A x \in 1..len : R[x] \in Nat
      BY <1>4
    <2>3. lo \in Nat /\ hi \in Nat
      BY <1>7
    <2>4. sum \in Nat
      BY <1>8, <2>1, <2>2, SumType, Zenon
    <2>5. lo * Cardinality(1..len) <= Sum(R, 1..len) /\ Sum(R, 1..len) <= hi * Cardinality(1..len)
      BY <1>7, <2>1, <2>2, <2>3, SumBetween, Zenon
    <2> QED
      BY <1>8, <2>1, <2>4, <2>5, Zenon
  <1>10. sum < TickMod
    <2>1. hi * len <= Longest * len
      BY <1>3, <1>7, Sizes
    <2>2. Longest * len <= Longest * HISTORY_SIZE
      BY <1>3, Sizes
    <2>3. Longest * HISTORY_SIZE = HISTORY_SIZE * Longest
      BY Sizes
    <2>4. hi * len \in Nat /\ Longest * len \in Nat /\ HISTORY_SIZE * Longest \in Nat
      BY <1>3, <1>7, Sizes
    <2> QED
      BY <1>9, <2>1, <2>2, <2>3, <2>4, Sizes
  <1>11. sum \div len \in Nat /\ lo <= sum \div len /\ sum \div len <= hi
    <2>1. len \in Nat /\ lo \in Nat /\ hi \in Nat
      BY <1>3, <1>7, Sizes
    <2> QED
      BY <1>3, <1>9, <2>1, MeanBetween, Zenon
  <1>12. sum \div len \in 0..Longest
    <2>1. PICK q : q = sum \div len
      OBVIOUS
    <2>2. q \in Nat /\ q <= hi
      BY <1>11, <2>1, Zenon
    <2>3. q \in 0..Longest
      BY <1>7, <2>2, Sizes
    <2> QED
      BY <2>1, <2>3, Zenon
  <1>13. p[n] \in 0..Longest /\ lo <= p[n] /\ p[n] <= hi
    <2>1. len \in 1..len /\ n - len + len = n
      BY <1>3, Sizes
    <2>2. R[len] = p[n]
      BY <1>3, <2>1, Zenon
    <2> QED
      BY <1>4, <1>7, <2>1, <2>2, Zenon
  <1>14. /\ LeastOf(p) = lo /\ MostOf(p) = hi /\ SumOf(p) = sum /\ MeanOf(p) = sum \div len
         /\ p[Len(p)] = p[n]
    <2>1. LeastOf(p) = lo /\ MostOf(p) = hi
      BY <1>1, <1>5, Zenon DEF LeastOf, MostOf
    <2>2. SumOf(p) = sum
      BY <1>1, <1>3, <1>8, Zenon DEF SumOf
    <2> QED
      BY <1>1, <1>2, <1>3, <2>1, <2>2, Zenon DEF MeanOf
  <1> QED
    BY <1>7, <1>9, <1>10, <1>11, <1>12, <1>13, <1>14, Zenon

\* What update_sample_status computes from the ring is the statistics of the
\* recent samples: the sum does not wrap, and neither the values the searches
\* start with nor the unused places count.
LEMMA Statistics ==
    ASSUME NEW ring, NEW p, Holds(ring, p), p # <<>>, NEW cur
    PROVE  Updated(cur, ring, HistoryLen(Len(p))) =
               [cur |-> Line("Cur: ", cur), avg |-> Line("Avg: ", MeanOf(p)),
                min |-> Line("Min: ", LeastOf(p)), max |-> Line("Max: ", MostOf(p))]
  <1>1. PICK R, len : R = RecentOf(p) /\ len = HistoryLen(Len(p))
    OBVIOUS
  <1>2. p \in Seq(Samples)
    BY Zenon DEF Holds
  <1>3. len \in 0..HISTORY_SIZE /\ len > 0 /\ Len(R) = len /\ DOMAIN R = 1..len
    BY <1>1, <1>2, RecentIs, Zenon
  <1>4. /\ Held(ring, len) = Range(R) /\ Sum(ring, 0..(len - 1)) = Sum(R, 1..len)
        /\ \A j \in 1..len : R[j] \in 0..Longest
    BY <1>1, HeldIsRecent, Zenon
  <1>5. Mean(ring, len) = MeanOf(p)
    <2>1. PICK sum : sum = Sum(R, 1..len)
      OBVIOUS
    <2>2. SumOf(p) = sum /\ MeanOf(p) = sum \div len
      BY <1>1, <1>3, <2>1, Zenon DEF SumOf, MeanOf
    <2>3. sum \in Nat /\ sum < TickMod
      BY <1>2, <2>2, InOrder, Zenon
    <2>4. sum % TickMod = sum
      BY <2>3, ModSmall, Sizes, Zenon
    <2>5. MapThenSumSet(LAMBDA i : ring[i], 0..(len - 1)) = sum
      BY <1>4, <2>1, SumIs, Zenon
    <2>6. Mean(ring, len) = (sum % TickMod) \div len
      BY <2>5 DEF Mean
    <2> QED
      BY <2>2, <2>4, <2>6, Zenon
  <1>6. Range(R) \subseteq 0..Longest /\ Range(R) # {}
    <2>1. Range(R) = {R[j] : j \in 1..len}
      BY <1>3, Zenon DEF Range
    <2>2. 1 \in 1..len
      BY <1>3, Sizes
    <2> QED
      BY <1>4, <2>1, <2>2
  <1>7. Min(Held(ring, len) \union {TickMod - 1}) = LeastOf(p)
    <2>1. TickMod - 1 \in Nat /\ Longest <= TickMod - 1
      <3>1. Longest <= HISTORY_SIZE * Longest
        BY Sizes
      <3>2. HISTORY_SIZE * Longest \in Nat
        BY Sizes
      <3> QED
        BY <3>1, <3>2, Sizes
    <2>2. Range(R) \subseteq Nat /\ \A y \in Range(R) : y <= TickMod - 1
      BY <1>6, <2>1, Sizes
    <2>3. Min(Range(R) \union {TickMod - 1}) = Min(Range(R))
      BY <1>6, <2>1, <2>2, MinOfMore, Zenon
    <2> QED
      BY <1>1, <1>4, <2>3, Zenon DEF LeastOf
  <1>8. Max(Held(ring, len) \union {0}) = MostOf(p)
    <2>1. Max(Range(R) \union {0}) = Max(Range(R))
      BY <1>6, MaxOfMore, Sizes, Zenon
    <2> QED
      BY <1>1, <1>4, <2>1, Zenon DEF MostOf
  <1>9. Updated(cur, ring, len) =
            [cur |-> Line("Cur: ", cur), avg |-> Line("Avg: ", Mean(ring, len)),
             min |-> Line("Min: ", Min(Held(ring, len) \union {TickMod - 1})),
             max |-> Line("Max: ", Max(Held(ring, len) \union {0}))]
    BY Zenon DEF Updated, Held
  <1> QED
    BY <1>1, <1>5, <1>7, <1>8, <1>9, Zenon

----------------------------------------------------------------------------
(* The lines. *)

\* The lines tell the statistics of p; the current one may be of a missing sample.
Tells(l, p) ==
    /\ l.cur \in {NoSample, Line("Cur: ", p[Len(p)])}
    /\ l.avg = Line("Avg: ", MeanOf(p))
    /\ l.min = Line("Min: ", LeastOf(p)) /\ l.max = Line("Max: ", MostOf(p))

\* Inductive: the ring holds the recent samples, the lines are theirs, and what
\* is shown was the lines of some samples before.
StatsInv ==
    /\ Holds(samples, past) /\ sample_idx = Len(past)
    /\ lines = [cur |-> lines.cur, avg |-> lines.avg, min |-> lines.min, max |-> lines.max]
    /\ past = <<>> => lines.avg = ""
    /\ past # <<>> => Tells(lines, past)
    /\ shown.avg # "" => \E p \in Seq(Samples) : p # <<>> /\ Tells(shown, p)

LEMMA StatsInitInv == StatsInit => StatsInv
  <1> SUFFICES ASSUME StatsInit PROVE StatsInv
    OBVIOUS
  <1>1. Holds(samples, past) /\ sample_idx = Len(past)
    <2>1. samples = [i \in 0..(HISTORY_SIZE - 1) |-> 0] /\ sample_idx = 0 /\ past = <<>>
      BY Zenon DEF StatsInit
    <2> QED
      BY <2>1, Sizes DEF Holds
  <1>2. past = <<>> /\ lines = [cur |-> "", avg |-> "", min |-> "", max |-> ""] /\ shown = lines
    BY Zenon DEF StatsInit
  <1>3. lines.cur = "" /\ lines.avg = "" /\ lines.min = "" /\ lines.max = "" /\ shown.avg = ""
    BY <1>2, Zenon
  <1> QED
    BY <1>1, <1>2, <1>3, Zenon DEF StatsInv

\* What is drawn are the lines of the last samples recorded.
LEMMA ShownInv ==
    ASSUME StatsInv, shown' = lines
    PROVE  shown'.avg # "" => \E p \in Seq(Samples) : p # <<>> /\ Tells(shown', p)
  <1>1. past \in Seq(Samples) /\ (past = <<>> => lines.avg = "") /\ (past # <<>> => Tells(lines, past))
    BY Zenon DEF StatsInv, Holds
  <1>2. PICK l, p : l = lines /\ p = past
    OBVIOUS
  <1>3. shown' = l /\ p \in Seq(Samples) /\ (p = <<>> => l.avg = "") /\ (p # <<>> => Tells(l, p))
    BY <1>1, <1>2, Zenon
  <1> QED
    BY <1>3, Zenon DEF Tells

\* A sample overwrites the oldest of a full ring and no other.
LEMMA StoreHolds ==
    ASSUME NEW ring, NEW p, Holds(ring, p), NEW t \in Samples
    PROVE  Holds([ring EXCEPT ![Len(p) % HISTORY_SIZE] = t], Append(p, t))
  <1>1. PICK n \in Nat : n = Len(p)
    BY DEF Holds
  <1>2. PICK after, q : after = [ring EXCEPT ![n % HISTORY_SIZE] = t] /\ q = Append(p, t)
    BY Zenon
  <1>3. /\ q \in Seq(Samples) /\ Len(q) = n + 1 /\ q[n + 1] = t
        /\ \A k \in 1..n : q[k] = p[k]
    BY <1>1, <1>2 DEF Holds
  <1>4. n % HISTORY_SIZE \in 0..(HISTORY_SIZE - 1)
    BY DivMod, Sizes, Zenon
  <1>5. t \in 0..Longest
    BY Sizes
  <1>6. /\ after \in [0..(HISTORY_SIZE - 1) -> 0..Longest] /\ after[n % HISTORY_SIZE] = t
        /\ \A i \in 0..(HISTORY_SIZE - 1) : i # n % HISTORY_SIZE => after[i] = ring[i]
    <2>1. ring \in [0..(HISTORY_SIZE - 1) -> 0..Longest]
      BY Zenon DEF Holds
    <2>2. PICK x : x = n % HISTORY_SIZE
      OBVIOUS
    <2>3. after = [ring EXCEPT ![x] = t] /\ x \in 0..(HISTORY_SIZE - 1)
      BY <1>2, <1>4, <2>2, Zenon
    <2>4. /\ after \in [0..(HISTORY_SIZE - 1) -> 0..Longest] /\ after[x] = t
          /\ \A i \in 0..(HISTORY_SIZE - 1) : i # x => after[i] = ring[i]
      BY <1>5, <2>1, <2>3
    <2> QED
      BY <2>2, <2>4, Zenon
  <1>7. ASSUME NEW k \in 1..(n + 1), k > n + 1 - HISTORY_SIZE
        PROVE  after[(k - 1) % HISTORY_SIZE] = q[k]
    <2>1. CASE k = n + 1
      <3>1. k - 1 = n
        BY <2>1
      <3> QED
        BY <1>3, <1>6, <2>1, <3>1, Zenon
    <2>2. CASE k # n + 1
      <3>1. k \in 1..n /\ k > n - HISTORY_SIZE /\ k - 1 \in Nat /\ k - 1 < n /\ n < (k - 1) + HISTORY_SIZE
        BY <1>7, <2>2, Sizes
      <3>2. (k - 1) % HISTORY_SIZE # n % HISTORY_SIZE
        BY <3>1, Apart, Sizes, Zenon
      <3>3. (k - 1) % HISTORY_SIZE \in 0..(HISTORY_SIZE - 1)
        BY <3>1, DivMod, Sizes, Zenon
      <3>4. ring[(k - 1) % HISTORY_SIZE] = p[k]
        BY <1>1, <3>1, Zenon DEF Holds
      <3> QED
        BY <1>3, <1>6, <3>1, <3>2, <3>3, <3>4, Zenon
    <2> QED
      BY <2>1, <2>2, Zenon
  <1>8. Holds(after, q)
    <2>1. \A k \in 1..Len(q) : k > Len(q) - HISTORY_SIZE => after[(k - 1) % HISTORY_SIZE] = q[k]
      <3>1. PICK l : l = Len(q)
        BY Zenon
      <3>2. l = n + 1
        BY <1>3, <3>1, Zenon
      <3>3. \A k \in 1..l : k > l - HISTORY_SIZE => after[(k - 1) % HISTORY_SIZE] = q[k]
        <4> SUFFICES ASSUME NEW k \in 1..l, k > l - HISTORY_SIZE
                     PROVE  after[(k - 1) % HISTORY_SIZE] = q[k]
          BY Zenon
        <4>1. k \in 1..(n + 1)
          BY <3>2, Zenon
        <4>2. k > n + 1 - HISTORY_SIZE
          BY <3>2, Sizes, SMT
        <4> QED
          BY <1>7, <4>1, <4>2, Zenon
      <3> QED
        BY <3>1, <3>3, Zenon
    <2> QED
      BY <1>3, <1>6, <2>1, Zenon DEF Holds
  <1> QED
    BY <1>1, <1>2, <1>8, Zenon

LEMMA NewSampleInv ==
    ASSUME StatsInv, NEW ticks \in Samples, NewSample(ticks)
    PROVE  StatsInv'
  <1>1. PICK ring, p : ring = samples /\ p = past
    OBVIOUS
  <1>2. Holds(ring, p) /\ sample_idx = Len(p)
    BY <1>1, Zenon DEF StatsInv
  <1>3. PICK after, q : after = [ring EXCEPT ![Len(p) % HISTORY_SIZE] = ticks] /\ q = Append(p, ticks)
    BY Zenon
  <1>4. Holds(after, q)
    BY <1>2, <1>3, StoreHolds, Zenon
  <1>5. q # <<>> /\ Len(q) = Len(p) + 1 /\ q[Len(q)] = ticks
    BY <1>2, <1>3 DEF Holds
  <1>6. samples' = after /\ past' = q /\ sample_idx' = Len(q) /\ shown' = lines
    <2>1. samples' = Store(ticks) /\ past' = Append(past, ticks) /\ sample_idx' = sample_idx + 1
          /\ shown' = lines
      BY Zenon DEF NewSample
    <2> QED
      BY <1>1, <1>2, <1>3, <1>5, <2>1, Zenon DEF Store
  <1>7. lines' = Updated(ticks, after, HistoryLen(Len(q)))
    <2>1. lines' = Updated(ticks, samples', HistoryLen(sample_idx'))
      BY Zenon DEF NewSample
    <2> QED
      BY <1>6, <2>1, Zenon
  <1>8. lines' = [cur |-> Line("Cur: ", ticks), avg |-> Line("Avg: ", MeanOf(q)),
                  min |-> Line("Min: ", LeastOf(q)), max |-> Line("Max: ", MostOf(q))]
    BY <1>4, <1>5, <1>7, Statistics, Zenon
  <1>9. PICK l : l = [cur |-> Line("Cur: ", ticks), avg |-> Line("Avg: ", MeanOf(q)),
                      min |-> Line("Min: ", LeastOf(q)), max |-> Line("Max: ", MostOf(q))]
    BY Zenon
  <1>10. /\ l.cur = Line("Cur: ", ticks) /\ l.avg = Line("Avg: ", MeanOf(q))
         /\ l.min = Line("Min: ", LeastOf(q)) /\ l.max = Line("Max: ", MostOf(q))
         /\ l = [cur |-> l.cur, avg |-> l.avg, min |-> l.min, max |-> l.max]
    BY <1>9, Zenon
  <1>11. Tells(l, q)
    BY <1>5, <1>10, Zenon DEF Tells
  <1>12. lines' = l
    BY <1>8, <1>9, Zenon
  <1>13. shown'.avg # "" => \E z \in Seq(Samples) : z # <<>> /\ Tells(shown', z)
    BY <1>6, ShownInv, Zenon
  <1>14. /\ Holds(samples', past') /\ sample_idx' = Len(past') /\ past' # <<>>
         /\ lines' = [cur |-> lines'.cur, avg |-> lines'.avg, min |-> lines'.min, max |-> lines'.max]
    BY <1>4, <1>5, <1>6, <1>10, <1>12, Zenon
  <1>15. Tells(lines', past')
    BY <1>6, <1>11, <1>12, Zenon
  <1> QED
    BY <1>13, <1>14, <1>15, Zenon DEF StatsInv, Holds, Tells, MeanOf, LeastOf, MostOf, SumOf, RecentOf

LEMMA MissingSampleInv == ASSUME StatsInv, MissingSample PROVE StatsInv'
  <1>1. PICK l : l = lines
    OBVIOUS
  <1>2. /\ shown' = lines /\ lines' = [l EXCEPT !.cur = NoSample]
        /\ samples' = samples /\ sample_idx' = sample_idx /\ past' = past
    BY <1>1, Zenon DEF MissingSample
  <1>3. l = [cur |-> l.cur, avg |-> l.avg, min |-> l.min, max |-> l.max]
    BY <1>1, Zenon DEF StatsInv
  <1>4. PICK k : k = [l EXCEPT !.cur = NoSample]
    BY Zenon
  <1>5. /\ k.cur = NoSample /\ k.avg = l.avg /\ k.min = l.min /\ k.max = l.max
        /\ k = [cur |-> k.cur, avg |-> k.avg, min |-> k.min, max |-> k.max]
    BY <1>3, <1>4
  <1>6. /\ Holds(samples, past) /\ sample_idx = Len(past)
        /\ past = <<>> => k.avg = ""
        /\ past # <<>> => Tells(k, past)
    BY <1>1, <1>5, Zenon DEF StatsInv, Tells
  <1>7. shown'.avg # "" => \E z \in Seq(Samples) : z # <<>> /\ Tells(shown', z)
    BY <1>2, ShownInv, Zenon
  <1>8. lines' = k
    BY <1>2, <1>4, Zenon
  <1> QED
    BY <1>2, <1>5, <1>6, <1>7, <1>8, Zenon
       DEF StatsInv, Holds, Tells, MeanOf, LeastOf, MostOf, SumOf, RecentOf

LEMMA StatsStep == ASSUME StatsInv, [StatsNext]_statsVars PROVE StatsInv'
  <1>1. CASE MissingSample
    BY <1>1, MissingSampleInv, Zenon
  <1>2. CASE \E ticks \in Samples : NewSample(ticks)
    BY <1>2, NewSampleInv, Zenon
  <1>3. CASE NoVerdict
    <2>1. shown' = lines /\ lines' = lines /\ samples' = samples /\ sample_idx' = sample_idx /\ past' = past
      BY <1>3, Zenon DEF NoVerdict
    <2>2. shown'.avg # "" => \E z \in Seq(Samples) : z # <<>> /\ Tells(shown', z)
      BY <2>1, ShownInv, Zenon
    <2> QED
      BY <2>1, <2>2, Zenon
         DEF StatsInv, Holds, Tells, MeanOf, LeastOf, MostOf, SumOf, RecentOf
  <1>4. CASE UNCHANGED statsVars
    BY <1>4, Zenon DEF statsVars, StatsInv, Holds, Tells, MeanOf, LeastOf, MostOf, SumOf, RecentOf
  <1> QED
    BY <1>1, <1>2, <1>3, <1>4, Zenon DEF StatsNext

LEMMA AlwaysStatsInv == StatsSpec => []StatsInv
  BY StatsInitInv, StatsStep, PTL DEF StatsSpec

\* The text of the lines reads as the statistics they tell.
LEMMA TextReads ==
    ASSUME NEW p \in Seq(Samples), p # <<>>, NEW l, Tells(l, p)
    PROVE  /\ l.cur = "CUR: NO SAMPLE" \/ Shows("Cur: ", l.cur, p[Len(p)])
           /\ Shows("Avg: ", l.avg, MeanOf(p))
           /\ Shows("Min: ", l.min, LeastOf(p)) /\ Shows("Max: ", l.max, MostOf(p))
  <1>1. /\ LeastOf(p) \in 0..Longest /\ MostOf(p) \in 0..Longest /\ MeanOf(p) \in 0..Longest
        /\ p[Len(p)] \in 0..Longest
    BY InOrder, Zenon
  <1>2. NoSample = "CUR: NO SAMPLE"
    BY TextAssumption, Zenon
  <1>3. \A t \in 0..Longest :
            /\ Shows("Cur: ", Line("Cur: ", t), t) /\ Shows("Avg: ", Line("Avg: ", t), t)
            /\ Shows("Min: ", Line("Min: ", t), t) /\ Shows("Max: ", Line("Max: ", t), t)
    BY TextAssumption, Zenon
  <1> QED
    BY <1>1, <1>2, <1>3, Zenon DEF Tells

LEMMA Exact == StatsInv => StatsExact
  <1> SUFFICES ASSUME StatsInv, past # <<>> PROVE StatsExact
    BY Zenon DEF StatsExact
  <1>1. PICK p, l : p = past /\ l = lines
    OBVIOUS
  <1>2. p \in Seq(Samples) /\ p # <<>> /\ Tells(l, p)
    BY <1>1, Zenon DEF StatsInv, Holds
  <1>3. /\ l.cur = "CUR: NO SAMPLE" \/ Shows("Cur: ", l.cur, p[Len(p)])
        /\ Shows("Avg: ", l.avg, MeanOf(p))
        /\ Shows("Min: ", l.min, LeastOf(p)) /\ Shows("Max: ", l.max, MostOf(p))
    BY <1>2, TextReads, Zenon
  <1>4. PICK R : R = RecentOf(p)
    OBVIOUS
  <1>5. Recent = R
    BY <1>1, <1>4, Zenon DEF Recent, RecentOf
  <1>6. DOMAIN R = 1..Len(R)
    BY <1>2, <1>4, RecentIs, Zenon
  <1>7. MapThenSumSet(LAMBDA i : R[i], DOMAIN R) = SumOf(p)
    <2>1. MapThenSumSet(LAMBDA i : R[i], DOMAIN R) = Sum(R, DOMAIN R)
      BY SumIs, Zenon
    <2> QED
      BY <1>4, <1>6, <2>1, Zenon DEF SumOf
  <1>8. LeastOf(p) = Min(Range(R)) /\ MostOf(p) = Max(Range(R)) /\ MeanOf(p) = SumOf(p) \div Len(R)
    BY <1>4, Zenon DEF LeastOf, MostOf, MeanOf
  <1>9. MapThenSumSet(LAMBDA i : Recent[i], DOMAIN Recent) = SumOf(p)
    BY <1>5, <1>7
  <1> QED
    BY <1>1, <1>3, <1>5, <1>8, <1>9, Zenon DEF StatsExact

\* Whole microseconds keep the order of ticks.
LEMMA DivKeepsOrder ==
    ASSUME NEW d \in Nat, d > 0, NEW a \in Nat, NEW b \in Nat, a <= b
    PROVE  a \div d \in Nat /\ b \div d \in Nat /\ a \div d <= b \div d
  <1>1. PICK qa, ra, qb, rb : qa = a \div d /\ ra = a % d /\ qb = b \div d /\ rb = b % d
    OBVIOUS
  <1>2. /\ qa \in Nat /\ ra \in 0..(d - 1) /\ a = d * qa + ra
        /\ qb \in Nat /\ rb \in 0..(d - 1) /\ b = d * qb + rb
    BY <1>1, DivMod
  <1>3. qa <= qb
    <2> SUFFICES ASSUME qa >= qb + 1 PROVE FALSE
      BY <1>2
    <2>1. d * qa >= d * (qb + 1)
      BY <1>2
    <2>2. d * (qb + 1) = d * qb + d /\ d * qa \in Nat /\ d * qb \in Nat
      BY <1>2
    <2> QED
      BY <1>2, <2>1, <2>2
  <1> QED
    BY <1>1, <1>2, <1>3

LEMMA ReadInOrder ==
    ASSUME NEW p \in Seq(Samples), p # <<>>, NEW l, Tells(l, p)
    PROVE  /\ Reading(l.min) <= Reading(l.avg) /\ Reading(l.avg) <= Reading(l.max)
           /\ Reading(l.cur) \in Reading(l.min)..Reading(l.max) \/ l.cur = "CUR: NO SAMPLE"
  <1>1. /\ l.cur = "CUR: NO SAMPLE" \/ Shows("Cur: ", l.cur, p[Len(p)])
        /\ Shows("Avg: ", l.avg, MeanOf(p))
        /\ Shows("Min: ", l.min, LeastOf(p)) /\ Shows("Max: ", l.max, MostOf(p))
    BY TextReads, Zenon
  <1>2. PICK lo, av, hi, cu :
            lo = LeastOf(p) /\ av = MeanOf(p) /\ hi = MostOf(p) /\ cu = p[Len(p)]
    OBVIOUS
  <1>3. lo \in 0..Longest /\ av \in 0..Longest /\ hi \in 0..Longest /\ cu \in 0..Longest
        /\ lo <= av /\ av <= hi /\ lo <= cu /\ cu <= hi
    BY <1>2, InOrder, Zenon
  <1>4. PICK us : us = [t \in Nat |-> t \div CLOCK_REF_MHZ]
    BY Zenon
  <1>5. /\ l.cur = "CUR: NO SAMPLE" \/ Reading(l.cur) = us[cu]
        /\ Reading(l.avg) = us[av] /\ Reading(l.min) = us[lo] /\ Reading(l.max) = us[hi]
    <2>1. lo \in Nat /\ av \in Nat /\ hi \in Nat /\ cu \in Nat
      BY <1>3
    <2> QED
      BY <1>1, <1>2, <1>4, <2>1, Zenon DEF Shows
  <1>6. \A a, b \in Nat : a <= b => us[a] \in Nat /\ us[b] \in Nat /\ us[a] <= us[b]
    BY <1>4, DivKeepsOrder, Sizes, Zenon
  <1>7. /\ us[lo] \in Nat /\ us[hi] \in Nat /\ us[cu] \in Nat
        /\ us[lo] <= us[av] /\ us[av] <= us[hi] /\ us[lo] <= us[cu] /\ us[cu] <= us[hi]
    <2>1. lo \in Nat /\ av \in Nat /\ hi \in Nat /\ cu \in Nat
      BY <1>3
    <2> QED
      BY <1>3, <1>6, <2>1, Zenon
  <1>8. us[cu] \in us[lo]..us[hi]
    BY <1>7
  <1> QED
    BY <1>5, <1>7, <1>8, Zenon

LEMMA Ordered == StatsInv => ShownOrdered
  <1> SUFFICES ASSUME StatsInv, shown.avg # "" PROVE ShownOrdered
    BY Zenon DEF ShownOrdered
  <1>1. PICK p \in Seq(Samples) : p # <<>> /\ Tells(shown, p)
    BY Zenon DEF StatsInv
  <1> QED
    BY <1>1, ReadInOrder, Zenon DEF ShownOrdered

\* The lines read as the minimum, the maximum and the rounded mean of the last
\* HISTORY_SIZE samples and as the last one (record_new_sample,
\* update_sample_status), for every size of the ring and every sequence of
\* samples whose sum a uint32_t holds.
THEOREM AlwaysExact == StatsSpec => []StatsExact
  BY AlwaysStatsInv, Exact, PTL

\* The numbers on the screen are in order, the current sample between the least
\* and the greatest (draw_status after update_sample_status).
THEOREM AlwaysOrdered == StatsSpec => []ShownOrdered
  BY AlwaysStatsInv, Ordered, PTL
=============================================================================
