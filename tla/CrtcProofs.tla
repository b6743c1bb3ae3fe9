----------------------------- MODULE CrtcProofs -----------------------------
(***************************************************************************)
(* Proofs about module Crtc, for every width of the counters, every set of *)
(* modes that fit them, any number of mode changes and any pace of the     *)
(* writes: the frames of a mode are exact, from the first, which begins    *)
(* within a frame's time.                                                  *)
(*                                                                         *)
(* The invariant says what the clocks and pixels counted since the fall of *)
(* vblank are in terms of the counters and, before the first fall, that    *)
(* the clocks gone and the clocks left to it are at most those of a frame. *)
(***************************************************************************)
EXTENDS Crtc, TLAPS

Act(x) == ctrl[<<x, "act">>]
Bp(x) == ctrl[<<x, "bp">>]

\* The width and the height of the frame, blanks included.
H == Size(ctrl, "h")
V == Size(ctrl, "v")

----------------------------------------------------------------------------
(* A frame that is measured. *)

\* Lines since vblank fell, for line v of a frame.
LinesGone(v, bp, height) == IF v < bp THEN v + height - bp ELSE v - bp

\* Clocks since then: four for each pixel, and those since the last pixel's edge.
ClksGone(lines, h, width, c) == 4 * (width * lines + h) + (IF c = 0 THEN 3 ELSE c - 1)

\* Visible pixels of a line before pixel h, and of a frame.
PixelsGone(h, bp, act) == IF h < bp THEN 0 ELSE IF h < bp + act THEN h - bp ELSE act
VisGone(lines, h, bp, act, height) ==
    IF lines < height THEN act * lines + PixelsGone(h, bp, act) ELSE act * height

Measured ==
    /\ Steady
    /\ cnt.h < H /\ cnt.v < V
    /\ cen <=> cencnt = 0
    /\ clks = ClksGone(LinesGone(cnt.v, Bp("v"), V), cnt.h, H, cencnt)
    /\ vis = VisGone(LinesGone(cnt.v, Bp("v"), V), cnt.h, Bp("h"), Act("h"), Act("v"))

----------------------------------------------------------------------------
(* The way to the first one. *)

\* A counter beyond its end does what the last value does.
Within(c, size) == IF c >= size THEN size - 1 ELSE c

LinesLeft(v, bp, height) == IF v < bp THEN bp - v ELSE height + bp - v

\* Edges to the next pixel's edge, and to the one at which vblank falls.
EdgesLeft(c, enable) == IF enable THEN 1 ELSE 5 - c
ClksLeft(lines, h, width, edges) == 4 * (width * lines - h - 1) + edges

LeftAt(w, height, vbp, h, v, c, enable) ==
    ClksLeft(LinesLeft(Within(v, height), vbp, height), Within(h, w), w, EdgesLeft(c, enable))
Left == LeftAt(H, V, Bp("v"), cnt.h, cnt.v, cencnt, cen)

----------------------------------------------------------------------------
TypeOK ==
    /\ ctrl \in [Regs -> 0..(Width - 1)]
    /\ d \in [Axes -> [b : 0..(Width - 1), s : 0..(Width - 1), e : 0..(Width - 1)]]
    /\ cnt \in [Axes -> 0..(Width - 1)]
    /\ cencnt \in 0..(CenWidth - 1) /\ cen \in BOOLEAN
    /\ mode \in Modes /\ next \in 1..11 /\ calm \in 0..4
    /\ lead \in Nat /\ clks \in Nat \union {-1}

\* The registers written so far, and the sums that have arrived since the last one.
Written ==
    /\ \A i \in 1..10 : i < next => ctrl[Order[i]] = mode[Order[i]]
    /\ next > 10 => \A x \in Axes :
        /\ calm >= 1 => d[x].b = Act(x) + Bp(x)
        /\ calm >= 2 => d[x].s = Act(x) + Bp(x) + ctrl[<<x, "fp">>]
        /\ calm >= 3 => d[x].e = Size(ctrl, x)

Histories ==
    /\ clks >= 0 => Measured /\ lead = 0
    /\ clks < 0 => frame = <<>>
    /\ clks < 0 /\ ~Steady => lead = 0
    /\ clks < 0 /\ Steady => lead + Left <= FrameClks + 1
    /\ frame # <<>> => frame = <<FrameClks, Act("h") * Act("v")>>

\* The inductive invariant.
IInv == TypeOK /\ Written /\ Histories

----------------------------------------------------------------------------
(* The registers. *)

Fields == {"act", "fp", "s", "bp"}

LEMMA OrderIs ==
    /\ Len(Order) = 10
    /\ Order[1] = <<"ce", "numer">> /\ Order[2] = <<"ce", "denom">>
    /\ Order[3] = <<"h", "act">> /\ Order[4] = <<"h", "fp">>
    /\ Order[5] = <<"h", "s">> /\ Order[6] = <<"h", "bp">>
    /\ Order[7] = <<"v", "act">> /\ Order[8] = <<"v", "fp">>
    /\ Order[9] = <<"v", "s">> /\ Order[10] = <<"v", "bp">>
  BY DEF Order

\* Every register is one of those written.
LEMMA AllWritten ==
    /\ \A i \in 1..10 : Order[i] \in Regs
    /\ \A r \in Regs : \E i \in 1..10 : r = Order[i]
    /\ <<"ce", "numer">> \in Regs /\ <<"ce", "denom">> \in Regs
    /\ \A x \in Axes, f \in Fields : <<x, f>> \in Regs
  <1>1. /\ \A i \in 1..10 : Order[i] \in Regs
        /\ \A r \in Regs : \E i \in 1..10 : r = Order[i]
    BY OrderIs DEF Regs
  <1>2. <<"ce", "numer">> \in Regs /\ <<"ce", "denom">> \in Regs
    BY <1>1, OrderIs
  <1>3. ASSUME NEW f \in Fields
        PROVE  <<"h", f>> \in Regs /\ <<"v", f>> \in Regs
    BY <1>1, OrderIs DEF Fields
  <1> QED
    BY <1>1, <1>2, <1>3, Zenon DEF Axes

LEMMA Constants ==
    /\ Width \in Nat /\ Width > 0 /\ CenWidth \in Nat /\ CenWidth >= 8 /\ CE_DENOM = 4
  BY CrtcAssumption DEF CE_DENOM

LEMMA ModeFits ==
    ASSUME NEW c \in Modes
    PROVE  /\ c \in [Regs -> 1..(Width - 1)]
           /\ c[<<"ce", "numer">>] = 1 /\ c[<<"ce", "denom">>] = 4
           /\ \A x \in Axes : /\ Size(c, x) < Width
                              /\ \A f \in Fields : c[<<x, f>>] \in Nat /\ c[<<x, f>>] >= 1
  <1>1. c \in [Regs -> 1..(Width - 1)]
    BY CrtcAssumption
  <1>2. /\ c[<<"ce", "numer">>] = 1 /\ c[<<"ce", "denom">>] = 4
        /\ \A x \in Axes : Size(c, x) < Width
    BY CrtcAssumption DEF CE_DENOM
  <1>3. ASSUME NEW x \in Axes, NEW f \in Fields
        PROVE  c[<<x, f>>] \in Nat /\ c[<<x, f>>] >= 1
    <2>1. c[<<x, f>>] \in 1..(Width - 1)
      BY <1>1, AllWritten
    <2> QED
      BY <2>1, Constants
  <1> QED
    BY <1>1, <1>2, <1>3

\* A mode whose last register is written.
LEMMA Programmed ==
    ASSUME TypeOK, Written, next > 10
    PROVE  /\ ctrl = mode
           /\ numer = 1 /\ denom = 4
           /\ \A x \in Axes : /\ Size(ctrl, x) = Bp(x) + Act(x) + ctrl[<<x, "fp">>] + ctrl[<<x, "s">>]
                              /\ Size(ctrl, x) \in Nat /\ Size(ctrl, x) < Width
                              /\ Bp(x) \in Nat /\ Bp(x) >= 1 /\ Act(x) \in Nat /\ Act(x) >= 1
                              /\ ctrl[<<x, "fp">>] \in Nat /\ ctrl[<<x, "fp">>] >= 1
                              /\ ctrl[<<x, "s">>] \in Nat /\ ctrl[<<x, "s">>] >= 1
  <1>1. mode \in Modes /\ next = 11
    BY DEF TypeOK
  <1>2. ctrl = mode
    <2>1. mode \in [Regs -> 1..(Width - 1)] /\ ctrl \in [Regs -> 0..(Width - 1)]
      BY <1>1, ModeFits DEF TypeOK
    <2>2. \A i \in 1..10 : ctrl[Order[i]] = mode[Order[i]]
      BY <1>1 DEF Written
    <2>3. \A r \in Regs : ctrl[r] = mode[r]
      BY <2>2, AllWritten
    <2> QED
      BY <2>1, <2>3
  <1>3. numer = 1 /\ denom = 4
    BY <1>1, <1>2, ModeFits DEF numer, denom
  <1>4. ASSUME NEW x \in Axes
        PROVE  /\ Size(ctrl, x) = Bp(x) + Act(x) + ctrl[<<x, "fp">>] + ctrl[<<x, "s">>]
               /\ Size(ctrl, x) \in Nat /\ Size(ctrl, x) < Width
               /\ Bp(x) \in Nat /\ Bp(x) >= 1 /\ Act(x) \in Nat /\ Act(x) >= 1
               /\ ctrl[<<x, "fp">>] \in Nat /\ ctrl[<<x, "fp">>] >= 1
               /\ ctrl[<<x, "s">>] \in Nat /\ ctrl[<<x, "s">>] >= 1
    <2>1. Size(ctrl, x) < Width /\ \A f \in Fields : ctrl[<<x, f>>] \in Nat /\ ctrl[<<x, f>>] >= 1
      BY <1>1, <1>2, ModeFits
    <2>2. /\ Bp(x) \in Nat /\ Bp(x) >= 1 /\ Act(x) \in Nat /\ Act(x) >= 1
          /\ ctrl[<<x, "fp">>] \in Nat /\ ctrl[<<x, "fp">>] >= 1
          /\ ctrl[<<x, "s">>] \in Nat /\ ctrl[<<x, "s">>] >= 1
      BY <2>1 DEF Fields, Bp, Act
    <2>3. Size(ctrl, x) = Bp(x) + Act(x) + ctrl[<<x, "fp">>] + ctrl[<<x, "s">>]
      BY DEF Size, Bp, Act
    <2> QED
      BY <2>1, <2>2, <2>3
  <1> QED
    BY <1>2, <1>3, <1>4

----------------------------------------------------------------------------
(* Types. *)

LEMMA ModRange ==
    ASSUME NEW a \in Int, NEW n \in Nat, n > 0
    PROVE  a % n \in 0..(n - 1)
  BY SMT

LEMMA SmallMod ==
    ASSUME NEW n \in Nat, NEW a \in 0..(n - 1)
    PROVE  a % n = a
  BY SMT

LEMMA EdgeTypes ==
    ASSUME TypeOK, Edge
    PROVE  /\ d' \in [Axes -> [b : 0..(Width - 1), s : 0..(Width - 1), e : 0..(Width - 1)]]
           /\ cnt' \in [Axes -> 0..(Width - 1)]
           /\ cencnt' \in 0..(CenWidth - 1) /\ cen' \in BOOLEAN
  <1>1. d' \in [Axes -> [b : 0..(Width - 1), s : 0..(Width - 1), e : 0..(Width - 1)]]
    <2>1. ASSUME NEW x \in Axes
          PROVE  Sums(x) \in [b : 0..(Width - 1), s : 0..(Width - 1), e : 0..(Width - 1)]
      <3>1. \A f \in Fields : ctrl[<<x, f>>] \in 0..(Width - 1)
        BY AllWritten DEF TypeOK
      <3>2. /\ ctrl[<<x, "act">>] \in Int /\ ctrl[<<x, "bp">>] \in Int
            /\ ctrl[<<x, "fp">>] \in Int /\ ctrl[<<x, "s">>] \in Int
        BY <3>1, Constants DEF Fields
      <3>3. d[x].b \in Int /\ d[x].s \in Int
        BY Constants DEF TypeOK
      <3>4. /\ (ctrl[<<x, "act">>] + ctrl[<<x, "bp">>]) % Width \in 0..(Width - 1)
            /\ (d[x].b + ctrl[<<x, "fp">>]) % Width \in 0..(Width - 1)
            /\ (d[x].s + ctrl[<<x, "s">>]) % Width \in 0..(Width - 1)
        BY <3>2, <3>3, Constants, ModRange
      <3> QED
        BY <3>4 DEF Sums
    <2> QED
      BY <2>1 DEF Edge
  <1>2. cnt' \in [Axes -> 0..(Width - 1)]
    <2>1. cnt["h"] \in 0..(Width - 1) /\ cnt["v"] \in 0..(Width - 1) /\ 0 \in 0..(Width - 1)
      BY Constants DEF TypeOK, Axes
    <2>2. (cnt["h"] + 1) % Width \in 0..(Width - 1) /\ (cnt["v"] + 1) % Width \in 0..(Width - 1)
      BY <2>1, Constants, ModRange
    <2>3. Counted.h \in 0..(Width - 1) /\ Counted.v \in 0..(Width - 1)
      BY <2>1, <2>2 DEF Counted
    <2>4. Counted = [x \in Axes |-> IF x = "h" THEN Counted.h ELSE Counted.v]
      BY DEF Counted, Axes
    <2>5. Counted \in [Axes -> 0..(Width - 1)]
      BY <2>3, <2>4
    <2> QED
      BY <2>5 DEF Edge, TypeOK
  <1>3. cencnt' \in 0..(CenWidth - 1) /\ cen' \in BOOLEAN
    <2>1. numer \in Int /\ denom \in Int
      BY AllWritten, Constants DEF TypeOK, numer, denom
    <2>2. cencnt \in Int
      BY Constants DEF TypeOK
    <2>3. /\ (cencnt + numer - denom) % CenWidth \in 0..(CenWidth - 1)
          /\ (cencnt + numer) % CenWidth \in 0..(CenWidth - 1)
      BY <2>1, <2>2, Constants, ModRange
    <2> QED
      BY <2>3 DEF Edge, CenEdge, Count, Over
  <1> QED
    BY <1>1, <1>2, <1>3

----------------------------------------------------------------------------
(* The sums and the registers. *)

\* A sum is right one clock after what it adds.
LEMMA SumsArrive ==
    ASSUME TypeOK, Written, Edge, next > 10, NEW x \in Axes
    PROVE  /\ d'[x].b = Act(x) + Bp(x)
           /\ calm >= 1 => d'[x].s = Act(x) + Bp(x) + ctrl[<<x, "fp">>]
           /\ calm >= 2 => d'[x].e = Size(ctrl, x)
  <1>1. /\ Size(ctrl, x) = Bp(x) + Act(x) + ctrl[<<x, "fp">>] + ctrl[<<x, "s">>]
        /\ Size(ctrl, x) < Width
        /\ Bp(x) \in Nat /\ Act(x) \in Nat
        /\ ctrl[<<x, "fp">>] \in Nat /\ ctrl[<<x, "s">>] \in Nat
    BY Programmed
  <1>2. /\ d'[x].b = (Act(x) + Bp(x)) % Width
        /\ d'[x].s = (d[x].b + ctrl[<<x, "fp">>]) % Width
        /\ d'[x].e = (d[x].s + ctrl[<<x, "s">>]) % Width
    BY DEF Edge, Sums, Act, Bp
  <1>3. /\ Act(x) + Bp(x) \in 0..(Width - 1)
        /\ Act(x) + Bp(x) + ctrl[<<x, "fp">>] \in 0..(Width - 1)
        /\ Act(x) + Bp(x) + ctrl[<<x, "fp">>] + ctrl[<<x, "s">>] \in 0..(Width - 1)
    BY <1>1, Constants
  <1>4. /\ (Act(x) + Bp(x)) % Width = Act(x) + Bp(x)
        /\ (Act(x) + Bp(x) + ctrl[<<x, "fp">>]) % Width = Act(x) + Bp(x) + ctrl[<<x, "fp">>]
        /\ (Act(x) + Bp(x) + ctrl[<<x, "fp">>] + ctrl[<<x, "s">>]) % Width = Size(ctrl, x)
    <2>1. Size(ctrl, x) = Act(x) + Bp(x) + ctrl[<<x, "fp">>] + ctrl[<<x, "s">>]
      BY <1>1
    <2> QED
      BY <1>3, <2>1, SmallMod, Constants
  <1>5. /\ calm >= 1 => d[x].b = Act(x) + Bp(x)
        /\ calm >= 2 => d[x].s = Act(x) + Bp(x) + ctrl[<<x, "fp">>]
    BY DEF Written
  <1> QED
    BY <1>2, <1>4, <1>5

LEMMA WrittenClk ==
    ASSUME TypeOK, Written, Clk
    PROVE  Written'
  <1>1. Edge /\ ctrl' = ctrl /\ mode' = mode /\ next' = next
    BY DEF Clk
  <1>2. calm \in 0..4 /\ calm' = (IF calm < 4 THEN calm + 1 ELSE 4)
    BY DEF Clk, TypeOK
  <1>3. (\A i \in 1..10 : i < next => ctrl[Order[i]] = mode[Order[i]])'
    BY <1>1 DEF Written
  <1>4. ASSUME next' > 10, NEW x \in Axes
        PROVE  (/\ calm >= 1 => d[x].b = Act(x) + Bp(x)
                /\ calm >= 2 => d[x].s = Act(x) + Bp(x) + ctrl[<<x, "fp">>]
                /\ calm >= 3 => d[x].e = Size(ctrl, x))'
    <2>1. /\ d'[x].b = Act(x) + Bp(x)
          /\ calm >= 1 => d'[x].s = Act(x) + Bp(x) + ctrl[<<x, "fp">>]
          /\ calm >= 2 => d'[x].e = Size(ctrl, x)
      BY <1>1, <1>4, SumsArrive
    <2>2. Act(x)' = Act(x) /\ Bp(x)' = Bp(x) /\ Size(ctrl, x)' = Size(ctrl, x)
      BY <1>1 DEF Act, Bp, Size
    <2>3. (calm' >= 2 => calm >= 1) /\ (calm' >= 3 => calm >= 2)
      BY <1>2
    <2> QED
      BY <1>1, <2>1, <2>2, <2>3
  <1> QED
    BY <1>3, <1>4 DEF Written

LEMMA WrittenReg ==
    ASSUME TypeOK, Written, WriteReg
    PROVE  Written' /\ ctrl' \in [Regs -> 0..(Width - 1)]
  <1>1. next \in 1..10 /\ next' = next + 1 /\ calm' = 0 /\ mode' = mode
    BY OrderIs DEF WriteReg, TypeOK
  <1>2. ctrl' = [ctrl EXCEPT ![Order[next]] = mode[Order[next]]]
    BY DEF WriteReg
  <1>3. mode[Order[next]] \in 0..(Width - 1)
    <2>1. mode \in [Regs -> 1..(Width - 1)] /\ Order[next] \in Regs
      BY <1>1, ModeFits, AllWritten DEF TypeOK
    <2>2. mode[Order[next]] \in 1..(Width - 1)
      BY <2>1
    <2> QED
      BY <2>2, Constants
  <1>4. ctrl' \in [Regs -> 0..(Width - 1)]
    BY <1>2, <1>3, Zenon DEF TypeOK
  <1>5. ASSUME NEW i \in 1..10, i < next'
        PROVE  ctrl'[Order[i]] = mode'[Order[i]]
    <2>1. Order[i] \in Regs /\ ctrl \in [Regs -> 0..(Width - 1)]
      BY AllWritten DEF TypeOK
    <2>2. i = next \/ i < next
      BY <1>1, <1>5
    <2>3. ctrl[Order[i]] = mode[Order[i]] \/ i = next
      BY <2>2 DEF Written
    <2> QED
      BY <1>1, <1>2, <2>1, <2>3
  <1> QED
    BY <1>1, <1>4, <1>5 DEF Written

LEMMA WrittenMode ==
    ASSUME TypeOK, Written, SetMode
    PROVE  Written'
  BY DEF SetMode, Written

----------------------------------------------------------------------------
(* A clock of a steady mode. *)

NextCen(c) == IF c = 3 THEN 0 ELSE c + 1

\* One pixel in four clocks.
LEMMA SteadyRange ==
    ASSUME TypeOK, Written, Steady
    PROVE  cencnt \in 0..3
  <1>1. numer = 1 /\ denom = 4
    BY Programmed, OrderIs DEF Steady
  <1> QED
    BY <1>1, Constants DEF Steady, Regular, TypeOK

LEMMA SteadyCen ==
    ASSUME TypeOK, Written, Steady, Clk
    PROVE  /\ cencnt \in 0..3 /\ (cen => cencnt = 0)
           /\ cencnt' = NextCen(cencnt)
           /\ cen' = (cencnt = 3)
           /\ Steady'
  <1>1. next > 10 /\ calm = 4
    BY OrderIs DEF Steady
  <1>2. numer = 1 /\ denom = 4
    BY <1>1, Programmed
  <1>3. cencnt \in 0..3
    BY <1>2, Constants DEF Steady, Regular, TypeOK
  <1>4. cen => cencnt = 0
    BY <1>2, <1>3 DEF Steady, Regular
  <1>5. cencnt' = Count(1, 4) /\ cen' = Over(1, 4)
    BY <1>2 DEF Clk, Edge, CenEdge
  <1>6. (cencnt + 1) % CenWidth = cencnt + 1
    BY <1>3, Constants, SmallMod
  <1>7. Over(1, 4) = (cencnt = 3)
    BY <1>3, <1>6 DEF Over
  <1>8. 0 % CenWidth = 0
    BY Constants, SmallMod
  <1>9. cencnt = 3 => (cencnt + 1 - 4) % CenWidth = 0
    BY <1>8
  <1>10. cencnt' = NextCen(cencnt)
    BY <1>5, <1>6, <1>7, <1>9, Zenon DEF Count, NextCen
  <1>11. next' > 10 /\ calm' = 4 /\ numer' = 1 /\ denom' = 4
    BY <1>1, <1>2 DEF Clk, numer, denom
  <1>12. cencnt' < 4 /\ (cencnt = 3 => cencnt' < 1)
    BY <1>3, <1>10 DEF NextCen
  <1>13. Steady'
    <2>1. 0 < numer' /\ numer' <= denom' /\ cencnt' < denom'
      BY <1>11, <1>12
    <2>2. cen' => cencnt' < 1
      BY <1>5, <1>7, <1>12, Zenon
    <2>3. cen' => cencnt' < numer'
      BY <1>11, <2>2
    <2>4. Regular(numer, denom)'
      BY <2>1, <2>3 DEF Regular
    <2>5. (next > Len(Order))'
      BY <1>11, OrderIs
    <2> QED
      BY <1>11, <2>4, <2>5 DEF Steady
  <1> QED
    BY <1>3, <1>4, <1>5, <1>7, <1>10, <1>13

\* A counter's next value.
Stepped(c, size) == IF c >= size - 1 THEN 0 ELSE c + 1

\* Whether vblank falls at a step to a new line.
FallsAt(h, width, v, bp) == h >= width - 1 /\ v = bp - 1

LEMMA Sizes ==
    ASSUME TypeOK, Written, next > 10
    PROVE  /\ H \in Nat /\ V \in Nat /\ H < Width /\ V < Width
           /\ Bp("h") \in Nat /\ Bp("h") >= 1 /\ Act("h") \in Nat /\ Act("h") >= 1
           /\ Bp("v") \in Nat /\ Bp("v") >= 1 /\ Act("v") \in Nat /\ Act("v") >= 1
           /\ Bp("h") + Act("h") + 2 <= H /\ Bp("v") + Act("v") + 2 <= V
  <1>1. \A x \in Axes : /\ Size(ctrl, x) \in Nat /\ Size(ctrl, x) < Width
                        /\ Bp(x) \in Nat /\ Bp(x) >= 1 /\ Act(x) \in Nat /\ Act(x) >= 1
                        /\ Bp(x) + Act(x) + 2 <= Size(ctrl, x)
    <2> TAKE x \in Axes
    <2>1. /\ Size(ctrl, x) = Bp(x) + Act(x) + ctrl[<<x, "fp">>] + ctrl[<<x, "s">>]
          /\ Size(ctrl, x) \in Nat /\ Size(ctrl, x) < Width
          /\ Bp(x) \in Nat /\ Bp(x) >= 1 /\ Act(x) \in Nat /\ Act(x) >= 1
          /\ ctrl[<<x, "fp">>] \in Nat /\ ctrl[<<x, "fp">>] >= 1
          /\ ctrl[<<x, "s">>] \in Nat /\ ctrl[<<x, "s">>] >= 1
      BY Programmed
    <2> QED
      BY <2>1
  <1>2. "h" \in Axes /\ "v" \in Axes
    BY DEF Axes
  <1>3. /\ H \in Nat /\ H < Width
        /\ Bp("h") \in Nat /\ Bp("h") >= 1 /\ Act("h") \in Nat /\ Act("h") >= 1
        /\ Bp("h") + Act("h") + 2 <= H
    BY <1>1, <1>2, Zenon DEF H
  <1>4. /\ V \in Nat /\ V < Width
        /\ Bp("v") \in Nat /\ Bp("v") >= 1 /\ Act("v") \in Nat /\ Act("v") >= 1
        /\ Bp("v") + Act("v") + 2 <= V
    BY <1>1, <1>2, Zenon DEF V
  <1> QED
    BY <1>3, <1>4

LEMMA SteadySizes ==
    ASSUME TypeOK, Written, Steady
    PROVE  /\ H \in Nat /\ V \in Nat /\ H < Width /\ V < Width
           /\ Bp("h") \in Nat /\ Bp("h") >= 1 /\ Act("h") \in Nat /\ Act("h") >= 1
           /\ Bp("v") \in Nat /\ Bp("v") >= 1 /\ Act("v") \in Nat /\ Act("v") >= 1
           /\ Bp("h") + Act("h") + 2 <= H /\ Bp("v") + Act("v") + 2 <= V
           /\ cnt.h \in Nat /\ cnt.h < Width /\ cnt.v \in Nat /\ cnt.v < Width
  <1>1. next > 10 /\ "h" \in Axes /\ "v" \in Axes
    BY OrderIs DEF Steady, Axes
  <1>2. \A x \in Axes : cnt[x] \in Nat /\ cnt[x] < Width
    BY Constants DEF TypeOK
  <1>3. cnt.h \in Nat /\ cnt.h < Width /\ cnt.v \in Nat /\ cnt.v < Width
    BY <1>1, <1>2
  <1> QED
    BY <1>1, <1>3, Sizes

LEMMA SteadySums ==
    ASSUME TypeOK, Written, Steady
    PROVE  d["h"].e = H /\ d["v"].e = V /\ d["h"].b = Act("h") + Bp("h") /\ d["v"].b = Act("v") + Bp("v")
  <1>1. next > 10 /\ calm = 4 /\ "h" \in Axes /\ "v" \in Axes
    BY OrderIs DEF Steady, Axes
  <1>2. \A x \in Axes : d[x].b = Act(x) + Bp(x) /\ d[x].e = Size(ctrl, x)
    <2> TAKE x \in Axes
    <2>1. /\ calm >= 1 => d[x].b = Act(x) + Bp(x)
          /\ calm >= 3 => d[x].e = Size(ctrl, x)
      BY <1>1, Zenon DEF Written
    <2> QED
      BY <1>1, <2>1
  <1> QED
    BY <1>1, <1>2, Zenon DEF H, V

\* The counters step with the enable, the lines with the end of one.
LEMMA SteadyCount ==
    ASSUME TypeOK, Written, Steady, Clk
    PROVE  /\ ~cen => cnt'.h = cnt.h /\ cnt'.v = cnt.v
           /\ cen => /\ cnt'.h = Stepped(cnt.h, H)
                     /\ cnt'.v = (IF cnt.h >= H - 1 THEN Stepped(cnt.v, V) ELSE cnt.v)
  <1>1. cnt' = IF cen THEN Counted ELSE cnt
    BY DEF Clk, Edge
  <1>2. /\ Wrap("h") <=> cnt.h >= H - 1
        /\ Wrap("v") <=> cnt.v >= V - 1
    <2>1. /\ Wrap("h") <=> H > 0 /\ cnt.h >= H - 1
          /\ Wrap("v") <=> V > 0 /\ cnt.v >= V - 1
      BY SteadySums DEF Wrap
    <2> QED
      BY <2>1, SteadySizes
  <1>3. /\ ~(cnt.h >= H - 1) => (cnt.h + 1) % Width = cnt.h + 1
        /\ ~(cnt.v >= V - 1) => (cnt.v + 1) % Width = cnt.v + 1
    <2>1. /\ ~(cnt.h >= H - 1) => cnt.h + 1 \in 0..(Width - 1)
          /\ ~(cnt.v >= V - 1) => cnt.v + 1 \in 0..(Width - 1)
      BY SteadySizes, Constants
    <2> QED
      BY <2>1, Constants, SmallMod
  <1>4. Counted.h = Stepped(cnt.h, H)
    BY <1>2, <1>3 DEF Counted, Stepped
  <1>5. Counted.v = (IF cnt.h >= H - 1 THEN Stepped(cnt.v, V) ELSE cnt.v)
    BY <1>2, <1>3 DEF Counted, Stepped
  <1> QED
    BY <1>1, <1>4, <1>5

\* Vblank falls with the line after the back porch.
LEMMA FallArith ==
    ASSUME NEW bp \in Nat, NEW act \in Nat, NEW height \in Nat, NEW v \in Nat,
           bp >= 1, act >= 1, bp + act + 2 <= height
    PROVE  /\ Stepped(v, height) \in Nat
           /\ (v >= act + bp \/ v < bp)
                 /\ ~(Stepped(v, height) >= act + bp \/ Stepped(v, height) < bp) <=> v = bp - 1
  BY DEF Stepped

LEMMA SteadyFalls ==
    ASSUME TypeOK, Written, Steady, Clk
    PROVE  /\ Falls <=> cen /\ FallsAt(cnt.h, H, cnt.v, Bp("v"))
           /\ Act("h")' = Act("h") /\ Bp("h")' = Bp("h") /\ H' = H
           /\ Act("v")' = Act("v") /\ Bp("v")' = Bp("v") /\ V' = V
  <1>1. /\ Act("h")' = Act("h") /\ Bp("h")' = Bp("h") /\ H' = H
        /\ Act("v")' = Act("v") /\ Bp("v")' = Bp("v") /\ V' = V
    BY DEF Clk, Act, Bp, H, V, Size
  <1>2. Blank("v") <=> cnt.v >= Act("v") + Bp("v") \/ cnt.v < Bp("v")
    BY SteadySums DEF Blank, Bp
  <1>3. d'["v"].b = Act("v") + Bp("v")
    <2>1. next > 10 /\ "v" \in Axes
      BY OrderIs DEF Steady, Axes
    <2> QED
      BY <2>1, SumsArrive, Zenon DEF Clk
  <1>4. Blank("v")' <=> cnt'.v >= Act("v") + Bp("v") \/ cnt'.v < Bp("v")
    BY <1>1, <1>3 DEF Blank, Bp
  <1>5. CASE ~cen \/ ~(cnt.h >= H - 1)
    <2>1. cnt'.v = cnt.v
      BY <1>5, SteadyCount
    <2>2. ~Falls
      BY <1>2, <1>4, <2>1 DEF Falls
    <2> QED
      BY <1>1, <1>5, <2>2 DEF FallsAt
  <1>6. CASE cen /\ cnt.h >= H - 1
    <2>1. cnt'.v = Stepped(cnt.v, V)
      BY <1>6, SteadyCount
    <2>2. /\ Bp("v") \in Nat /\ Act("v") \in Nat /\ V \in Nat /\ cnt.v \in Nat
          /\ Bp("v") >= 1 /\ Act("v") >= 1 /\ Bp("v") + Act("v") + 2 <= V
      BY SteadySizes
    <2>3. (cnt.v >= Act("v") + Bp("v") \/ cnt.v < Bp("v"))
            /\ ~(Stepped(cnt.v, V) >= Act("v") + Bp("v") \/ Stepped(cnt.v, V) < Bp("v"))
          <=> cnt.v = Bp("v") - 1
      BY <2>2, FallArith, Zenon
    <2>4. Falls <=> cnt.v = Bp("v") - 1
      BY <1>2, <1>4, <2>1, <2>3, Zenon DEF Falls
    <2> QED
      BY <1>1, <1>6, <2>4 DEF FallsAt
  <1> QED
    BY <1>5, <1>6

----------------------------------------------------------------------------
(* Arithmetic of a measured frame. *)

LEMMA LinesStep ==
    ASSUME NEW bp \in Nat, NEW height \in Nat, NEW v \in Nat,
           bp >= 1, bp < height, v < height
    PROVE  /\ LinesGone(v, bp, height) \in 0..(height - 1)
           /\ Stepped(v, height) \in Nat /\ Stepped(v, height) < height
           /\ v # bp - 1 => LinesGone(Stepped(v, height), bp, height) = LinesGone(v, bp, height) + 1
           /\ v = bp - 1 => /\ LinesGone(v, bp, height) = height - 1
                            /\ LinesGone(Stepped(v, height), bp, height) = 0
  BY DEF LinesGone, Stepped

\* A clock of a pixel.
LEMMA ClksInPixel ==
    ASSUME NEW l \in Nat, NEW h \in Nat, NEW w \in Nat, NEW c \in 1..3
    PROVE  ClksGone(l, h, w, NextCen(c)) = ClksGone(l, h, w, c) + 1
  <1>1. w * l \in Nat
    OBVIOUS
  <1> QED
    BY <1>1 DEF ClksGone, NextCen

\* The last one of a pixel, the last one of a line.
LEMMA ClksStep ==
    ASSUME NEW l \in Nat, NEW h \in Nat, NEW w \in Nat, h < w
    PROVE  /\ h < w - 1 => ClksGone(l, h + 1, w, 1) = ClksGone(l, h, w, 0) + 1
           /\ h = w - 1 => ClksGone(l + 1, 0, w, 1) = ClksGone(l, h, w, 0) + 1
  <1>1. w * l \in Nat /\ w * (l + 1) = w * l + w
    OBVIOUS
  <1>2. \A p \in Nat : 4 * (p + 1) = 4 * p + 3 + 1
    OBVIOUS
  <1> QED
    BY <1>1, <1>2 DEF ClksGone

LEMMA ClksBound ==
    ASSUME NEW w \in Nat, NEW height \in Nat, NEW l \in 0..(height - 1), NEW h \in 0..(w - 1),
           NEW c \in 0..3
    PROVE  ClksGone(l, h, w, c) \in Nat /\ ClksGone(l, h, w, c) + 1 <= 4 * w * height
  <1>1. w * l \in Nat /\ w * height \in Nat /\ 4 * w * height = 4 * (w * height)
    OBVIOUS
  <1>2. w * l + w <= w * height
    <2>1. PICK k \in Nat : height = l + 1 + k
      <3>1. height - l - 1 \in Nat
        OBVIOUS
      <3> QED
        BY <3>1
    <2>2. w * k \in Nat /\ w * (l + 1 + k) = w * l + w + w * k
      OBVIOUS
    <2> QED
      BY <1>1, <2>1, <2>2
  <1>3. 4 * (w * l + h) + 4 <= 4 * (w * height)
    BY <1>1, <1>2
  <1> QED
    BY <1>1, <1>3 DEF ClksGone

LEMMA ClksAtFall ==
    ASSUME NEW w \in Nat, NEW height \in Nat, w >= 1, height >= 1
    PROVE  ClksGone(height - 1, w - 1, w, 0) + 1 = 4 * w * height
  <1>1. w * (height - 1) = w * height - w /\ w * height \in Nat /\ 4 * w * height = 4 * (w * height)
    OBVIOUS
  <1> QED
    BY <1>1 DEF ClksGone

\* A product of smaller numbers is smaller.
LEMMA Products ==
    ASSUME NEW a \in Nat, NEW b \in Nat, NEW m \in Nat, NEW n \in Nat, a <= m, b <= n
    PROVE  a * b \in Nat /\ m * n \in Nat /\ a * b <= m * n
  <1>1. PICK i \in Nat, j \in Nat : m = a + i /\ n = b + j
    <2>1. m - a \in Nat /\ n - b \in Nat
      OBVIOUS
    <2> QED
      BY <2>1
  <1>2. /\ a * b \in Nat /\ a * j \in Nat /\ i * b \in Nat /\ i * j \in Nat
        /\ (a + i) * (b + j) = a * b + a * j + i * b + i * j
    OBVIOUS
  <1> QED
    BY <1>1, <1>2

\* Whether pixel c of a line, or line c of a frame, is visible.
Visible(c, bp, act) == bp <= c /\ c < bp + act

\* How many pixels pixel h of line l shows.
Shown(l, h, bp, act, rows) == IF Visible(h, bp, act) /\ l < rows THEN 1 ELSE 0

\* The visible lines of a frame are the first ones after vblank fell.
LEMMA VisibleLines ==
    ASSUME NEW bp \in Nat, NEW act \in Nat, NEW height \in Nat, NEW v \in Nat,
           bp + act + 2 <= height, v < height
    PROVE  Visible(v, bp, act) <=> LinesGone(v, bp, height) < act
  BY DEF Visible, LinesGone

LEMMA PixelsStep ==
    ASSUME NEW h \in Nat, NEW bp \in Nat, NEW act \in Nat, bp >= 1
    PROVE  /\ PixelsGone(h, bp, act) \in 0..act /\ PixelsGone(0, bp, act) = 0
           /\ PixelsGone(h + 1, bp, act) = PixelsGone(h, bp, act) + (IF Visible(h, bp, act) THEN 1 ELSE 0)
           /\ h >= bp + act => PixelsGone(h, bp, act) = act /\ ~Visible(h, bp, act)
  BY DEF PixelsGone, Visible

\* The visible pixels counted, before and after a pixel.
LEMMA VisStep ==
    ASSUME NEW l \in Nat, NEW h \in Nat, NEW bp \in Nat, NEW act \in Nat, NEW rows \in Nat, bp >= 1
    PROVE  /\ VisGone(l, h, bp, act, rows) \in Nat
           /\ VisGone(l, h, bp, act, rows) + Shown(l, h, bp, act, rows) <= act * rows
           /\ VisGone(l, h + 1, bp, act, rows) = VisGone(l, h, bp, act, rows) + Shown(l, h, bp, act, rows)
           /\ h >= bp + act => VisGone(l + 1, 0, bp, act, rows)
                                 = VisGone(l, h, bp, act, rows) + Shown(l, h, bp, act, rows)
  <1>1. act * l \in Nat /\ act * rows \in Nat /\ act * (l + 1) = act * l + act
    OBVIOUS
  <1>2. /\ PixelsGone(h, bp, act) \in 0..act /\ PixelsGone(0, bp, act) = 0
        /\ PixelsGone(h + 1, bp, act) = PixelsGone(h, bp, act) + (IF Visible(h, bp, act) THEN 1 ELSE 0)
        /\ h >= bp + act => PixelsGone(h, bp, act) = act /\ ~Visible(h, bp, act)
    BY PixelsStep
  <1>3. PixelsGone(h + 1, bp, act) <= act
    BY PixelsStep
  <1>4. CASE l < rows
    <2>1. VisGone(l, h, bp, act, rows) = act * l + PixelsGone(h, bp, act)
      BY <1>4 DEF VisGone
    <2>2. VisGone(l, h + 1, bp, act, rows) = act * l + PixelsGone(h + 1, bp, act)
      BY <1>4 DEF VisGone
    <2>3. act * (l + 1) <= act * rows
      BY <1>4, Products
    <2>4. VisGone(l + 1, 0, bp, act, rows) = act * (l + 1)
      <3>1. CASE l + 1 < rows
        BY <1>1, <1>2, <3>1 DEF VisGone
      <3>2. CASE l + 1 = rows
        BY <3>2 DEF VisGone
      <3> QED
        BY <1>4, <3>1, <3>2
    <2>5. Shown(l, h, bp, act, rows) = IF Visible(h, bp, act) THEN 1 ELSE 0
      BY <1>4 DEF Shown
    <2> QED
      BY <1>1, <1>2, <1>3, <2>1, <2>2, <2>3, <2>4, <2>5
  <1>5. CASE ~(l < rows)
    BY <1>1, <1>5 DEF VisGone, Shown
  <1> QED
    BY <1>4, <1>5

\* The sizes of a mode, the place in its frame, and the place one clock later.
Fits(w, hbp, hact, height, vbp, vact) ==
    /\ w \in Nat /\ hbp \in Nat /\ hact \in Nat /\ hbp >= 1 /\ hact >= 1 /\ hbp + hact + 2 <= w
    /\ height \in Nat /\ vbp \in Nat /\ vact \in Nat /\ vbp >= 1 /\ vact >= 1 /\ vbp + vact + 2 <= height
Inside(w, height, h, v) == h \in 0..(w - 1) /\ v \in 0..(height - 1)
StepsTo(w, height, h, v, tick, hNext, vNext) ==
    /\ ~tick => hNext = h /\ vNext = v
    /\ tick => /\ hNext = Stepped(h, w)
               /\ vNext = (IF h >= w - 1 THEN Stepped(v, height) ELSE v)

\* What the clock does to the histories.
Advances(w, hbp, hact, height, vbp, vact, h, v, c, hNext, vNext) ==
    /\ Inside(w, height, hNext, vNext)
    /\ ClksGone(LinesGone(vNext, vbp, height), hNext, w, NextCen(c))
         = ClksGone(LinesGone(v, vbp, height), h, w, c) + 1
    /\ VisGone(LinesGone(vNext, vbp, height), hNext, hbp, hact, vact)
         = VisGone(LinesGone(v, vbp, height), h, hbp, hact, vact)
             + (IF c = 0 /\ Visible(h, hbp, hact) /\ Visible(v, vbp, vact) THEN 1 ELSE 0)

\* A clock of a measured frame that does not end it.
LEMMA FrameStep ==
    ASSUME NEW w, NEW hbp, NEW hact, NEW height, NEW vbp, NEW vact, NEW h, NEW v, NEW c \in 0..3,
           NEW hNext, NEW vNext,
           Fits(w, hbp, hact, height, vbp, vact), Inside(w, height, h, v),
           StepsTo(w, height, h, v, c = 0, hNext, vNext), ~(c = 0 /\ FallsAt(h, w, v, vbp))
    PROVE  Advances(w, hbp, hact, height, vbp, vact, h, v, c, hNext, vNext)
  <1> DEFINE l == LinesGone(v, vbp, height)
  <1>1. hbp \in Nat /\ hact \in Nat /\ vact \in Nat /\ hbp >= 1 /\ h \in Nat
    BY DEF Fits, Inside
  <1>2. w \in Nat /\ h < w /\ hbp + hact + 2 <= w
    BY DEF Fits, Inside
  <1>3. vbp \in Nat /\ height \in Nat /\ v \in Nat /\ vbp >= 1 /\ vbp + vact + 2 <= height /\ v < height
    BY DEF Fits, Inside
  <1>4. /\ c # 0 => hNext = h /\ vNext = v
        /\ c = 0 => /\ hNext = Stepped(h, w)
                    /\ vNext = (IF h >= w - 1 THEN Stepped(v, height) ELSE v)
                    /\ ~FallsAt(h, w, v, vbp)
    BY DEF StepsTo
  <1>5. l \in Nat /\ (Visible(v, vbp, vact) <=> l < vact)
    BY <1>1, <1>3, LinesStep, VisibleLines
  <1>6. VisGone(l, h, hbp, hact, vact) \in Nat
    BY <1>1, <1>5, VisStep, Zenon
  <1> HIDE DEF l
  <1>7. CASE c # 0
    <2>1. hNext = h /\ LinesGone(vNext, vbp, height) = l
      BY <1>4, <1>7 DEF l
    <2>2. ClksGone(l, h, w, NextCen(c)) = ClksGone(l, h, w, c) + 1
      BY <1>1, <1>2, <1>5, <1>7, ClksInPixel
    <2> QED
      BY <1>4, <1>6, <1>7, <2>1, <2>2 DEF Advances, l
  <1>8. ASSUME c = 0
        PROVE  /\ NextCen(c) = 1
               /\ Shown(l, h, hbp, hact, vact)
                    = (IF c = 0 /\ Visible(h, hbp, hact) /\ Visible(v, vbp, vact) THEN 1 ELSE 0)
    BY <1>5, <1>8 DEF Shown, NextCen
  <1>9. CASE c = 0 /\ h < w - 1
    <2>1. hNext = h + 1 /\ vNext = v /\ LinesGone(vNext, vbp, height) = l
      BY <1>1, <1>2, <1>4, <1>9 DEF Stepped, l
    <2>2. ClksGone(l, h + 1, w, 1) = ClksGone(l, h, w, 0) + 1
      BY <1>1, <1>2, <1>5, <1>9, ClksStep
    <2>3. VisGone(l, h + 1, hbp, hact, vact) = VisGone(l, h, hbp, hact, vact) + Shown(l, h, hbp, hact, vact)
      BY <1>1, <1>5, VisStep
    <2>4. Inside(w, height, hNext, vNext)
      BY <1>1, <1>2, <1>3, <1>9, <2>1 DEF Inside
    <2> QED
      BY <1>8, <1>9, <2>1, <2>2, <2>3, <2>4, Zenon DEF Advances, l
  <1>10. CASE c = 0 /\ h = w - 1
    <2>1. hNext = 0 /\ vNext = Stepped(v, height) /\ v # vbp - 1
      BY <1>1, <1>2, <1>4, <1>10 DEF Stepped, FallsAt
    <2>2. Stepped(v, height) \in 0..(height - 1) /\ LinesGone(Stepped(v, height), vbp, height) = l + 1
      BY <1>1, <1>3, <2>1, LinesStep DEF l
    <2>3. ClksGone(l + 1, 0, w, 1) = ClksGone(l, h, w, 0) + 1
      BY <1>1, <1>2, <1>5, <1>10, ClksStep
    <2>4. h >= hbp + hact
      BY <1>1, <1>2, <1>10
    <2>5. VisGone(l + 1, 0, hbp, hact, vact) = VisGone(l, h, hbp, hact, vact) + Shown(l, h, hbp, hact, vact)
      BY <1>1, <1>5, <2>4, VisStep
    <2>6. Inside(w, height, hNext, vNext)
      BY <1>2, <2>1, <2>2 DEF Inside
    <2> QED
      BY <1>8, <1>10, <2>1, <2>2, <2>3, <2>5, <2>6, Zenon DEF Advances, l
  <1> QED
    BY <1>1, <1>2, <1>7, <1>9, <1>10

\* The clock that ends it.
LEMMA FrameEnd ==
    ASSUME NEW w, NEW hbp, NEW hact, NEW height, NEW vbp, NEW vact, NEW h, NEW v,
           Fits(w, hbp, hact, height, vbp, vact), Inside(w, height, h, v), FallsAt(h, w, v, vbp)
    PROVE  /\ ClksGone(LinesGone(v, vbp, height), h, w, 0) + 1 = 4 * w * height
           /\ VisGone(LinesGone(v, vbp, height), h, hbp, hact, vact) = hact * vact
           /\ ~Visible(v, vbp, vact)
  <1>1. /\ w \in Nat /\ w >= 1 /\ h = w - 1
    BY DEF Fits, Inside, FallsAt
  <1>2. height \in Nat /\ vbp \in Nat /\ vact \in Nat /\ vbp >= 1 /\ vbp + vact + 2 <= height
    BY DEF Fits
  <1>3. v = vbp - 1
    BY DEF FallsAt
  <1>4. LinesGone(v, vbp, height) = height - 1
    BY <1>2, <1>3 DEF LinesGone
  <1>5. ClksGone(height - 1, w - 1, w, 0) + 1 = 4 * w * height
    BY <1>1, <1>2, ClksAtFall
  <1>6. VisGone(height - 1, h, hbp, hact, vact) = hact * vact
    BY <1>2 DEF VisGone
  <1>7. ~Visible(v, vbp, vact)
    BY <1>2, <1>3 DEF Visible
  <1> QED
    BY <1>1, <1>4, <1>5, <1>6, <1>7, Zenon

\* The first clock of the next one.
LEMMA FrameBegin ==
    ASSUME NEW w, NEW hbp, NEW hact, NEW height, NEW vbp, NEW vact, NEW h, NEW v, NEW hNext, NEW vNext,
           Fits(w, hbp, hact, height, vbp, vact), FallsAt(h, w, v, vbp),
           StepsTo(w, height, h, v, TRUE, hNext, vNext)
    PROVE  /\ Inside(w, height, hNext, vNext)
           /\ ClksGone(LinesGone(vNext, vbp, height), hNext, w, 1) = 0
           /\ VisGone(LinesGone(vNext, vbp, height), hNext, hbp, hact, vact) = 0
  <1>1. w \in Nat /\ w >= 1 /\ hbp \in Nat /\ hbp >= 1 /\ hact \in Nat
    BY DEF Fits
  <1>2. height \in Nat /\ vbp \in Nat /\ vact \in Nat /\ vbp >= 1 /\ vact >= 1 /\ vbp + vact + 2 <= height
    BY DEF Fits
  <1>3. hNext = 0 /\ vNext = vbp
    BY <1>2 DEF FallsAt, StepsTo, Stepped
  <1>4. Inside(w, height, 0, vbp) /\ LinesGone(vbp, vbp, height) = 0
    BY <1>1, <1>2 DEF Inside, LinesGone
  <1>5. ClksGone(0, 0, w, 1) = 0
    BY <1>1 DEF ClksGone
  <1>6. VisGone(0, 0, hbp, hact, vact) = 0
    BY <1>1, <1>2 DEF VisGone, PixelsGone
  <1> QED
    BY <1>3, <1>4, <1>5, <1>6, Zenon

----------------------------------------------------------------------------
(* Arithmetic of the way to the first frame. *)

LEMMA LinesLeftStep ==
    ASSUME NEW bp \in Nat, NEW height \in Nat, NEW v \in Nat, bp >= 1, bp < height
    PROVE  /\ LinesLeft(Within(v, height), bp, height) \in 1..height
           /\ v # bp - 1 => LinesLeft(Within(Stepped(v, height), height), bp, height)
                               = LinesLeft(Within(v, height), bp, height) - 1
  BY DEF LinesLeft, Within, Stepped

LEMMA LeftBounds ==
    ASSUME NEW l \in Nat, NEW height \in Nat, NEW h \in Nat, NEW w \in Nat, NEW c \in 0..3,
           NEW enable \in BOOLEAN, l >= 1, l <= height, w >= 1
    PROVE  /\ ClksLeft(l, Within(h, w), w, EdgesLeft(c, enable)) \in Nat
           /\ ClksLeft(l, Within(h, w), w, EdgesLeft(c, enable)) >= 1
           /\ ClksLeft(l, Within(h, w), w, EdgesLeft(c, enable)) <= 4 * w * height + 1
  <1>1. w * l <= w * height /\ w * l \in Nat /\ w * height \in Nat
    BY Products
  <1>2. w <= w * l
    <2>1. w * 1 <= w * l
      BY Products
    <2> QED
      BY <2>1
  <1>3. 4 * w * height = 4 * (w * height)
    OBVIOUS
  <1>4. Within(h, w) \in 0..(w - 1)
    BY DEF Within
  <1>5. EdgesLeft(c, enable) \in 1..5
    BY DEF EdgesLeft
  <1> QED
    BY <1>1, <1>2, <1>3, <1>4, <1>5 DEF ClksLeft

\* A clock between two pixels, and one that ends a pixel or a line.
LEMMA LeftStep ==
    ASSUME NEW l \in Nat, NEW h \in Nat, NEW w \in Nat, w >= 1
    PROVE  /\ ClksLeft(l, h, w, EdgesLeft(0, TRUE)) = ClksLeft(l, h, w, EdgesLeft(3, FALSE)) - 1
           /\ h < w - 1 => ClksLeft(l, Within(Stepped(h, w), w), w, EdgesLeft(1, FALSE))
                             = ClksLeft(l, Within(h, w), w, EdgesLeft(0, TRUE)) - 1
           /\ h >= w - 1 => ClksLeft(l - 1, Within(Stepped(h, w), w), w, EdgesLeft(1, FALSE))
                              = ClksLeft(l, Within(h, w), w, EdgesLeft(0, TRUE)) - 1
  <1>1. w * l \in Nat /\ w * (l - 1) = w * l - w
    OBVIOUS
  <1>2. EdgesLeft(0, TRUE) = 1 /\ EdgesLeft(1, FALSE) = 4 /\ EdgesLeft(3, FALSE) = 2
    BY DEF EdgesLeft
  <1>3. ClksLeft(l, h, w, EdgesLeft(0, TRUE)) = ClksLeft(l, h, w, EdgesLeft(3, FALSE)) - 1
    <2>1. ClksLeft(l, h, w, 1) = ClksLeft(l, h, w, 2) - 1
      BY <1>1 DEF ClksLeft
    <2> QED
      BY <1>2, <2>1, Zenon
  <1>4. h < w - 1 => Within(Stepped(h, w), w) = h + 1 /\ Within(h, w) = h
    BY DEF Within, Stepped
  <1>5. h >= w - 1 => Within(Stepped(h, w), w) = 0 /\ Within(h, w) = w - 1
    BY DEF Within, Stepped
  <1>6. h < w - 1 => ClksLeft(l, h + 1, w, 4) = ClksLeft(l, h, w, 1) - 1
    BY <1>1 DEF ClksLeft
  <1>7. ClksLeft(l - 1, 0, w, 4) = ClksLeft(l, w - 1, w, 1) - 1
    BY <1>1 DEF ClksLeft
  <1>8. h < w - 1 => ClksLeft(l, Within(Stepped(h, w), w), w, EdgesLeft(1, FALSE))
                      = ClksLeft(l, Within(h, w), w, EdgesLeft(0, TRUE)) - 1
    BY <1>2, <1>4, <1>6, Zenon
  <1>9. h >= w - 1 => ClksLeft(l - 1, Within(Stepped(h, w), w), w, EdgesLeft(1, FALSE))
                        = ClksLeft(l, Within(h, w), w, EdgesLeft(0, TRUE)) - 1
    BY <1>2, <1>5, <1>7, Zenon
  <1> QED
    BY <1>3, <1>8, <1>9, Zenon

\* The clocks left are those of a frame at most, and fewer with every clock.
LEMMA LeftRange ==
    ASSUME NEW w, NEW hbp, NEW hact, NEW height, NEW vbp, NEW vact, NEW h \in Nat, NEW v \in Nat,
           NEW c \in 0..3, NEW enable \in BOOLEAN,
           Fits(w, hbp, hact, height, vbp, vact)
    PROVE  /\ LeftAt(w, height, vbp, h, v, c, enable) \in Nat
           /\ LeftAt(w, height, vbp, h, v, c, enable) >= 1
           /\ LeftAt(w, height, vbp, h, v, c, enable) <= 4 * w * height + 1
  <1>1. w \in Nat /\ w >= 1
    BY DEF Fits
  <1>2. vbp \in Nat /\ height \in Nat /\ vbp >= 1 /\ vbp < height
    BY DEF Fits
  <1>3. LinesLeft(Within(v, height), vbp, height) \in 1..height
    BY <1>2, LinesLeftStep
  <1>4. /\ LinesLeft(Within(v, height), vbp, height) \in Nat
        /\ LinesLeft(Within(v, height), vbp, height) >= 1
        /\ LinesLeft(Within(v, height), vbp, height) <= height
    BY <1>2, <1>3
  <1> QED
    BY <1>1, <1>2, <1>4, LeftBounds, Zenon DEF LeftAt

LEMMA LeftFewer ==
    ASSUME NEW w, NEW hbp, NEW hact, NEW height, NEW vbp, NEW vact, NEW h \in Nat, NEW v \in Nat,
           NEW c \in 0..3, NEW enable \in BOOLEAN, NEW hNext, NEW vNext,
           Fits(w, hbp, hact, height, vbp, vact), enable => c = 0,
           StepsTo(w, height, h, v, enable, hNext, vNext), ~(enable /\ FallsAt(h, w, v, vbp))
    PROVE  LeftAt(w, height, vbp, hNext, vNext, NextCen(c), c = 3) = LeftAt(w, height, vbp, h, v, c, enable) - 1
  <1> DEFINE l == LinesLeft(Within(v, height), vbp, height)
             x == Within(h, w)
  <1>1. w \in Nat /\ w >= 1
    BY DEF Fits
  <1>2. vbp \in Nat /\ height \in Nat /\ vbp >= 1 /\ vbp < height
    BY DEF Fits
  <1>3. l \in Nat
    <2>1. l \in 1..height
      BY <1>2, LinesLeftStep
    <2> QED
      BY <1>2, <2>1
  <1>4. x \in Nat
    BY <1>1 DEF Within
  <1>5. CASE ~enable
    <2>1. hNext = h /\ vNext = v /\ enable = FALSE
      BY <1>5 DEF StepsTo
    <2> HIDE DEF l, x
    <2>2. CASE c = 3
      <3>1. ClksLeft(l, x, w, EdgesLeft(0, TRUE)) = ClksLeft(l, x, w, EdgesLeft(3, FALSE)) - 1
        BY <1>1, <1>3, <1>4, LeftStep, Zenon
      <3>2. NextCen(c) = 0 /\ (c = 3) = TRUE
        BY <2>2 DEF NextCen
      <3> QED
        BY <2>1, <2>2, <3>1, <3>2, Zenon DEF LeftAt, l, x
    <2>3. CASE c # 3
      <3>1. c \in 0..2 /\ NextCen(c) = c + 1 /\ (c = 3) = FALSE
        BY <2>3 DEF NextCen
      <3>2. EdgesLeft(c + 1, FALSE) = 4 - c /\ EdgesLeft(c, FALSE) = 5 - c
        BY <3>1 DEF EdgesLeft
      <3>3. w * l \in Nat
        BY <1>1, <1>3
      <3>4. ClksLeft(l, x, w, 4 - c) = ClksLeft(l, x, w, 5 - c) - 1
        BY <1>1, <1>4, <3>1, <3>3 DEF ClksLeft
      <3> QED
        BY <2>1, <3>1, <3>2, <3>4, Zenon DEF LeftAt, l, x
    <2> QED
      BY <2>2, <2>3
  <1>6. ASSUME enable
        PROVE  enable = TRUE /\ c = 0 /\ NextCen(c) = 1 /\ (c = 3) = FALSE
    <2>1. c = 0
      BY <1>6
    <2> QED
      BY <1>6, <2>1 DEF NextCen
  <1>7. CASE enable /\ h < w - 1
    <2>1. hNext = Stepped(h, w) /\ vNext = v
      BY <1>1, <1>7 DEF StepsTo
    <2>2. ClksLeft(l, Within(Stepped(h, w), w), w, EdgesLeft(1, FALSE))
            = ClksLeft(l, Within(h, w), w, EdgesLeft(0, TRUE)) - 1
      BY <1>1, <1>3, <1>7, LeftStep, Zenon
    <2> QED
      BY <1>6, <1>7, <2>1, <2>2, Zenon DEF LeftAt
  <1>8. CASE enable /\ h >= w - 1
    <2>1. hNext = Stepped(h, w) /\ vNext = Stepped(v, height) /\ v # vbp - 1
      BY <1>8 DEF StepsTo, FallsAt
    <2>2. LinesLeft(Within(Stepped(v, height), height), vbp, height) = l - 1
      BY <1>2, <2>1, LinesLeftStep
    <2>3. ClksLeft(l - 1, Within(Stepped(h, w), w), w, EdgesLeft(1, FALSE))
            = ClksLeft(l, Within(h, w), w, EdgesLeft(0, TRUE)) - 1
      BY <1>1, <1>3, <1>8, LeftStep, Zenon
    <2> QED
      BY <1>6, <1>8, <2>1, <2>2, <2>3, Zenon DEF LeftAt
  <1> QED
    BY <1>1, <1>5, <1>7, <1>8

----------------------------------------------------------------------------
(* The histories. *)

\* A pixel that Measure counts.
Seen == IF cen /\ ~Blank("h") /\ ~Blank("v") THEN 1 ELSE 0

LEMMA SteadySeen ==
    ASSUME TypeOK, Written, Steady
    PROVE  /\ ~cen => Seen = 0
           /\ cen => Seen = (IF Visible(cnt.h, Bp("h"), Act("h")) /\ Visible(cnt.v, Bp("v"), Act("v"))
                               THEN 1 ELSE 0)
  <1>1. /\ Blank("h") <=> cnt.h >= Act("h") + Bp("h") \/ cnt.h < Bp("h")
        /\ Blank("v") <=> cnt.v >= Act("v") + Bp("v") \/ cnt.v < Bp("v")
    BY SteadySums DEF Blank, Bp
  <1>2. /\ ~Blank("h") <=> Visible(cnt.h, Bp("h"), Act("h"))
        /\ ~Blank("v") <=> Visible(cnt.v, Bp("v"), Act("v"))
    BY <1>1, SteadySizes DEF Visible
  <1> QED
    BY <1>2, Zenon DEF Seen

\* Of a frame, no history reaches its bound.
LEMMA BelowMax ==
    ASSUME TypeOK, Written, Steady, NEW i \in Nat, NEW j \in 0..1,
           i + j <= 4 * H * V
    PROVE  Plus(i, j) = i + j
  <1>1. H \in Nat /\ V \in Nat /\ H <= Width /\ V <= Width /\ Width \in Nat
    BY SteadySizes, Constants
  <1>2. H * V \in Nat /\ Width * Width \in Nat /\ H * V <= Width * Width
    BY <1>1, Products
  <1>3. 4 * H * V = 4 * (H * V) /\ 4 * Width * Width = 4 * (Width * Width)
    BY <1>1
  <1>4. ~(i + j > MaxClks)
    BY <1>2, <1>3, Constants DEF MaxClks
  <1> QED
    BY <1>4 DEF Plus

\* A clock of a steady mode, in the terms of the arithmetic.
LEMMA SteadyPlace ==
    ASSUME TypeOK, Written, Steady, Clk
    PROVE  /\ Fits(H, Bp("h"), Act("h"), V, Bp("v"), Act("v"))
           /\ StepsTo(H, V, cnt.h, cnt.v, cen, cnt'.h, cnt'.v)
           /\ Falls <=> cen /\ FallsAt(cnt.h, H, cnt.v, Bp("v"))
  <1>1. Fits(H, Bp("h"), Act("h"), V, Bp("v"), Act("v"))
    BY SteadySizes DEF Fits
  <1>2. StepsTo(H, V, cnt.h, cnt.v, cen, cnt'.h, cnt'.v)
    BY SteadyCount, Zenon DEF StepsTo
  <1> QED
    BY <1>1, <1>2, SteadyFalls

\* A clock that goes on with a measured frame.
LEMMA FrameGoesOn ==
    ASSUME TypeOK, Written, Measured, Clk, ~Falls
    PROVE  /\ Inside(H, V, cnt'.h, cnt'.v)
           /\ ClksGone(LinesGone(cnt'.v, Bp("v"), V), cnt'.h, H, cencnt') = clks + 1
           /\ VisGone(LinesGone(cnt'.v, Bp("v"), V), cnt'.h, Bp("h"), Act("h"), Act("v")) = vis + Seen
  <1>1. Steady /\ (cen <=> cencnt = 0)
    BY DEF Measured
  <1>2. /\ clks = ClksGone(LinesGone(cnt.v, Bp("v"), V), cnt.h, H, cencnt)
        /\ vis = VisGone(LinesGone(cnt.v, Bp("v"), V), cnt.h, Bp("h"), Act("h"), Act("v"))
    BY DEF Measured
  <1>3. Fits(H, Bp("h"), Act("h"), V, Bp("v"), Act("v"))
    BY <1>1, SteadyPlace
  <1>4. Inside(H, V, cnt.h, cnt.v)
    BY <1>1, SteadySizes DEF Measured, Inside
  <1>5. cencnt \in 0..3 /\ cencnt' = NextCen(cencnt)
    BY <1>1, SteadyCen
  <1>6. StepsTo(H, V, cnt.h, cnt.v, cencnt = 0, cnt'.h, cnt'.v)
    BY <1>1, SteadyPlace, Zenon DEF StepsTo
  <1>7. ~(cencnt = 0 /\ FallsAt(cnt.h, H, cnt.v, Bp("v")))
    BY <1>1, SteadyPlace, Zenon
  <1>8. Advances(H, Bp("h"), Act("h"), V, Bp("v"), Act("v"), cnt.h, cnt.v, cencnt, cnt'.h, cnt'.v)
    BY <1>3, <1>4, <1>5, <1>6, <1>7, FrameStep
  <1>9. Seen = (IF cencnt = 0 /\ Visible(cnt.h, Bp("h"), Act("h")) /\ Visible(cnt.v, Bp("v"), Act("v"))
                  THEN 1 ELSE 0)
    BY <1>1, SteadySeen
  <1> QED
    BY <1>2, <1>5, <1>8, <1>9, Zenon DEF Advances

\* The clock that ends one.
LEMMA FrameEnds ==
    ASSUME TypeOK, Written, Measured, Clk, Falls
    PROVE  clks + 1 = 4 * H * V /\ vis + Seen = Act("h") * Act("v")
  <1>1. Steady /\ (cen <=> cencnt = 0)
    BY DEF Measured
  <1>2. /\ clks = ClksGone(LinesGone(cnt.v, Bp("v"), V), cnt.h, H, cencnt)
        /\ vis = VisGone(LinesGone(cnt.v, Bp("v"), V), cnt.h, Bp("h"), Act("h"), Act("v"))
    BY DEF Measured
  <1>3. Inside(H, V, cnt.h, cnt.v)
    BY <1>1, SteadySizes DEF Measured, Inside
  <1>4. Fits(H, Bp("h"), Act("h"), V, Bp("v"), Act("v")) /\ cen /\ FallsAt(cnt.h, H, cnt.v, Bp("v"))
    BY <1>1, SteadyPlace
  <1>5. /\ ClksGone(LinesGone(cnt.v, Bp("v"), V), cnt.h, H, 0) + 1 = 4 * H * V
        /\ VisGone(LinesGone(cnt.v, Bp("v"), V), cnt.h, Bp("h"), Act("h"), Act("v")) = Act("h") * Act("v")
        /\ ~Visible(cnt.v, Bp("v"), Act("v"))
    BY <1>3, <1>4, FrameEnd
  <1>6. clks + 1 = 4 * H * V /\ vis = Act("h") * Act("v")
    BY <1>1, <1>2, <1>4, <1>5, Zenon
  <1>7. Seen = 0
    BY <1>1, <1>5, SteadySeen
  <1>8. Act("h") * Act("v") + 0 = Act("h") * Act("v")
    BY <1>1, SteadySizes
  <1> QED
    BY <1>6, <1>7, <1>8, Zenon

\* A frame begins, whatever the counters were.
LEMMA FrameBegins ==
    ASSUME TypeOK, Written, Steady, Clk, Falls
    PROVE  /\ Inside(H, V, cnt'.h, cnt'.v) /\ cencnt' = 1
           /\ ClksGone(LinesGone(cnt'.v, Bp("v"), V), cnt'.h, H, 1) = 0
           /\ VisGone(LinesGone(cnt'.v, Bp("v"), V), cnt'.h, Bp("h"), Act("h"), Act("v")) = 0
  <1>1. /\ Fits(H, Bp("h"), Act("h"), V, Bp("v"), Act("v"))
        /\ cen /\ FallsAt(cnt.h, H, cnt.v, Bp("v"))
        /\ StepsTo(H, V, cnt.h, cnt.v, cen, cnt'.h, cnt'.v)
    BY SteadyPlace, Zenon
  <1>2. StepsTo(H, V, cnt.h, cnt.v, TRUE, cnt'.h, cnt'.v)
    BY <1>1, Zenon DEF StepsTo
  <1>3. cencnt = 0 /\ cencnt' = NextCen(cencnt)
    BY <1>1, SteadyCen
  <1>4. cencnt' = 1
    BY <1>3 DEF NextCen
  <1> QED
    BY <1>1, <1>2, <1>4, FrameBegin, Zenon

\* The clocks left to the first frame, while it has not begun.
LEMMA FewerLeft ==
    ASSUME TypeOK, Written, Steady, Clk, ~Falls
    PROVE  Left \in Nat /\ Left' = Left - 1 /\ Left >= 1
  <1>1. /\ Fits(H, Bp("h"), Act("h"), V, Bp("v"), Act("v"))
        /\ ~(cen /\ FallsAt(cnt.h, H, cnt.v, Bp("v")))
        /\ StepsTo(H, V, cnt.h, cnt.v, cen, cnt'.h, cnt'.v)
    BY SteadyPlace
  <1>2. cencnt \in 0..3 /\ (cen => cencnt = 0) /\ cencnt' = NextCen(cencnt) /\ cen' = (cencnt = 3)
    BY SteadyCen
  <1>3. cnt.h \in Nat /\ cnt.v \in Nat /\ cen \in BOOLEAN
    BY SteadySizes DEF TypeOK
  <1>4. Left \in Nat /\ Left >= 1
    BY <1>1, <1>2, <1>3, LeftRange, Zenon DEF Left
  <1>5. LeftAt(H, V, Bp("v"), cnt'.h, cnt'.v, NextCen(cencnt), cencnt = 3)
          = LeftAt(H, V, Bp("v"), cnt.h, cnt.v, cencnt, cen) - 1
    BY <1>1, <1>2, <1>3, LeftFewer
  <1>6. H' = H /\ V' = V /\ Bp("v")' = Bp("v")
    BY SteadyFalls
  <1>7. Left' = LeftAt(H, V, Bp("v"), cnt'.h, cnt'.v, NextCen(cencnt), cencnt = 3)
    BY <1>2, <1>6 DEF Left, LeftAt
  <1> QED
    BY <1>4, <1>5, <1>7 DEF Left

LEMMA FrameClksIs ==
    FrameClks = 4 * H * V
  BY DEF FrameClks, H, V, CE_DENOM

LEMMA FrameClksNat ==
    ASSUME TypeOK
    PROVE  FrameClks \in Nat
  <1>1. ctrl \in [Regs -> Nat]
    BY Constants DEF TypeOK
  <1>2. \A x \in Axes, f \in Fields : ctrl[<<x, f>>] \in Nat
    BY <1>1, AllWritten, Zenon
  <1>3. Size(ctrl, "h") \in Nat /\ Size(ctrl, "v") \in Nat
    BY <1>2 DEF Size, Axes, Fields
  <1> QED
    BY <1>3 DEF FrameClks, CE_DENOM

\* The histories of a measured frame stay below their bound.
LEMMA BelowFrame ==
    ASSUME TypeOK, Written, Measured, clks \in Nat
    PROVE  Plus(clks, 1) = clks + 1 /\ Plus(vis, Seen) = vis + Seen
  <1>1. Steady /\ cnt.h < H /\ cnt.v < V
    BY DEF Measured
  <1>2. /\ H \in Nat /\ V \in Nat /\ cnt.h \in Nat /\ cnt.v \in Nat
        /\ Bp("h") \in Nat /\ Bp("h") >= 1 /\ Act("h") \in Nat /\ Act("h") <= H
        /\ Bp("v") \in Nat /\ Bp("v") >= 1 /\ Act("v") \in Nat /\ Act("v") <= V
        /\ Bp("v") < V /\ Bp("v") + Act("v") + 2 <= V
    BY <1>1, SteadySizes
  <1> DEFINE l == LinesGone(cnt.v, Bp("v"), V)
  <1>3. l \in 0..(V - 1) /\ (Visible(cnt.v, Bp("v"), Act("v")) <=> l < Act("v"))
    <2>1. V \in Nat /\ cnt.v \in Nat /\ cnt.v < V /\ Bp("v") \in Nat /\ Bp("v") >= 1 /\ Bp("v") < V
      BY <1>1, <1>2
    <2>2. l \in 0..(V - 1)
      BY <2>1, LinesStep, Zenon
    <2> QED
      BY <1>1, <1>2, <2>2, VisibleLines
  <1>4. clks = ClksGone(l, cnt.h, H, cencnt) /\ vis = VisGone(l, cnt.h, Bp("h"), Act("h"), Act("v"))
    BY DEF Measured
  <1>5. cencnt \in 0..3
    BY <1>1, SteadyRange
  <1> HIDE DEF l
  <1>6. clks + 1 <= 4 * H * V
    <2>1. cnt.h \in 0..(H - 1)
      BY <1>1, <1>2
    <2> QED
      BY <1>2, <1>3, <1>4, <1>5, <2>1, ClksBound, Zenon
  <1>7. /\ vis \in Nat /\ Seen \in 0..1
        /\ vis + Seen <= Act("h") * Act("v")
    <2>1. l \in Nat
      BY <1>2, <1>3
    <2>2. /\ vis \in Nat
          /\ vis + Shown(l, cnt.h, Bp("h"), Act("h"), Act("v")) <= Act("h") * Act("v")
      BY <1>2, <1>4, <2>1, VisStep, Zenon
    <2>3. Shown(l, cnt.h, Bp("h"), Act("h"), Act("v")) \in 0..1
      BY DEF Shown
    <2>4. Seen = 0 \/ Seen = Shown(l, cnt.h, Bp("h"), Act("h"), Act("v"))
      BY <1>1, <1>3, SteadySeen DEF Shown
    <2>5. Act("h") * Act("v") \in Nat
      BY <1>2
    <2> QED
      BY <2>2, <2>3, <2>4, <2>5
  <1>8. vis + Seen <= 4 * H * V
    <2>1. Act("h") * Act("v") \in Nat /\ H * V \in Nat /\ Act("h") * Act("v") <= H * V
      BY <1>2, Products
    <2>2. 4 * H * V = 4 * (H * V)
      BY <1>2
    <2> QED
      BY <1>7, <2>1, <2>2
  <1> QED
    BY <1>1, <1>6, <1>7, <1>8, BelowMax

\* A measured frame, one clock later.
LEMMA MeasuredKept ==
    ASSUME TypeOK, Written, Steady, Clk, Inside(H, V, cnt'.h, cnt'.v),
           clks' = ClksGone(LinesGone(cnt'.v, Bp("v"), V), cnt'.h, H, cencnt'),
           vis' = VisGone(LinesGone(cnt'.v, Bp("v"), V), cnt'.h, Bp("h"), Act("h"), Act("v"))
    PROVE  Measured'
  <1>1. /\ Act("h")' = Act("h") /\ Bp("h")' = Bp("h") /\ H' = H
        /\ Act("v")' = Act("v") /\ Bp("v")' = Bp("v") /\ V' = V
    BY SteadyFalls
  <1>2. Steady' /\ cencnt' = NextCen(cencnt) /\ cen' = (cencnt = 3) /\ cencnt \in 0..3
    BY SteadyCen
  <1>3. cen' <=> cencnt' = 0
    <2>1. cencnt = 3 <=> cencnt' = 0
      BY <1>2 DEF NextCen
    <2> QED
      BY <1>2, <2>1, Zenon
  <1>4. cnt'.h < H /\ cnt'.v < V
    <2>1. H \in Nat /\ V \in Nat
      BY SteadySizes
    <2> QED
      BY <2>1 DEF Inside
  <1>5. (cnt.h < H /\ cnt.v < V)'
    BY <1>1, <1>4
  <1>6. (clks = ClksGone(LinesGone(cnt.v, Bp("v"), V), cnt.h, H, cencnt))'
    BY <1>1 DEF ClksGone, LinesGone
  <1>7. (vis = VisGone(LinesGone(cnt.v, Bp("v"), V), cnt.h, Bp("h"), Act("h"), Act("v")))'
    BY <1>1 DEF VisGone, LinesGone, PixelsGone
  <1> QED
    BY <1>2, <1>3, <1>5, <1>6, <1>7 DEF Measured

\* While a frame is measured.
LEMMA HistoriesMeasured ==
    ASSUME TypeOK, Written, Histories, Clk, clks >= 0
    PROVE  Histories' /\ clks' \in Nat /\ lead' = 0
  <1>1. Measured /\ Steady /\ lead = 0 /\ clks \in Nat
    BY DEF Histories, Measured, TypeOK
  <1>2. FrameClks' = FrameClks /\ Act("h")' = Act("h") /\ Act("v")' = Act("v")
    BY DEF Clk, FrameClks, Size, Act
  <1>3. frame # <<>> => frame = <<FrameClks, Act("h") * Act("v")>>
    BY DEF Histories
  <1>4. /\ Falls => frame' = <<Plus(clks, 1), vis + Seen>> /\ clks' = 0 /\ vis' = 0 /\ lead' = lead
        /\ ~Falls => clks' = Plus(clks, 1) /\ vis' = Plus(vis, Seen) /\ lead' = lead /\ frame' = frame
    <2>1. ~(clks < 0) /\ Measure
      BY <1>1 DEF Clk
    <2> QED
      BY <2>1, Zenon DEF Measure, Seen
  <1>5. ASSUME clks' \in Nat, Measured', lead' = 0,
               frame' # <<>> => frame' = <<FrameClks, Act("h") * Act("v")>>
        PROVE  Histories'
    <2>1. clks' >= 0 /\ ~(clks' < 0)
      BY <1>5
    <2>2. (frame # <<>> => frame = <<FrameClks, Act("h") * Act("v")>>)'
      BY <1>2, <1>5
    <2> QED
      BY <1>5, <2>1, <2>2 DEF Histories
  <1>6. CASE Falls
    <2>1. clks + 1 = 4 * H * V /\ vis + Seen = Act("h") * Act("v")
      BY <1>1, <1>6, FrameEnds
    <2>2. Plus(clks, 1) = 4 * H * V
      <3>1. H \in Nat /\ V \in Nat
        BY <1>1, SteadySizes
      <3>2. clks + 1 <= 4 * H * V
        BY <1>1, <2>1, <3>1
      <3> QED
        BY <1>1, <2>1, <3>2, BelowMax
    <2>3. frame' = <<FrameClks, Act("h") * Act("v")>>
      BY <1>4, <1>6, <2>1, <2>2, FrameClksIs, Zenon
    <2>4. /\ Inside(H, V, cnt'.h, cnt'.v) /\ cencnt' = 1
          /\ ClksGone(LinesGone(cnt'.v, Bp("v"), V), cnt'.h, H, 1) = 0
          /\ VisGone(LinesGone(cnt'.v, Bp("v"), V), cnt'.h, Bp("h"), Act("h"), Act("v")) = 0
      BY <1>1, <1>6, FrameBegins
    <2>5. Measured'
      BY <1>1, <1>4, <1>6, <2>4, MeasuredKept, Zenon
    <2>6. clks' \in Nat /\ lead' = 0
      BY <1>1, <1>4, <1>6
    <2> QED
      BY <1>5, <2>3, <2>5, <2>6
  <1>7. CASE ~Falls
    <2>1. /\ Inside(H, V, cnt'.h, cnt'.v)
          /\ ClksGone(LinesGone(cnt'.v, Bp("v"), V), cnt'.h, H, cencnt') = clks + 1
          /\ VisGone(LinesGone(cnt'.v, Bp("v"), V), cnt'.h, Bp("h"), Act("h"), Act("v")) = vis + Seen
      BY <1>1, <1>7, FrameGoesOn
    <2>2. clks' = clks + 1
      BY <1>1, <1>4, <1>7, BelowFrame
    <2>3. vis' = vis + Seen
      BY <1>1, <1>4, <1>7, BelowFrame
    <2>4. Measured'
      BY <1>1, <2>1, <2>2, <2>3, MeasuredKept, Zenon
    <2>5. clks' \in Nat /\ lead' = 0 /\ frame' = frame
      BY <1>1, <1>4, <1>7, <2>2
    <2> QED
      BY <1>3, <1>5, <2>4, <2>5
  <1> QED
    BY <1>6, <1>7 DEF Histories

\* A mode that becomes steady is a frame from its first one at most.
LEMMA LeftAtMost ==
    ASSUME TypeOK, Written, Edge, ctrl' = ctrl, next' = next, Steady'
    PROVE  Left' \in Nat /\ Left' <= FrameClks' + 1
  <1>1. next > 10
    BY OrderIs DEF Steady
  <1>2. numer = 1 /\ denom = 4
    BY <1>1, Programmed
  <1>3. cencnt' \in 0..3 /\ cen' \in BOOLEAN
    <2>1. cencnt' \in 0..(CenWidth - 1) /\ cen' \in BOOLEAN
      BY EdgeTypes
    <2>2. denom' = 4
      BY <1>2 DEF denom
    <2>3. cencnt' < 4
      BY <2>2 DEF Steady, Regular
    <2> QED
      BY <2>1, <2>3, Constants
  <1>4. cnt'.h \in Nat /\ cnt'.v \in Nat
    <2>1. cnt' \in [Axes -> 0..(Width - 1)]
      BY EdgeTypes
    <2>2. cnt'["h"] \in 0..(Width - 1) /\ cnt'["v"] \in 0..(Width - 1)
      BY <2>1 DEF Axes
    <2> QED
      BY <2>2, Constants
  <1>5. Fits(H, Bp("h"), Act("h"), V, Bp("v"), Act("v"))
    BY <1>1, Sizes DEF Fits
  <1>6. /\ LeftAt(H, V, Bp("v"), cnt'.h, cnt'.v, cencnt', cen') \in Nat
        /\ LeftAt(H, V, Bp("v"), cnt'.h, cnt'.v, cencnt', cen') <= 4 * H * V + 1
    BY <1>3, <1>4, <1>5, LeftRange, Zenon
  <1>7. H' = H /\ V' = V /\ Bp("v")' = Bp("v") /\ FrameClks' = FrameClks
    BY DEF H, V, Bp, Size, FrameClks
  <1>8. Left' = LeftAt(H, V, Bp("v"), cnt'.h, cnt'.v, cencnt', cen')
    BY <1>7 DEF Left, LeftAt
  <1> QED
    BY <1>6, <1>7, <1>8, FrameClksIs, Zenon

LEMMA LeadArith ==
    ASSUME NEW gone \in Nat, NEW left \in Nat, NEW all \in Nat, gone + left <= all + 1,
           NEW now \in Nat, now <= gone + 1
    PROVE  now + (left - 1) <= all + 1
  OBVIOUS

\* Before the first frame.
LEMMA HistoriesBefore ==
    ASSUME TypeOK, Written, Histories, Clk, clks < 0
    PROVE  Histories' /\ lead' \in Nat /\ clks' \in Nat \union {-1}
  <1>1. frame = <<>> /\ lead \in Nat /\ clks = -1 /\ Measure
    BY DEF Histories, TypeOK, Clk
  <1>2. FrameClks' = FrameClks
    BY DEF Clk, FrameClks, Size
  <1>3. CASE Steady /\ Falls
    <2>1. lead' = 0 /\ clks' = 0 /\ vis' = 0 /\ frame' = frame
      BY <1>3, Zenon DEF Clk, Measure
    <2>2. /\ Inside(H, V, cnt'.h, cnt'.v) /\ cencnt' = 1
          /\ ClksGone(LinesGone(cnt'.v, Bp("v"), V), cnt'.h, H, 1) = 0
          /\ VisGone(LinesGone(cnt'.v, Bp("v"), V), cnt'.h, Bp("h"), Act("h"), Act("v")) = 0
      BY <1>3, FrameBegins
    <2>3. Measured'
      BY <1>3, <2>1, <2>2, MeasuredKept, Zenon
    <2>4. frame' = <<>> /\ clks' >= 0 /\ ~(clks' < 0) /\ clks' \in Nat /\ lead' \in Nat
      BY <1>1, <2>1
    <2> QED
      BY <2>1, <2>3, <2>4 DEF Histories
  <1>4. CASE ~(Steady /\ Falls)
    <2>1. lead' = (IF Steady THEN Plus(lead, 1) ELSE 0) /\ clks' = clks /\ frame' = frame
      BY <1>4, Zenon DEF Clk, Measure
    <2>2. clks' = -1 /\ clks' < 0 /\ ~(clks' >= 0) /\ frame' = <<>>
      BY <1>1, <2>1
    <2>3. CASE Steady
      <3>1. Left \in Nat /\ Left' = Left - 1 /\ Left >= 1
        BY <1>4, <2>3, FewerLeft
      <3>2. lead + Left <= FrameClks + 1
        BY <2>3 DEF Histories
      <3>3. lead' = Plus(lead, 1)
        BY <2>1, <2>3
      <3>4. lead' \in Nat /\ lead' <= lead + 1
        <4>1. MaxClks \in Nat
          BY Constants DEF MaxClks
        <4> QED
          BY <1>1, <3>3, <4>1 DEF Plus
      <3>5. FrameClks \in Nat /\ lead \in Nat
        BY <1>1, FrameClksNat
      <3>6. lead' + (Left - 1) <= FrameClks + 1
        BY <3>1, <3>2, <3>4, <3>5, LeadArith, Zenon
      <3>7. lead' + Left' <= FrameClks' + 1
        BY <1>2, <3>1, <3>6, Zenon
      <3>8. Steady'
        BY <2>3, SteadyCen
      <3> QED
        BY <2>2, <3>4, <3>7, <3>8 DEF Histories
    <2>4. CASE ~Steady
      <3>1. lead' = 0
        BY <2>1, <2>4
      <3>2. Steady' => Left' \in Nat /\ Left' <= FrameClks' + 1
        BY LeftAtMost DEF Clk
      <3>3. FrameClks' \in Nat
        BY <1>2, FrameClksNat
      <3>4. Steady' => lead' + Left' <= FrameClks' + 1
        BY <3>1, <3>2, <3>3
      <3> QED
        BY <2>2, <3>1, <3>4 DEF Histories
    <2> QED
      BY <2>3, <2>4
  <1> QED
    BY <1>3, <1>4

\* A write, or a new mode, begins again.
LEMMA HistoriesForget ==
    ASSUME Forget, ~Steady'
    PROVE  Histories' /\ lead' \in Nat /\ clks' \in Nat \union {-1}
  <1>1. lead' = 0 /\ clks' = -1 /\ frame' = <<>>
    BY DEF Forget
  <1>2. clks' < 0 /\ ~(clks' >= 0)
    BY <1>1
  <1> QED
    BY <1>1, <1>2 DEF Histories

----------------------------------------------------------------------------
(* The invariant. *)

LEMMA InitInv ==
    ASSUME Init
    PROVE  IInv
  <1>1. next = 1 /\ calm = 0 /\ lead = 0 /\ clks = -1 /\ frame = <<>> /\ mode \in Modes
    BY DEF Init
  <1>2. 0 \in 0..(Width - 1) /\ 0 \in 0..(CenWidth - 1)
    BY Constants
  <1>3. ctrl \in [Regs -> 0..(Width - 1)] /\ cnt \in [Axes -> 0..(Width - 1)]
    BY <1>2 DEF Init
  <1>4. d \in [Axes -> [b : 0..(Width - 1), s : 0..(Width - 1), e : 0..(Width - 1)]]
    BY <1>2 DEF Init
  <1>5. cencnt \in 0..(CenWidth - 1) /\ cen \in BOOLEAN
    BY <1>2, Zenon DEF Init, CenInit
  <1>6. TypeOK
    BY <1>1, <1>3, <1>4, <1>5 DEF TypeOK
  <1>7. Written
    BY <1>1 DEF Written
  <1>8. ~Steady
    BY <1>1, OrderIs DEF Steady
  <1>9. Histories
    BY <1>1, <1>8 DEF Histories
  <1> QED
    BY <1>6, <1>7, <1>9 DEF IInv

LEMMA ClkInv ==
    ASSUME IInv, Clk
    PROVE  IInv'
  <1>1. TypeOK /\ Written /\ Histories /\ Edge
    BY DEF IInv, Clk
  <1>2. Histories' /\ lead' \in Nat /\ clks' \in Nat \union {-1}
    <2>1. clks >= 0 \/ clks < 0
      BY <1>1 DEF TypeOK
    <2>2. CASE clks >= 0
      BY <1>1, <2>2, HistoriesMeasured
    <2>3. CASE clks < 0
      BY <1>1, <2>3, HistoriesBefore
    <2> QED
      BY <2>1, <2>2, <2>3
  <1>3. calm' \in 0..4
    BY <1>1 DEF Clk, TypeOK
  <1>4. ctrl' = ctrl /\ mode' = mode /\ next' = next
    BY DEF Clk
  <1>5. TypeOK'
    BY <1>1, <1>2, <1>3, <1>4, EdgeTypes DEF TypeOK
  <1> QED
    BY <1>1, <1>2, <1>5, WrittenClk DEF IInv

LEMMA WriteRegInv ==
    ASSUME IInv, WriteReg
    PROVE  IInv'
  <1>1. TypeOK /\ Written /\ Edge /\ Forget
    BY DEF IInv, WriteReg
  <1>2. calm' = 0 /\ mode' = mode
    BY DEF WriteReg
  <1>3. next' \in 1..11
    BY <1>1, OrderIs DEF WriteReg, TypeOK
  <1>4. ~Steady'
    BY <1>2 DEF Steady
  <1>5. Histories' /\ lead' \in Nat /\ clks' \in Nat \union {-1}
    BY <1>1, <1>4, HistoriesForget
  <1>6. Written' /\ ctrl' \in [Regs -> 0..(Width - 1)]
    BY <1>1, WrittenReg
  <1>7. calm' \in 0..4 /\ mode' \in Modes
    BY <1>1, <1>2 DEF TypeOK
  <1>8. TypeOK'
    BY <1>1, <1>3, <1>5, <1>6, <1>7, EdgeTypes DEF TypeOK
  <1> QED
    BY <1>5, <1>6, <1>8 DEF IInv

LEMMA SetModeInv ==
    ASSUME IInv, SetMode
    PROVE  IInv'
  <1>1. TypeOK /\ Written /\ Forget
    BY DEF IInv, SetMode
  <1>2. /\ mode' \in Modes /\ next' = 1
        /\ cencnt' = cencnt /\ cen' = cen /\ ctrl' = ctrl /\ d' = d /\ cnt' = cnt /\ calm' = calm
    BY DEF SetMode
  <1>3. ~Steady'
    BY <1>2, OrderIs DEF Steady
  <1>4. Histories' /\ lead' \in Nat /\ clks' \in Nat \union {-1}
    BY <1>1, <1>3, HistoriesForget
  <1>5. TypeOK'
    BY <1>1, <1>2, <1>4 DEF TypeOK
  <1> QED
    BY <1>1, <1>4, <1>5, WrittenMode DEF IInv

\* The timing of crtc.sv, at every clock: the registers and sums that have arrived,
\* the place of the counters in a frame that is measured, and the clocks left to
\* the first one (crtc.sv:57-112, hdmi.c:270-281).
THEOREM Invariance ==
    Spec => []IInv
  <1>1. Init => IInv
    BY InitInv
  <1>2. IInv /\ [Next]_vars => IInv'
    <2> SUFFICES ASSUME IInv, [Next]_vars
                 PROVE  IInv'
      OBVIOUS
    <2>1. CASE Clk
      BY <2>1, ClkInv
    <2>2. CASE WriteReg
      BY <2>2, WriteRegInv
    <2>3. CASE SetMode
      BY <2>3, SetModeInv
    <2>4. CASE UNCHANGED vars
      <3>1. /\ cencnt' = cencnt /\ cen' = cen /\ ctrl' = ctrl /\ d' = d /\ cnt' = cnt
            /\ mode' = mode /\ next' = next /\ calm' = calm
            /\ lead' = lead /\ clks' = clks /\ vis' = vis /\ frame' = frame
        BY <2>4, Zenon DEF vars, measured
      <3>2. \A x : Act(x)' = Act(x) /\ Bp(x)' = Bp(x)
        BY <3>1 DEF Act, Bp
      <3>3. H' = H /\ V' = V /\ FrameClks' = FrameClks
        BY <3>1 DEF H, V, Size, FrameClks
      <3>4. TypeOK'
        BY <3>1 DEF IInv, TypeOK
      <3>5. Written'
        BY <3>1, <3>2, Zenon DEF IInv, Written, Size
      <3>6. Steady' <=> Steady
        BY <3>1, Zenon DEF Steady, Regular, numer, denom
      <3>7. Left' = Left
        BY <3>1, <3>2, <3>3, Zenon DEF Left, LeftAt
      <3>8. Measured' <=> Measured
        BY <3>1, <3>2, <3>3, <3>6, Zenon DEF Measured
      <3>9. Histories'
        BY <3>1, <3>2, <3>3, <3>6, <3>7, <3>8, Zenon DEF IInv, Histories
      <3> QED
        BY <3>4, <3>5, <3>9 DEF IInv
    <2> QED
      BY <2>1, <2>2, <2>3, <2>4 DEF Next
  <1> QED
    BY <1>1, <1>2, PTL DEF Spec

\* Every frame of a mode that is set takes exactly 4 * (its width) * (its height)
\* clocks and shows exactly its visible pixels, and the first begins within as many
\* clocks of the steady enable, for every size of the counters and every mode that
\* fits them (crtc.sv:73-76, 96-112, jtframe_frac_cen.v:50-57).
THEOREM AlwaysExact ==
    Spec => []ExactFrame
  <1>1. IInv => ExactFrame
    <2> SUFFICES ASSUME IInv
                 PROVE  ExactFrame
      OBVIOUS
    <2>1. TypeOK /\ Written /\ Histories
      BY DEF IInv
    <2>2. FrameClks \in Nat /\ lead \in Nat
      BY <2>1, FrameClksNat DEF TypeOK
    <2>3. lead <= FrameClks
      <3>1. CASE clks < 0 /\ Steady
        <4>1. lead + Left <= FrameClks + 1
          BY <2>1, <3>1 DEF Histories
        <4>2. Left \in Nat /\ Left >= 1
          <5>1. Fits(H, Bp("h"), Act("h"), V, Bp("v"), Act("v"))
            BY <2>1, <3>1, SteadySizes DEF Fits
          <5>2. cnt.h \in Nat /\ cnt.v \in Nat /\ cen \in BOOLEAN /\ cencnt \in 0..3
            BY <2>1, <3>1, SteadySizes, SteadyRange DEF TypeOK
          <5> QED
            BY <5>1, <5>2, LeftRange, Zenon DEF Left
        <4> QED
          BY <2>2, <4>1, <4>2
      <3>2. CASE ~(clks < 0 /\ Steady)
        <4>1. clks < 0 \/ clks >= 0
          BY <2>1 DEF TypeOK
        <4>2. lead = 0
          BY <2>1, <3>2, <4>1 DEF Histories
        <4> QED
          BY <2>2, <4>2
      <3> QED
        BY <3>1, <3>2
    <2>4. frame # <<>> => frame = <<FrameClks, ctrl[<<"h", "act">>] * ctrl[<<"v", "act">>]>>
      BY <2>1 DEF Histories, Act
    <2> QED
      BY <2>3, <2>4 DEF ExactFrame
  <1> QED
    BY <1>1, Invariance, PTL
=============================================================================
