-------------------------------- MODULE Crtc --------------------------------
(***************************************************************************)
(* The timing generator, rtl/crtc.sv, with the clock enable of module      *)
(* FracCen in it, while crt_set_mode (firmware/src/hdmi.c) writes the      *)
(* registers of both one by one and the counters run on.                   *)
(*                                                                         *)
(* A step is an edge of clk, a pixel's edge if cen (ce_pixel) is set.  The *)
(* sums of the registers are registers themselves, so a new value takes    *)
(* three clocks to arrive.  The horizontal and the vertical half are the   *)
(* same circuit; d[x] holds the three sums of axis x.                      *)
(*                                                                         *)
(* SumsNoBackPorch and WrapAt are mutants of the definition that follows   *)
(* each; nothing uses them.                                                *)
(***************************************************************************)
EXTENDS FracCen, Sequences

CONSTANTS
    Width,              \* 2^12: counters and sums hold 0..Width-1
    Modes,              \* the modes set: functions from Regs to their values
    MaxSets             \* bound: modes set

\* The registers, in the order in which crt_set_mode writes them.
Order == << <<"ce", "numer">>, <<"ce", "denom">>,
            <<"h", "act">>, <<"h", "fp">>, <<"h", "s">>, <<"h", "bp">>,
            <<"v", "act">>, <<"v", "fp">>, <<"v", "s">>, <<"v", "bp">> >>
Regs == {Order[i] : i \in 1..Len(Order)}
Axes == {"h", "v"}

Size(c, x) == c[<<x, "bp">>] + c[<<x, "act">>] + c[<<x, "fp">>] + c[<<x, "s">>]

\* crt_set_mode always programs one pixel in four clocks.
CE_DENOM == 4

ASSUME CrtcAssumption ==
    /\ Width \in Nat \ {0} /\ MaxSets \in Nat \ {0}
    /\ CenWidth \in Nat /\ CenWidth >= 2 * CE_DENOM
    /\ Modes \subseteq [Regs -> 1..(Width - 1)]
    /\ \A c \in Modes : /\ c[<<"ce", "numer">>] = 1 /\ c[<<"ce", "denom">>] = CE_DENOM
                        /\ \A x \in Axes : Size(c, x) < Width

VARIABLES
    ctrl,               \* the timing registers
    d,                  \* hb_start, hs_start, hs_end and the vertical ones
    cnt,                \* hcnt and vcnt
    mode, next, sets,   \* the mode being set, its next register, modes set
    calm,               \* history: clocks since the last write, up to 4
    lead,               \* history: clocks since the mode was set, until vblank falls
    clks, vis,          \* history: clocks and visible pixels since vblank fell; -1: unknown
    frame               \* history: clks and vis of the last whole frame, or <<>>

measured == <<lead, clks, vis, frame>>
vars == <<cencnt, cen, ctrl, d, cnt, mode, next, sets, calm, measured>>

\* The sums at the next edge.
SumsNoBackPorch(x) ==
    [b |-> ctrl[<<x, "act">>] % Width, s |-> (d[x].b + ctrl[<<x, "fp">>]) % Width,
     e |-> (d[x].s + ctrl[<<x, "s">>]) % Width]
Sums(x) ==
    [b |-> (ctrl[<<x, "act">>] + ctrl[<<x, "bp">>]) % Width,
     s |-> (d[x].b + ctrl[<<x, "fp">>]) % Width,
     e |-> (d[x].s + ctrl[<<x, "s">>]) % Width]

\* cnt >= (end - 1); end - 1 is a number of 32 bits, so 0 - 1 is never reached.
WrapAt(x) == d[x].e > 0 /\ cnt[x] >= d[x].e
Wrap(x) == d[x].e > 0 /\ cnt[x] >= d[x].e - 1

Counted ==
    [h |-> IF Wrap("h") THEN 0 ELSE (cnt.h + 1) % Width,
     v |-> IF ~Wrap("h") THEN cnt.v ELSE IF Wrap("v") THEN 0 ELSE (cnt.v + 1) % Width]

Blank(x) == cnt[x] >= d[x].b \/ cnt[x] < ctrl[<<x, "bp">>]

numer == ctrl[<<"ce", "numer">>]
denom == ctrl[<<"ce", "denom">>]

Init ==
    /\ CenInit
    /\ ctrl = [r \in Regs |-> 0] /\ d = [x \in Axes |-> [b |-> 0, s |-> 0, e |-> 0]]
    /\ cnt = [x \in Axes |-> 0]
    /\ mode \in Modes /\ next = 1 /\ sets = 0
    /\ calm = 0
    /\ lead = 0 /\ clks = -1 /\ vis = -1 /\ frame = <<>>

\* What every edge of clk does.
Edge ==
    /\ CenEdge(numer, denom)
    /\ d' = [x \in Axes |-> Sums(x)]
    /\ cnt' = IF cen THEN Counted ELSE cnt

\* vblank falls at this edge.
Falls == Blank("v") /\ ~Blank("v")'

\* The registers are written, their sums have arrived, the enable is regular.
Steady == next > Len(Order) /\ calm = 4 /\ Regular(numer, denom)

\* The histories count up to MaxClks, more clocks than any frame has.
MaxClks == CE_DENOM * Width * Width
Plus(i, j) == IF i + j > MaxClks THEN MaxClks ELSE i + j

\* The frames are measured from the first one that begins with Steady.
Measure ==
    LET seen == IF cen /\ ~Blank("h") /\ ~Blank("v") THEN 1 ELSE 0
    IN  IF clks < 0
          THEN IF Steady /\ Falls
                 THEN lead' = 0 /\ clks' = 0 /\ vis' = 0 /\ UNCHANGED frame
                 ELSE lead' = (IF Steady THEN Plus(lead, 1) ELSE 0) /\ UNCHANGED <<clks, vis, frame>>
          ELSE IF Falls
                 THEN frame' = <<Plus(clks, 1), vis + seen>> /\ clks' = 0 /\ vis' = 0 /\ UNCHANGED lead
                 ELSE clks' = Plus(clks, 1) /\ vis' = Plus(vis, seen) /\ UNCHANGED <<lead, frame>>

Forget == lead' = 0 /\ clks' = -1 /\ vis' = -1 /\ frame' = <<>>

\* A clock without a write.
Clk ==
    /\ Edge
    /\ UNCHANGED <<ctrl, mode, next, sets>>
    /\ calm' = (IF calm < 4 THEN calm + 1 ELSE 4)
    /\ Measure

\* The next register of the mode being set.
WriteReg ==
    /\ next <= Len(Order)
    /\ Edge
    /\ ctrl' = [ctrl EXCEPT ![Order[next]] = mode[Order[next]]]
    /\ next' = next + 1
    /\ calm' = 0 /\ Forget
    /\ UNCHANGED <<mode, sets>>

SetMode ==
    /\ next > Len(Order) /\ sets < MaxSets
    /\ mode' \in Modes /\ next' = 1 /\ sets' = sets + 1
    /\ Forget
    /\ UNCHANGED <<cencnt, cen, ctrl, d, cnt, calm>>

Next == Clk \/ WriteReg \/ SetMode

\* The clock runs, and crt_set_mode writes all the registers.
Spec == Init /\ [][Next]_vars /\ WF_vars(Clk) /\ WF_vars(WriteReg)

----------------------------------------------------------------------------
FrameClks == CE_DENOM * Size(ctrl, "h") * Size(ctrl, "v")

\* Once the registers hold a mode and the enable is regular, every frame takes
\* exactly its number of clocks, without drift, and shows exactly its visible
\* pixels, whatever the counters and sums were when the mode was set; and the first
\* one begins within one frame's time: a counter that a smaller mode leaves beyond
\* its end comes back at its next step instead of running on to the end of its 12
\* bits (crtc.sv:73-76, 96-112, jtframe_frac_cen.v:50-57).
ExactFrame ==
    /\ lead <= FrameClks
    /\ frame # <<>> => frame = <<FrameClks, ctrl[<<"h", "act">>] * ctrl[<<"v", "act">>]>>

\* Whatever was programmed before, the frames go on: vblank, which paces main
\* and starts the measurements, falls again and again (crtc.sv:75, main.c:271).
FramesGoOn == []<>(next > Len(Order) => Blank("v")) /\ []<>(next > Len(Order) => ~Blank("v"))

\* The first write of the numerator comes while the denominator is 0 and drives
\* cencnt out of its range; it comes back by itself for good (crtc.sv:59-66,
\* hdmi.c:272-273, jtframe_frac_cen.v:41-58).
Recovers == <>[]Regular(numer, denom)
=============================================================================
