----------------------------- MODULE VideoMode ------------------------------
(***************************************************************************)
(* From a line of the menu to the numbers that are programmed: the timing  *)
(* of the HDMI mode (hdmi_find_mode, calculate_cvt), the 240p timing       *)
(* (gfx_set_240p), and the search for the settings of a PLL that yields    *)
(* the pixel clock (findPLLpar and the fallback of setPLL and              *)
(* crt_set_mode), of firmware/src/hdmi.c and gfx.c.                        *)
(*                                                                         *)
(* Frequencies are in Hz.  The code computes in float and double; the      *)
(* quotients it rounds down are exact fractions here, and only the product *)
(* that float rounds to 24 bits is rounded.  The 240p clock in MHz is a    *)
(* float too, which moves it by at most 2 Hz; that is left out.  The       *)
(* fraction ko of the code is ko / Ref.                                    *)
(*                                                                         *)
(* HBlankLow, RaiseStuck, NearlyRound and DivEven are mutants of the       *)
(* definition that follows each; nothing uses them.                        *)
(***************************************************************************)
EXTENDS Printf, TLC

CONSTANTS
    hdmi_resolutions,       \* sequence of [width, height, wide]
    hdmi_refresh_rates      \* sequence of Hz

ASSUME VideoModeAssumption ==
    /\ \A i \in DOMAIN hdmi_resolutions :
          hdmi_resolutions[i] \in [width : Nat \ {0}, height : Nat \ {0}, wide : BOOLEAN]
    /\ \A j \in DOMAIN hdmi_refresh_rates : hdmi_refresh_rates[j] \in Nat \ {0}

\* The modes a monitor may have.
Widths == 160..2800
Heights == 200..3600
Rates == 1..100

\* The tables hold such modes; what does not depend on it is proved without.
ASSUME MonitorAssumption ==
    /\ \A i \in DOMAIN hdmi_resolutions :
          hdmi_resolutions[i].width \in Widths /\ hdmi_resolutions[i].height \in Heights
    /\ \A j \in DOMAIN hdmi_refresh_rates : hdmi_refresh_rates[j] \in Rates

Ref == 50000000             \* the clock the PLLs multiply
VcoMin == 400000000
VcoStop == 1500000000
KLow == 2500000             \* 0.05 and 0.95 of Ref
KHigh == 47500000

----------------------------------------------------------------------------
(* The timing of a mode. *)

U16(n) == n % 65536

\* An integer as a float: the nearest one with 24 bits, the even one of two.
Float(n) ==
    LET ulp == CHOOSE u \in {1, 2, 4, 8, 16, 32, 64, 128} :
                  n \div u < 16777216 /\ (u = 1 \/ n \div u >= 8388608)
        down == n \div ulp
        rest == 2 * (n % ulp)
    IN  ulp * IF rest > ulp \/ (rest = ulp /\ down % 2 = 1) THEN down + 1 ELSE down

video_mode_pixels(t) == (t.hact + t.hbp + t.hfp + t.hs) * (t.vact + t.vbp + t.vfp + t.vs)

determine_vsync(w, h) ==
    LET ratios == <<<<4, 3, 4>>, <<16, 9, 5>>, <<16, 10, 6>>, <<5, 4, 7>>, <<15, 9, 7>>>>
        fits == {i \in 1..5 : ((h * ratios[i][1]) \div (ratios[i][2] * 4)) * 4 = w}
    IN  IF fits = {} THEN 10 ELSE ratios[CHOOSE i \in fits : \A j \in fits : i <= j][3]

\* Lines for the vertical blanking: us microseconds of a frame that has lines others.
BlankLines(us, lines, hz) == (us * lines * hz) \div (1000000 - us * hz) + 1

AtLeast(n, least) == IF n < least THEN least ELSE n

\* The duty cycle of a line is 5 * Duty / (lines * hz) percent.
Duty(lines, hz) == 6 * lines * hz + 33 * hz - 60000

HBlankLow(w, lines, hz) ==
    LET duty == Duty(lines, hz) IN 8 * ((w * duty) \div (8 * (20 * lines * hz - duty)))
HBlank(w, lines, hz) ==
    LET duty == Duty(lines, hz)
    IN  8 * IF duty < 4 * lines * hz THEN w \div 32
            ELSE (w * duty) \div (8 * (20 * lines * hz - duty))

HSync(total) == (total \div 50) * 4

calculate_cvt(h_pixels, v_lines, hz, reduced_blanking) ==
    LET w == (h_pixels \div 4) * 4
        vs == determine_vsync(w, v_lines)
        blank == IF reduced_blanking THEN 160 ELSE HBlank(w, v_lines + 3, hz)
        hs == IF reduced_blanking THEN 32 ELSE HSync(w + blank)
        hbp == IF reduced_blanking THEN 80 ELSE blank \div 2
        vbp == IF reduced_blanking THEN AtLeast(BlankLines(460, v_lines, hz), 3 + vs + 6) - 3 - vs
               ELSE AtLeast(BlankLines(550, v_lines + 3, hz), vs + 6) - vs
    IN  [hact |-> U16(w), hfp |-> U16(blank - hs - hbp), hs |-> U16(hs), hbp |-> U16(hbp),
         vact |-> U16(v_lines), vfp |-> 2, vs |-> U16(vs), vbp |-> U16(vbp + 1)]

\* The pixels above which the blanking is reduced.
FullHd == 1920 * 1080

hdmi_find_mode(width, height, hz) ==
    calculate_cvt(width, height, hz, width * height > FullHd)

Mode240p(wide) ==
    IF wide THEN [hact |-> 384, hfp |-> 16, hs |-> 32, hbp |-> 48,
                  vact |-> 216, vfp |-> 3, vs |-> 5, vbp |-> 6]
    ELSE [hact |-> 320, hfp |-> 8, hs |-> 32, hbp |-> 40,
          vact |-> 240, vfp |-> 3, vs |-> 4, vbp |-> 6]

----------------------------------------------------------------------------
(* The PLL. *)

VARIABLES
    pc,             \* "raise", "search", "fallback", "program", "mode", "clock" or "idle"
    pll,            \* the PLL that is being set: "crt" or "hdmi"
    exact,          \* in findPLLpar, rather than in what follows its failure
    request,        \* what the menu asked for, or what main sets at boot
    Fout, c, m, ko, \* the clock wanted, in Hz, and the settings found
    timing,         \* per PLL: the timing registers
    regs,           \* per PLL: the counters and the fraction
    video_mode_desc

vars == <<pc, pll, exact, request, Fout, c, m, ko, timing, regs, video_mode_desc>>
search == <<exact, c, m, ko>>

Boot == [mode |-> 0, refresh |-> 0, wide |-> FALSE]
Hz(r) == IF r = Boot THEN 60 ELSE hdmi_refresh_rates[r.refresh]

\* gfx_set_240p and the start of crt_set_mode; the dot clock is a quarter.
Clock240p(r) == 4 * Float(Hz(r) * video_mode_pixels(Mode240p(r.wide)))

\* hdmi_set_mode: the timing of a request, and the clock a timing needs.
FoundMode(r) ==
    hdmi_find_mode(hdmi_resolutions[r.mode].width, hdmi_resolutions[r.mode].height, Hz(r))
HdmiClock(t, r) == Float(video_mode_pixels(t) * Hz(r))

Requests == [mode : DOMAIN hdmi_resolutions, refresh : DOMAIN hdmi_refresh_rates, wide : BOOLEAN]

\* The clocks of the tables are numbers a float holds.
ASSUME ClockAssumption ==
    /\ \A r \in {Boot} \union Requests : Clock240p(r) \in Nat \ {0}
    /\ \A r \in Requests : HdmiClock(FoundMode(r), r) \in Nat \ {0}

Init ==
    /\ pc = "raise" /\ pll = "crt" /\ exact = TRUE
    /\ request = Boot /\ Fout = Clock240p(Boot)
    /\ c = 1 /\ m = 0 /\ ko = 0
    /\ timing = [crt |-> <<>>, hdmi |-> <<>>] /\ regs = [crt |-> <<>>, hdmi |-> <<>>]
    /\ video_mode_desc = snprintf(32, <<"MiSTer Default">>)

\* "Apply Video Changes" in the menu.  Bound: once, since nothing that is computed
\* depends on the mode before.
Apply(mode, refresh, aspect) ==
    /\ pc = "idle" /\ request = Boot
    /\ request' = [mode |-> mode, refresh |-> refresh,
                   wide |-> hdmi_resolutions[mode].wide /\ aspect]
    /\ pc' = "raise" /\ pll' = "crt" /\ Fout' = Clock240p(request')
    /\ exact' = TRUE /\ c' = 1 /\ m' = 0 /\ ko' = 0
    /\ UNCHANGED <<timing, regs, video_mode_desc>>

\* while ((Fout*c) < 400) c++;
RaiseStuck ==
    /\ pc = "raise"
    /\ IF Fout * c < VcoMin THEN c' = c /\ pc' = pc
       ELSE c' = c /\ pc' = IF exact THEN "search" ELSE "fallback"
    /\ UNCHANGED <<pll, exact, request, Fout, m, ko, timing, regs, video_mode_desc>>
Raise ==
    /\ pc = "raise"
    /\ IF Fout * c < VcoMin THEN c' = c + 1 /\ pc' = pc
       ELSE c' = c /\ pc' = IF exact THEN "search" ELSE "fallback"
    /\ UNCHANGED <<pll, exact, request, Fout, m, ko, timing, regs, video_mode_desc>>

\* The multiplier and the fraction for the VCO at Fout * c.
Whole == (Fout * c) \div Ref
Fraction == (Fout * c) % Ref

NearlyRound == Fraction # 0 /\ Fraction <= KLow
Unusable == Fraction # 0 /\ (Fraction <= KLow \/ Fraction >= KHigh)

\* One turn of the loop of findPLLpar.
Search ==
    /\ pc = "search"
    /\ \/ /\ Unusable /\ Fout * c > VcoStop
          /\ pc' = "raise" /\ exact' = FALSE /\ c' = 1 /\ UNCHANGED <<m, ko>>
       \/ /\ Unusable /\ Fout * c <= VcoStop
          /\ c' = c + 1 /\ UNCHANGED <<pc, exact, m, ko>>
       \/ /\ ~Unusable
          /\ m' = Whole /\ ko' = Fraction
          /\ pc' = "program" /\ UNCHANGED <<exact, c>>
    /\ UNCHANGED <<pll, request, Fout, timing, regs, video_mode_desc>>

\* What setPLL and crt_set_mode do when findPLLpar fails: drop the fraction if it
\* is not allowed.
Fallback ==
    /\ pc = "fallback"
    /\ m' = IF Fraction >= KHigh THEN Whole + 1 ELSE Whole
    /\ ko' = IF Fraction <= KLow \/ Fraction >= KHigh THEN 0 ELSE Fraction
    /\ pc' = "program"
    /\ UNCHANGED <<pll, exact, request, Fout, c, timing, regs, video_mode_desc>>

\* Bit i of a number, and the low 8 bits of the bitwise or of two.
Bit(n, i) == (n \div 2^i) % 2 = 1
Or8(a, b) ==
    LET or[i \in 0..8] ==
            IF i = 0 THEN 0
            ELSE or[i - 1] + IF Bit(a, i - 1) \/ Bit(b, i - 1) THEN 2^(i - 1) ELSE 0
    IN  or[8]

\* getPLLdiv, as the PLL reads the word: two counts of 8 bits and two flags.  Above
\* 510 the high count reaches into the flags, from 512 on the low one into the high.
DivEven(div) == [odd |-> div % 2 = 1, bypass |-> FALSE, hi |-> div \div 2, lo |-> div \div 2]
getPLLdiv(div) ==
    LET low == div \div 2
        high == low + (div % 2)
    IN  [odd |-> div % 2 = 1 \/ Bit(high, 9) \/ Bit(low, 17),
         bypass |-> Bit(high, 8) \/ Bit(low, 16),
         hi |-> IF low < 256 THEN high % 256 ELSE Or8(high, low \div 256),
         lo |-> low % 256]

\* The registers 4, 5 and 7 of the PLL; a fraction of 0 is written as 1 / 2^32.
Settings == [m |-> getPLLdiv(m), c |-> getPLLdiv(c), ko |-> ko]

\* The end of crt_set_mode; at boot main goes on, and the menu calls hdmi_set_mode.
ProgramCrt ==
    /\ pc = "program" /\ pll = "crt"
    /\ regs' = [regs EXCEPT !.crt = Settings]
    /\ timing' = [timing EXCEPT !.crt = Mode240p(request.wide)]
    /\ pc' = IF request = Boot THEN "idle" ELSE "mode"
    /\ UNCHANGED <<pll, request, Fout, search, video_mode_desc>>

\* The start of hdmi_set_mode.
FindMode ==
    /\ pc = "mode"
    /\ timing' = [timing EXCEPT !.hdmi = FoundMode(request)]
    /\ pc' = "clock"
    /\ UNCHANGED <<pll, request, Fout, search, regs, video_mode_desc>>

FindClock ==
    /\ pc = "clock"
    /\ Fout' = HdmiClock(timing.hdmi, request)
    /\ pc' = "raise" /\ pll' = "hdmi"
    /\ exact' = TRUE /\ c' = 1 /\ m' = 0 /\ ko' = 0
    /\ UNCHANGED <<request, timing, regs, video_mode_desc>>

resolution_to_string(i) ==
    snprintf(32, <<U(hdmi_resolutions[i].width), "x", U(hdmi_resolutions[i].height)>>)
refresh_to_string(j) == snprintf(10, <<U(hdmi_refresh_rates[j]), "hz">>)

\* The end of setPLL, of hdmi_set_mode and of what the button does.
ProgramHdmi ==
    /\ pc = "program" /\ pll = "hdmi"
    /\ regs' = [regs EXCEPT !.hdmi = Settings]
    /\ video_mode_desc' = snprintf(32, <<resolution_to_string(request.mode), " @ ",
                                         refresh_to_string(request.refresh)>>)
    /\ pc' = "idle"
    /\ UNCHANGED <<pll, request, Fout, search, timing>>

Run == Raise \/ Search \/ Fallback \/ ProgramCrt \/ FindMode \/ FindClock \/ ProgramHdmi

Next ==
    \/ \E mode \in DOMAIN hdmi_resolutions, refresh \in DOMAIN hdmi_refresh_rates,
          aspect \in BOOLEAN : Apply(mode, refresh, aspect)
    \/ Run

\* The CPU runs on.
Spec == Init /\ [][Next]_vars /\ WF_vars(Run)

----------------------------------------------------------------------------
TypeOK ==
    /\ pc \in {"raise", "search", "fallback", "program", "mode", "clock", "idle"}
    /\ pll \in {"crt", "hdmi"} /\ exact \in BOOLEAN
    /\ Fout \in Nat \ {0} /\ c \in Nat \ {0} /\ m \in Nat /\ ko \in Nat

\* The divider a counter of the PLL makes of its high and low counts.
Divider(count) == IF count.bypass THEN 1 ELSE count.hi + count.lo

Gap(x, y) == IF x < y THEN y - x ELSE x - y

\* What is programmed keeps the VCO at 400 MHz or above, has a fraction the PLL can
\* work with ("Make sure K is in allowed range", hdmi.c:145), and is at most one part
\* in 160 off the clock that was asked for, whether findPLLpar found an exact
\* setting, gave up above 1500 MHz, or took its first try (hdmi.c:90-172, 232-252).
PllClose ==
    pc = "program" =>
        /\ Ref * m + ko >= VcoMin
        /\ ko = 0 \/ (KLow < ko /\ ko < KHigh)
        /\ 160 * Gap(Ref * m + ko, Fout * c) <= Fout * c

\* The 12 bits the hardware keeps of a field, and a line or a frame that fits them.
Field == 1..4095
Short(active, front, sync, back) == active + front + sync + back < 4096

Fits(t) ==
    /\ \A f \in DOMAIN t : t[f] \in Field
    /\ Short(t.hact, t.hfp, t.hs, t.hbp) /\ Short(t.vact, t.vfp, t.vs, t.vbp)

\* Every field of a timing that is programmed is at least 1 and, like the length of
\* the line and of the frame, fits the 12 bits the hardware keeps of it: no porch
\* comes out empty or negative and wraps (hdmi.c:325-402, gfx.c:76-101).
PorchesFit == \A p \in {"crt", "hdmi"} : timing[p] # <<>> => Fits(timing[p])

\* The frames per second that the counters and the fraction of a PLL make of a
\* timing, times ce clocks a pixel, are hz to 0.2%, with the VCO at most at 1600 MHz.
Makes(r, t, ce, hz) ==
    LET vco == Ref * Divider(r.m) + r.ko
        want == ce * hz * video_mode_pixels(t) * Divider(r.c)
    IN  vco <= 1600000000 /\ Gap(vco, want) <= want \div 500

\* When the menu has applied a mode, the name on the screen is the resolution (the
\* width rounded down to 4 pixels) and the refresh rate that both outputs have: the
\* HDMI mode and the 240p picture it shows (main.c:241-252, hdmi.c:84-172, 224-283).
ShownIsReal ==
    pc = "idle" /\ request # Boot =>
        \E w \in timing.hdmi.hact..(timing.hdmi.hact + 3), hz \in 1..99 :
            /\ video_mode_desc = ToString(w) \o "x" \o ToString(timing.hdmi.vact) \o " @ "
                                   \o ToString(hz) \o "hz"
            /\ Makes(regs.hdmi, timing.hdmi, 1, hz) /\ Makes(regs.crt, timing.crt, 4, hz)

\* The loops over c end for every mode (hdmi.c:93-122, 139, 236): the firmware comes
\* back from main's first call and from the menu's button.
SearchEnds == pc # "idle" ~> pc = "idle"
=============================================================================
