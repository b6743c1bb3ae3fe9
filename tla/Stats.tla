------------------------------- MODULE Stats --------------------------------
(***************************************************************************)
(* The statistics of firmware/src/main.c: the ring of the last             *)
(* HISTORY_SIZE samples, and the four status lines computed from it when a *)
(* sample was recorded and drawn by the next iteration.                    *)
(*                                                                         *)
(* One action is one call of do_sampling with the verdict it reaches.  A   *)
(* line is its text, as snprintf leaves it in the STATUS_W bytes it is     *)
(* given.                                                                  *)
(*                                                                         *)
(* StoreNext and MeanOfAll are mutants of the definition that follows      *)
(* each; nothing uses them.                                                *)
(***************************************************************************)
EXTENDS Printf, FiniteSetsExt, Functions

CONSTANTS
    HISTORY_SIZE, STATUS_W,
    TickMod,        \* range of uint32_t
    CLOCK_REF_MHZ, CLOCK_REF_KHZ,
    Longest,        \* bound: the longest latency, in ticks
    Samples,        \* bound: latencies that are measured
    MaxSamples      \* bound: samples recorded

ASSUME StatsAssumption ==
    /\ {HISTORY_SIZE, STATUS_W, CLOCK_REF_MHZ, CLOCK_REF_KHZ} \subseteq Nat \ {0}
    /\ TickMod \in Nat /\ MaxSamples \in 0..(TickMod - 1)   \* sample_idx does not wrap
    /\ Longest \in Nat /\ HISTORY_SIZE * Longest < TickMod
    /\ Samples \subseteq 0..Longest

VARIABLES
    samples, latest_sample, sample_idx,
    lines,          \* status.lines
    shown,          \* the lines draw_status last drew
    past            \* history: every sample recorded

statsVars == <<samples, latest_sample, sample_idx, lines, shown, past>>

StatsInit ==
    /\ samples = [i \in 0..(HISTORY_SIZE - 1) |-> 0]
    /\ latest_sample = 0 /\ sample_idx = 0
    /\ lines = [cur |-> "", avg |-> "", min |-> "", max |-> ""]
    /\ shown = lines
    /\ past = <<>>

----------------------------------------------------------------------------
clock_ticks_to_ms_us(ticks) ==
    [ms |-> ticks \div CLOCK_REF_KHZ, us |-> (ticks \div CLOCK_REF_MHZ) % 1000]

ticks_to_ms_str(ticks) ==
    LET t == clock_ticks_to_ms_us(ticks) IN snprintf(16, <<U(t.ms), ".", U0(3, t.us)>>)

Line(label, ticks) == snprintf(STATUS_W, <<label, ticks_to_ms_str(ticks), " ms">>)

NoSample == snprintf(STATUS_W, <<"CUR: NO SAMPLE">>)

\* record_new_sample: the ring with one more sample.
StoreNext(ticks) == [samples EXCEPT ![(sample_idx + 1) % HISTORY_SIZE] = ticks]
Store(ticks) == [samples EXCEPT ![sample_idx % HISTORY_SIZE] = ticks]

\* The part of the ring that is in use when idx samples were recorded.
HistoryLen(idx) == IF HISTORY_SIZE > idx THEN idx ELSE HISTORY_SIZE

\* mean_ticks of update_sample_status; the sum wraps like a uint32_t.
MeanOfAll(ring, len) == (MapThenSumSet(LAMBDA i : ring[i], 0..(len - 1)) % TickMod) \div HISTORY_SIZE
Mean(ring, len) == (MapThenSumSet(LAMBDA i : ring[i], 0..(len - 1)) % TickMod) \div len

\* update_sample_status.
Updated(cur, ring, len) ==
    LET held == {ring[i] : i \in 0..(len - 1)}
    IN  [cur |-> Line("Cur: ", cur), avg |-> Line("Avg: ", Mean(ring, len)),
         min |-> Line("Min: ", Min(held \union {TickMod - 1})),
         max |-> Line("Max: ", Max(held \union {0}))]

----------------------------------------------------------------------------
\* record_new_sample, draw_status, update_sample_status.
NewSample(ticks) ==
    /\ Len(past) < MaxSamples
    /\ latest_sample' = ticks
    /\ samples' = Store(ticks)
    /\ sample_idx' = sample_idx + 1
    /\ shown' = lines
    /\ lines' = Updated(ticks, samples', HistoryLen(sample_idx'))
    /\ past' = Append(past, ticks)

\* record_missing_sample: the other lines stay.
MissingSample ==
    /\ shown' = lines
    /\ lines' = [lines EXCEPT !.cur = NoSample]
    /\ UNCHANGED <<samples, latest_sample, sample_idx, past>>

NoVerdict ==
    /\ shown' = lines
    /\ UNCHANGED <<samples, latest_sample, sample_idx, lines, past>>

StatsNext == NoVerdict \/ MissingSample \/ \E ticks \in Samples : NewSample(ticks)

StatsSpec == StatsInit /\ [][StatsNext]_statsVars

----------------------------------------------------------------------------
\* Reading a line back: the number a text of digits stands for, and the
\* microseconds of "abc: <ms>.<us> ms", or -1 for anything else.
IsNumber(text) == Len(text) > 0 /\ \A i \in 1..Len(text) : SubSeq(text, i, i) \in Range(Digit)
Number(text) ==
    LET of[i \in 0..Len(text)] ==
          IF i = 0 THEN 0
          ELSE 10 * of[i - 1] + CHOOSE d \in 0..9 : Digit[d + 1] = SubSeq(text, i, i)
    IN  of[Len(text)]

Reading(line) ==
    LET n == Len(line)
        ms == SubSeq(line, 6, n - 7)
        us == SubSeq(line, n - 5, n - 3)
    IN  IF n > 12 /\ SubSeq(line, n - 2, n) = " ms" /\ SubSeq(line, n - 6, n - 6) = "."
             /\ IsNumber(ms) /\ IsNumber(us)
          THEN Number(ms) * 1000 + Number(us) ELSE -1

Shows(label, line, ticks) ==
    SubSeq(line, 1, 5) = label /\ Reading(line) = ticks \div CLOCK_REF_MHZ

\* A line reads as what was printed to it, for every number of ticks up to the
\* longest latency: no zero of the fraction is lost, and nothing is cut.
ASSUME TextAssumption ==
    /\ NoSample = "CUR: NO SAMPLE"
    /\ \A ticks \in 0..Longest :
           \A label \in {"Cur: ", "Avg: ", "Min: ", "Max: "} :
               Shows(label, Line(label, ticks), ticks)

\* The samples the statistics are about: the last HISTORY_SIZE, or all there are.
Recent == SubSeq(past, IF Len(past) > HISTORY_SIZE THEN Len(past) - HISTORY_SIZE + 1 ELSE 1,
                 Len(past))

\* The lines read as the statistics of the last HISTORY_SIZE samples, to the
\* microsecond (main.c:296-301, 329-363), before the ring is full, when it is and
\* after it has wrapped, with missing samples anywhere between.  No zero of the
\* fraction is lost, and no line is cut at STATUS_W, where the longest just fits.
StatsExact ==
    past # <<>> =>
        LET recent == Range(Recent)
            sum == MapThenSumSet(LAMBDA i : Recent[i], DOMAIN Recent)
        IN  /\ lines.cur = "CUR: NO SAMPLE" \/ Shows("Cur: ", lines.cur, past[Len(past)])
            /\ Shows("Min: ", lines.min, Min(recent)) /\ Shows("Max: ", lines.max, Max(recent))
            /\ Shows("Avg: ", lines.avg, sum \div Len(Recent))

\* What is on the screen is in order, min <= avg <= max, and the current sample
\* lies between them (main.c:108-119, 357-362).
ShownOrdered ==
    shown.avg # "" =>
        LET min == Reading(shown.min)
            max == Reading(shown.max)
        IN  /\ min <= Reading(shown.avg) /\ Reading(shown.avg) <= max
            /\ Reading(shown.cur) \in min..max \/ shown.cur = "CUR: NO SAMPLE"
=============================================================================
