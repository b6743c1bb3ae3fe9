# MiSTer Laggy in TLA+

MiSTer Laggy measures the latency of a display. A 68000 in the FPGA runs the firmware (`firmware/src`)
next to some video hardware (`rtl/`): it flashes a pattern, a light sensor answers, and interrupt handlers
capture the start of the frame and the answer on a free-running 10 MHz counter. The modules here model the
firmware and the hardware it depends on, at the granularity at which their steps can interleave.

Line references are to files under `src/`; `main.c` etc. stand for `firmware/src/main.c`.

## The system and its modules

| Part | Code | Modules |
| --- | --- | --- |
| Main loop, sampling state machine, interrupt handlers | `main.c` | `Sampler`, `SamplerInv`, `SamplerProofs` |
| Tick counter and `clock_get_ticks` | `clock.h`, `rtl/system.sv` | `ClockRead`, `LatencyProofs` |
| Interrupt controller | `rtl/system.sv` | `IrqSpec` (abstract), `Irq`, `MeasureProofs` |
| Pages, flash, and what the sensor can see | `gfx.c`, `main.c` | `Screen`, `LatencyProofs` |
| Statistics of the samples, and their text | `main.c`, `clock.c`, `printf/printf.c` | `Stats` (extends `Printf`), `MeasureProofs` |
| Video Config menu, gamepad | `main.c`, `gfx.c`, `input.c` | `Menu`, `ConfigProofs` |
| Drawing layer | `gfx.c`, `main.c` | `Gfx`, `GfxProofs` |
| Blitter and the tile memory's port | `rtl/blitter.sv`, `rtl/system.sv`, `gfx.c` | `Blitter`, `BlitterProofs` |
| Timing generator and pixel enable | `rtl/crtc.sv`, `rtl/jtframe_frac_cen.v`, `hdmi.c` | `Crtc` (extends `FracCen`), `CrtcProofs` |
| Reconfiguration core of a PLL | `sys/pll_cfg/altera_pll_reconfig_core.v`, `sys/pll_cfg/pll_cfg_hdmi.v` | `PllCore` |
| Pixel PLL configuration | `hdmi.c`, `rtl/crtc.sv`, `rtl/pll_fifo.v`, `MiSTerLaggy.sv` | `PllFifo` (extends `PllCore`), `HdmiProofs` |
| HDMI registers and PLL, the HPS, the adjuster | `hdmi.c`, `rtl/system.sv`, `sys/sys_top.v`, `sys/pll_hdmi_adj.vhd` | `Vio` (extends `PllCore`) |
| Applying a mode to both outputs, resets | `main.c`, `init.c` and the two rows above | `Hdmi` (extends `PllFifo`, `Vio`), `HdmiProofs` |
| Timings and PLL settings of a mode | `hdmi.c`, `hdmi.h`, `gfx.c`, `main.c` | `VideoMode` (extends `Printf`), `ConfigProofs` |

`MC*` modules give the instances for TLC. `PROJECT.json` maps every definition to its lines, lists the parts
that are not modelled, and the hazards of the code with the properties that cover them.

How the parts interact:

- The CRTC's blank (`Crtc`) raises level 2, which paces the main loop, and level 4, the start of a measurement;
  the sensor raises level 6. `Irq` models how edges become interrupts. `Sampler` uses what `Irq` shows (no edge is
  lost, a handler runs after its edge) by letting a handler start at any time its guard allows.
- Handlers and main read the clock with `clock_get_ticks`. `ClockRead` shows that a call is one instant, and
  `Sampler` takes it as one step. The call ends with the interrupt mask at 0, in a handler as well, so in `Sampler`
  handlers nest.
- `Screen` repeats the state machine of `Sampler` with its times left open and adds the pages.
- `Menu`, `Gfx` and `Stats` take one action per iteration of the main loop: nothing they use is touched by a handler.
- `Blitter` is what the rectangles of `Gfx` become.
- "Apply Video Changes" of `Menu` computes numbers (`VideoMode`) and writes them: the 240p timing to the CRTC (`Crtc`), the pixel
  clock through the FIFO (`PllFifo`), the HDMI mode and its clock through the command port (`Vio`). `Hdmi` composes the last two
  with the order of the calls in `draw_menu`, with the HPS and with resets.

### How state and actions correspond to the code

- **Sampler.** `state`, `state_start_ticks`, `sample_seq`, `frame_seq`, `frame_ticks`, `sensor_seq`, `sensor_ticks` are the
  variables of `main.c`. One step is one access to state shared with a handler; `pc` names the place in
  `do_sampling`. The two stores of `ST_START_SAMPLE` may come in either order, because `palette_ram` is not volatile.
  `frames[1..depth]` is the stack of handlers. `epoch`, `sample_no`, `frame_no`, `sensor_no`, `arm`, `dark` are history.
- **ClockRead.** `ticks`, `ticks2`, `ticks_latch` are the registers of `system.sv`; `frames` holds the call that main
  and each nested handler is in. `CONSTANT Torn` says whether a sample of the counter may mix bits of two counts.
- **Irq.** One action, `Clk`, does all the nonblocking assignments of the `always` block. The CPU is external.
- **Screen.** `page[p]` is what a page holds, `page_front` the one on display. `Apply` flips in the middle of the menu, as
  `gfx_set_240p` does. `shown` and `hidden` record whether the frames of a measurement displayed the lit pattern.
- **Stats.** One action per verdict; status lines are computed after they are drawn, so `shown` lags `lines` by one. A line is its
  text, put together by `Printf`; the properties read it back.
- **Menu.** One action per iteration, with any gamepad reading and any sensor presence.
- **Gfx.** The functions of `gfx.c` are operators on a drawing state; everything drawn is a rectangle.
- **Blitter**, **Crtc**, **PllFifo**. A step is an edge of a clock; `PllFifo` has two unrelated clocks.
- **PllCore**. The state machine of the reconfiguration core: it is idle, writes what was changed to the PLL (all the states of its DPRIO
  machine together, for a time that is open) or waits for the lock. It takes a write in the clock it comes in or not at all: not without
  lock, not while it writes. A start counts only when it is idle and something was changed.
- **Vio**. A step is one write of the firmware to `vio_en` or `vio_data`; `todo` holds the writes `hdmi_set_mode` has yet to make. A
  word carries the mode it is of, so that `timing`, `settings` (in the PLL's registers) and `running` (in effect) tell which mode every
  part of them is of. The HPS writes word by word (`HpsMode`, `HpsWord`). The adjuster (`adj`) sits between these and the core. It reads along what
  M and K are, and in low latency mode each of its pulses computes a new frequency from them and writes M, K and a start (`AdjTune`,
  `AdjWrite`). A value computed from two others is of their mode, or `Mixed`. Its three registers of a frequency (`mfrac`, `mfrac_ref`, `mfrac_mem`) are written
  together and are one here, which frequency it chooses is left open, and so is whether M changes with it. A write of another goes before
  its own (`Pulse`).
- **Hdmi**. `call` is where main is. `ResetCore` is a reset of the core, with or without the framework's, at any step: main starts
  anew, what the hardware holds stays, and only the framework's reset takes the override back. A PLL that is reset is taken to come
  back with the settings it had. `video_mode_desc` is the mode in the name on the screen. `hit` is history: since the settings of a clock were begun, something
  came in between, or the core was not there to take one.
- **VideoMode**. `Raise` and `Search` are turns of the loops of `findPLLpar`, `Fallback` what its callers do when it fails. The code computes
  in `float` and `double`. The quotients it rounds down are exact fractions here and the one product that needs more than 24 bits
  is rounded as `float` does. For all modes of the menu the timings and settings are those of the compiled C code.

## Runs

| Run | Shows |
| --- | --- |
| `sampler` | Main judges one stable pair of captures (`UnlockedReadsAgree`). What it records is the real time from this sample's frame start to this sample's answer (`GenuineSample`). What it calls missing was not seen (`MissingUnseen`). The pattern is dark long enough before each flash, across a wrap of the counter (`DarkBeforeFlash`). Every armed sample gets a verdict (`VerdictReached`) and the loop never stops (`LoopTurns`). `IInv` is the inductive invariant of the proofs. |
| `irq` | The controller implements `IrqSpec`: no edge is lost (`ImplementsIrqSpec`). The flag cleared is that of the interrupt taken (`AckMatchesVector`), a lower line goes first at most once (`BoundedInversion`), every flagged line is served (`Served`). |
| `latency` | The two ends of a latency, in two models that share nothing. `clock_get_ticks` returns a count the counter had during the call (`ReadIsInstant`). While the loop stays in `MODE_SAMPLING` a latency counts from a frame that shows the lit pattern (`MeasuresPattern`). Half-drawn pages are on display only while a mode is applied (`WholePages`). |
| `screen_menu` | *Violation:* with menu visits `MeasuresPattern` fails (see Findings). |
| `stats` | The text of the lines reads as the statistics of the last samples, to the microsecond, and none is cut (`StatsExact`); they are in order on the screen (`ShownOrdered`). |
| `menu` | The highlight stays on its item (`HighlightStays`) and is never lost for two frames (`HighlightRecovers`), the menu opens on the settings in effect (`OpensOnCurrent`), a held button acts once (`PressActsOnce`). |
| `gfx` | The context stack stays in its array (`StackInBounds`), every frame starts from the whole screen (`StartsFresh`), all that is drawn fits (`OnScreen`), nothing overlaps (`NoOverlap`), no old drawing shows (`NothingStale`). |
| `blitter` | The tile memory ends as if fills and text were drawn one by one (`DrawsInOrder`), no fill wipes what came later (`NeverBackwards`), the CPU is never held for good (`AllDrawn`). |
| `crtc` | After any rewriting of the registers each frame takes exactly its clocks and shows exactly its pixels and the first begins within a frame's time (`ExactFrame`), frames go on (`FramesGoOn`), the pixel enable settles (`Recovers`). |
| `hdmi` | Each reconfiguration of the pixel clock has all its own parameters (`StartHasAll`) and happens, after resets in the middle of earlier ones (`AllStarted`). While the menu names a mode the HDMI output has its timing, whole, and low latency, whatever the HPS sends (`ShownHolds`). A reconfiguration of the HDMI clock, the adjuster's included, has all the parameters of the mode the timing has (`HdmiStartHasAll`), and the named mode takes effect (`HdmiStarts`); for both see Findings. |
| `hdmi_reset` | *Violation:* after a reset "MiSTer Default" is on the screen, and the applied mode on the HDMI output (`DefaultMode`, see Findings). |
| `modes` | For all 228 modes of the menu: the timing fits its registers (`PorchesFit`), the PLL settings are allowed and close (`PllClose`), the name on the screen is what both outputs then produce (`ShownIsReal`), the searches end (`SearchEnds`). |

### Bounds

- `sampler`: 3 ticks and one wrap of the counter, sequence numbers modulo 2, two nested handlers: enough for a sequence to come
  round, for a sample to time out and be armed again, and for each level to interrupt the other. The theorems cover all values.
- `latency`: words of one bit, one wrap, main and two nested handlers for the clock; none for the pages, whose model is finite. Each model is
  explored while the other is at its start. The theorems cover all widths and depths.
- `irq`: three changes of the sources, plus the edges that writing `int_ctrl` causes: a second and a third line can be
  flagged while a first is acknowledged.
- `screen_menu`: none; the model is finite.
- `stats`: a ring of three and five samples (before full, full, and two samples past the wrap), values around the
  rounding boundaries. The clock is 2 MHz and the longest latency 100 ms and a fraction, the longest text there is: so TLC can
  evaluate `TextAssumption` for every number of ticks. The theorems cover every ring, every clock and any number of samples.
- `menu`: two resolutions, one of them wide, and two rates: the aspect item comes and goes. Two buttons down at once.
- `gfx`: the code's own sizes. The theorems cover every size that leaves the bars, the image and the text room.
- `blitter`: 4 by 4 words, three operations; the gaps between CPU writes (4 and 20 clocks) make it run ahead of a fill or wait.
  The theorems cover every size, every rectangle, any number of operations and every pace.
- `crtc`: counters of 3 bits, an enable counter of 6, a large and a small mode, set in any order twice. A write may come in any
  clock. The theorem covers every width, all modes that fit it and any number of changes.
- `hdmi`, `hdmi_reset`: three entries in a FIFO of one, so that it is full again and again, and three pixel clocks set one after another; two fields of a timing
  and three settings of a clock (the mode register, M and K), so that a first, a second and a last word can each be cut off; two HDMI modes after the
  HPS's, so that one replaces another. `MaxEvents` is one: one command of the HPS, reset, loss of lock or pulse between the settings, at any
  step; the adjuster's other pulses, its writes, and the core are not bounded. The inductive invariant of the proofs was checked with two. The theorems
  cover every number of entries, fields, settings, modes and events and every depth.
  The pixel clocks are set first, clock by clock, then the HDMI modes, which leaves nothing out because the two share no state; for the same
  reason the HPS, the adjuster and the PLL stand still while a write only prepares the command port. A pixel clock is set only when the
  last one has drained: the calls are frames apart, or a boot apart.
- `modes`: the tables of `main.c`, complete. The button is used once, because nothing that is computed depends on the mode before;
  the system then rests, so deadlock is not checked.

### Fairness

- `Sampler`: the CPU executes (weak fairness of the handlers, strong fairness of main, because edges are a frame
  apart and cannot starve it); level 2 keeps coming from the CRTC; the oscillator ticks.
- `Irq`: the clock runs; the firmware drops its mask again and again (`enable_interrupts`, return to main), and an interrupt
  presented each time is taken. That needs strong fairness, as the mask also rises again and again.
- `Blitter`, `Crtc`: the clocks run and the firmware finishes its writes.
- `Hdmi`: the CPU and the clocks go on, and the pixel clock is set again (`Sys`). Strong fairness says that, in the end, the FIFO's synchroniser shows a word, a core is through with its
  writing, a PLL locks, and the adjuster has a turn: its pulses are counted from the frames of the scaler. Nothing is assumed of the HPS, of the
  menu, or of the frames of the HDMI output, as the adjuster's start does for a `cfg_got` that waits.
- `VideoMode`: the CPU runs.

## Proofs

TLAPS proves these for every value of the constants, from the named assumptions in the modules. Most say only
that the constants are of the right kind. Those that say more are evaluated by TLC in the runs:

- `ClockAssumption` (`VideoMode`): the clocks of the tables are positive numbers in the range `Float` covers.
- `MonitorAssumption` (`VideoMode`): the modes of the tables have 160 to 2800 by 200 to 3600 pixels and at most 100 Hz.
- `StatsAssumption`: the sum of a full ring fits `uint32_t`. `TextAssumption` (`Stats`): a line reads as the number printed to it, for each
  number of ticks up to the longest latency. It is about text only; the run evaluates it for all of them, at its clock.
- `GfxAssumption`: more than two contexts, a status of at most 11 lines, bars of at most 14 by 8 tiles (the code has 8, 4, and 11 by 4).

One assumption is part of a model, not a constant. The PLL of the pixel clock may lose its lock for any reason at any time, but for the few
clocks in which a mode is on its way to it; then only a reconfiguration takes the lock (`Lock` of `PllFifo`). The reader asks for the next word a clock after it
took one and does not look whether the core took it, so a lock lost for another reason in that clock would cost a parameter.

- **SamplerProofs.** `IInv` is inductive: while main is between finding a capture in place and using it
  (`cmp_sensor`, `judge`, `record`), the sequence numbers are equal and no handler of that level is on the stack, so none
  can rewrite it; a handler only starts if the numbers differ. `Gap` relates sequence numbers to sample numbers
  up to a full turn, and the times on the stack are not before `arm`. From it follow `UnlockedReads`, `Genuine`
  and `Missing`. `TypeCorrect` is separate. `Dark` rests on `DarkInv`: `ST_WAIT_CLEAR` counts from the moment the pattern went
  dark, and a 32-bit difference is at most the real time, whatever has wrapped.
- **LatencyProofs**, the clock. `AtomicRead`: only the top frame can be reading, with the mask at 7; what it has sampled, latched and
  read so far dates from after its call. It assumes `Torn = FALSE`.
- **MeasureProofs**, the interrupt controller. `AckRight`, `Inversion` from `IInv`: what is presented is flagged, and a line that was passed over is
  next. `Implements`: every step of `Irq` is a step of `IrqSpec` or a stutter.
- **LatencyProofs**, the pages. `AlwaysWhole`: the page on display is whole unless a mode was just applied, because the loop draws on the other one. `AlwaysMeasured`:
  while the loop stays in `MODE_SAMPLING` the page drawn last has the pattern, and from the second iteration so has the page on display (`SettledInv`); a flash
  that nothing disturbed began after that, so it shows at once and stays (`FlashInv`).
- **MeasureProofs**, the statistics. `AlwaysExact` and `AlwaysOrdered`. `StatsInv` ties the ring to the history: each of the last samples is at its number
  modulo the size (`Holds`). So the part in use has the values of the recent samples, each once, by a bijection; the loop of `update_sample_status` and the sum of the
  property are folds over the two, and equal. What a fold over a set computes is shown by induction: the set of numbers for which a statement
  holds has 0 and all successors, which the library's well-foundedness of the naturals turns into all numbers (`Inductive`). A mean lies between
  the least and the greatest, and division by the clock keeps the order.
- **BlitterProofs.** `AlwaysInOrder` and `AlwaysForward`. `IInv` says how far the current operation is: after its n-th write the registers
  hold the first n values (`Loaded`). While the fill runs, the counters point at one word of the rectangle, all words
  before it (`Filled`), but perhaps the one in the output register, are in the memory, and the rest still shows the operations
  before. The CPU waits with the first write of the next operation (`Before`), so a fill never meets a newer drawing.
- **GfxProofs.** `NeverTooDeep`, `AlwaysFresh`, `NeverStale`, `AlwaysOnScreen` and `NeverOverlaps`. `Draft(o, d, ...)` says what drawing from `o` has
  changed so far: the current context and the things on one page, nothing else. Every function of `gfx.c` has a lemma that extends a draft,
  `WindowDone` says that closing a window gives back the context below it, and so each screen is an explicit set of rectangles (`Sampled`,
  `MissingPicture`, `MenuPicture`). Whether those are on the screen and apart (`Tidy`) is arithmetic, for both screens and positions. The
  invariant `Sound` is about the state between iterations; `ApplyIs` follows the mode change in the middle of the menu, where the flip resets
  the stack with a window open and the closing call leads back to context 0.
- **CrtcProofs.** `AlwaysExact`. `IInv` gives the registers written so far and the sums that have arrived (`Written`). For a
  frame that is being measured, the clocks and the visible pixels counted are functions of `hcnt`, `vcnt` and `cencnt` (`Measured`), so
  at the next fall of vblank they are the frame's. Before the first one, the clocks gone and those left (`Left`, which each clock lowers by
  one, also from counters beyond their end) are together at most a frame's.
- **HdmiProofs.** `NothingLost`: `IInv` says that what is in the FIFO, under way to it and at the reader is a run of
  successive entries of one mode that ends where the CPU is, that the core's registers hold all entries before it, and that a word
  read twice is the one just taken; so the last entry finds all others in place. When the core has left its idle state all entries
  are through, and at most the second copy of the start is still at the reader (`Ended`). A reset leaves a shorter run, and
  the next mode begins with its first entry. `PixelClockWhole`: every step of `Hdmi` is one of `PllFifo` or leaves it alone.
  `ShownStays` and `HdmiClockWhole` rest on `VioInv`. The writes that `hdmi_set_mode` has still to make are the rest of its program
  (`Program`), whose words are found by their place for any number of fields and settings (`Commands`), and the number made so far
  says where the command port is (`PlaceAt`), which setting is half written (`CustomAt`) and, unless something came in between, which registers
  hold the mode, the adjuster's copy included (`Found`). The words of the HPS since its last complete mode are in the registers too, unless the
  override keeps them out (`HpsInv`). So wherever a start can come from, a frame, the HPS or the adjuster, timing, settings and the adjuster's
  M and K are of one mode (`CoherentInv`, `Settled`): what was written since the last start is of that mode, and so is the rest, or all was
  written (`Held`). The steps of frames, the PLL and the adjuster change nothing of the port and keep one mode one mode
  (`OtherSide`). The mode that is named is held by the override (`ShownInv`).
- **ConfigProofs**, the menu. `AlwaysRecovers`, `AlwaysStays`, `AlwaysOpensOnCurrent` and `AlwaysActsOnce`, for all tables of resolutions and rates. `IInv` ties the number of items
  of the last frame, against which the highlight is clamped, to the options, and the options to the tables.
- **ConfigProofs**, the modes. `ProgrammedClose` from an invariant of the loop: at `"program"` the VCO is at `Fout * c` up to the fraction dropped, and
  `c` was raised until that is 400 MHz. `CountersExact`: `getPLLdiv` packs its counts of 8 bits with plain shifts and ors, and for clocks from 3 MHz to 1 GHz
  the loop ends with counters that fit.
  `TimingsFit`: for every mode `MonitorAssumption` allows, not only those of the menu, each field that `calculate_cvt` computes is positive and fits
  its register, from bounds on each quotient in turn.

Only model-checked:

- liveness (`VerdictReached`, `LoopTurns`, `Served`, `AllDrawn`, `FramesGoOn`, `Recovers`, `AllStarted`, `HdmiStarts`, `SearchEnds`), which is
  beyond the prover;
- `ShownIsReal`: that the text of a mode is what both outputs produce is a fact about the menu's own table, which the run exhausts, and
  about printing, which is recursive.
- What `Printf` prints (`TextAssumption` above): recursive definitions are out of the prover's reach.

## Findings and limits of what holds

- **A sample that overlaps a menu visit is recorded** (`screen_menu`, code bug, `main.c:389`). The flash is a palette write that shows
  at once, the bars are on a page drawn an iteration earlier, and a change of mode does not reset the state machine. A flash
  in the first iteration after the menu or the no-sensor screen counts from a frame without the pattern, and a short
  visit in `ST_WAIT_SAMPLE` is counted into the latency.
- **Counter wraps.** `GenuineSample` and `MissingUnseen` have the premise `NoWrap`. Without it they fail: `main.c:410` compares ticks
  with `>=`, so a sample in flight when the counter wraps (every 429 s) is called missing; and after 65536 flashes without an
  answer an old `sensor_seq` is equal again (`main.c:407`).
- **Unsynchronised sampling.** `ticks2` samples a binary counter of another clock (`system.sv:173`). With `Torn = TRUE` TLC finds a reading
  that the counter never had; `ReadIsInstant` holds for `Torn = FALSE`.
- **Dead restart.** `jtframe_frac_cen.v:43` says "something went wrong: restart", but the assignment that follows overrides
  it. The counter recovers all the same (`Recovers`), with an enable in every clock meanwhile.

- **Reset and the HDMI mode** (`hdmi_reset`, the code and the documentation differ). `Readme.md:20` says "On startup or after a reset, the core uses whatever video mode and
  `vsync_adjust` settings you have configured in your MiSTer INI file", shown as "MiSTer Default", and `Readme.md:28` recommends the reset for a mode the display does not
  support. The core's reset (`MiSTerLaggy.sv:325`) does not clear `vio_override` (`sys_top.v:380`): the screen says "MiSTer Default", and the applied HDMI mode stays,
  out of reach of the HPS. Only the framework's reset returns the registers to the HPS.
- **Between the settings of the HDMI clock.** Between `SET_CFG 0` and `SET_CFG 1` of `hdmi_set_mode`, or in the HPS's own command, the settings arrive one by one, each a write
  of one clock that nobody repeats. A word of buttons and switches (`sys_top.v:414-417`) starts the PLL with some of them and the rest is
  dropped (`sys_top.v:1131`); the adjuster, which low latency switches on before the settings come, may start it too, or write back a multiplier made of
  both modes (`pll_hdmi_adj.vhd:303-425`); a core that writes or locks does not take a setting
  (`pll_cfg_hdmi.v:1151`); a reset leaves the rest out. `HdmiStartHasAll` and `HdmiStarts` except a mode to which this happened (`hit`); without the exception TLC finds
  a start with parts of two modes. A start that comes while the core is busy is lost as well (`pll_cfg_hdmi.v:292, 323`), and the adjuster's next one makes up for it, which is part of `HdmiStarts`.
- **Width.** 1366x768 is set with 1364 pixels, as `calculate_cvt` rounds to 4; `ShownIsReal` allows for it.

## Not modelled

- The tilemap's scan-out (`rtl/tilemap.sv`): a pipeline without control; `Screen` takes what a page holds as what a frame shows.
- Sync outputs of the CRTC, which follow from the sums and decide nothing; unused outputs of `jtframe_frac_cen`.
- Which frequency the adjuster chooses and how it measures it, and `cfg_done`, which gates the measurement; how the reconfiguration core passes
  parameters on to the PLL, its other modes (polling, MIF, phase shifts), which nobody uses, and the PLL itself.
- `new_vmode`, `HDMI_PR` and `vrr_mode`: the first only notifies the HPS, the others are written by the HPS alone.
- `gfx_sameline` has no caller; `rand32` only picks a picture; the debug code is compiled out; the default handlers return or stop.
- Of `printf`, what no format of the firmware reaches: most of the file (floating point, other bases, precision, `%n`).
- The vector table, the linker script, `pll.v`, the memories and `dcfifo` are data or generated cells, fx68k is an absent submodule;
  those that act are external where they are used. The rest of `sys/` is the platform's framework.
- The order in which a compiler emits the plain stores around a fill (`gfx.c:142`) is not visible in the source; `Blitter` takes program order.
- `roms/`, `assets/`, `hardware/` and `releases/` are data.
