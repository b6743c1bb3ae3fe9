------------------------------ MODULE PllCore -------------------------------
(***************************************************************************)
(* The reconfiguration core of a PLL, as far as it decides which writes it *)
(* takes: altera_pll_reconfig_core.v for the pixel clock and its shortened *)
(* copy pll_cfg_hdmi.v for the HDMI clock (sys/pll_cfg).                   *)
(*                                                                         *)
(* Its state is "idle" (IDLE), "writing" (WAIT_ON_LOCK while               *)
(* dprio_write_done is low: it writes what was changed to the PLL) or      *)
(* "locking" (WAIT_ON_LOCK after that).  locked comes from the PLL;        *)
(* changed says that a parameter was written since the last start.         *)
(* mode_WR is the only mode that is used, and phase shifts are not.        *)
(***************************************************************************)

CoreStates == {"idle", "writing", "locking"}

\* slave_waitrequest: a write in a clock in which it is up has no effect.
WaitRequest(state, locked) == ~locked \/ state = "writing"

\* pll_start_valid: a start counts only in IDLE, and if there is something to change.
StartsHere(state, locked, changed) == state = "idle" /\ ~WaitRequest(state, locked) /\ changed

\* next_state, the time the writing takes being open.
NextStates(state, locked, start) ==
    CASE state = "idle" -> {IF start THEN "writing" ELSE "idle"}
      [] state = "writing" -> {"writing", "locking"}
      [] state = "locking" -> {IF locked THEN "idle" ELSE "locking"}
=============================================================================
