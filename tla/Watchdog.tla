------------------------------- MODULE Watchdog -------------------------------
(***************************************************************************)
(* core/watchdog.ts: the protective actions a reading of an open position  *)
(* and of the portfolio asks for.  Comparisons of numbers are taken by     *)
(* their outcome; the reasons and the survival flag, which no caller reads,*)
(* are left out.                                                           *)
(***************************************************************************)

(* in: breached, open, pending, danger (value at or below the threshold),  *)
(* derisk (soft drawdown, or two losses in a row), flipped, thinning,      *)
(* spiking.                                                                *)
Wobbles(in) == in.flipped \/ in.thinning \/ in.spiking

Asked(in) ==
  {a \in {"execute_stop_exit", "close_position", "switch_to_survival_mode",
          "attempt_revoke_approvals", "reduce_position", "pause_strategy",
          "cancel_pending_order"} :
     \/ a = "execute_stop_exit" /\ in.open /\ in.breached
     \/ a = "close_position" /\ in.open /\ in.danger
     \/ a = "switch_to_survival_mode" /\ (in.danger \/ in.derisk)
     \/ a = "attempt_revoke_approvals" /\ in.danger
     \/ a = "reduce_position" /\ in.open /\ (in.derisk \/ Wobbles(in))
     \/ a = "pause_strategy" /\ Wobbles(in)
     \/ a = "cancel_pending_order" /\ in.pending /\ ~in.open}

EvaluateWatchdog(in) == IF Asked(in) = {} THEN {"record_no_trade_reason"} ELSE Asked(in)
=============================================================================
