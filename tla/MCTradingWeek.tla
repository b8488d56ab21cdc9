---------------------------- MODULE MCTradingWeek ----------------------------
(* Two competition days of three units each, with a unit before and after.   *)
EXTENDS TradingWeek, MCRisk

MCConfig ==
  [DefaultConfig EXCEPT !.maxTradesPerDay = 2, !.microScoutDeadlineHours = 1,
                        !.weeklyLegBudget = 7, !.pressStartDay = 2]
=============================================================================
