---------------------------- MODULE WeekDoctrine ----------------------------
(***************************************************************************)
(* The pure part of the week schedule: core/competitionWindow.ts,          *)
(* core/weekLedger.ts, core/weekBudget.ts and bnb-agent/scheduler.ts.      *)
(*                                                                         *)
(* An instant is a number of time units from some UTC midnight,            *)
(* UnitsPerDay of them to a UTC day (24 when the unit is the hour).  A     *)
(* leg is [at, kind]; a ledger is [week, legs, pressTradeUsed].  The peak  *)
(* and start values of the ledger feed only the dashboards and the         *)
(* drawdown shown there, and are left out.                                 *)
(***************************************************************************)
EXTENDS RiskConfig, FiniteSets, SequencesExt

CONSTANTS UnitsPerDay, WindowStart, WindowEnd

ASSUME WindowAssumption ==
  /\ UnitsPerDay \in Nat \ {0}
  /\ WindowStart \in Nat /\ WindowEnd \in Nat /\ WindowStart < WindowEnd

Kinds == {"entry", "exit", "scout"}
DayOf(at) == at \div UnitsPerDay
UnitsLeftInDay(at) == UnitsPerDay - (at % UnitsPerDay)
InWindow(at) == at \in WindowStart..WindowEnd
-----------------------------------------------------------------------------
(* core/weekLedger.ts *)

NewLedger == [week |-> WindowStart, legs |-> <<>>, pressTradeUsed |-> FALSE]

\* The leg and, of a PRESS fill, the flag; the callers ask InWindow first.
RecordLeg(ledger, kind, at) ==
  [ledger EXCEPT !.legs = Append(@, [at |-> at, kind |-> kind])]
ConsumePress(ledger) == [ledger EXCEPT !.pressTradeUsed = TRUE]

\* A plausible mistake: the last instant of the window is not part of it.
SanitizeHalfOpen(ledger) ==
  LET Kept(leg) == InWindow(leg.at) /\ leg.at # WindowEnd
      legs == SelectSeq(ledger.legs, Kept)
  IN IF legs = ledger.legs THEN ledger
     ELSE [ledger EXCEPT !.legs = legs, !.pressTradeUsed = FALSE]

\* ledger.legs.filter: the legs of the window, in their order.
LegsInWindow(legs) ==
  LET kept[n \in 0..Len(legs)] ==
        IF n = 0 THEN <<>>
        ELSE IF InWindow(legs[n].at) THEN Append(kept[n - 1], legs[n]) ELSE kept[n - 1]
  IN kept[Len(legs)]

Sanitize(ledger) ==
  LET legs == LegsInWindow(ledger.legs)
  IN IF legs = ledger.legs THEN ledger
     ELSE [ledger EXCEPT !.legs = legs, !.pressTradeUsed = FALSE]

LegsOf(ledger, day, kinds) ==
  Cardinality({i \in DOMAIN ledger.legs :
                 DayOf(ledger.legs[i].at) = day /\ ledger.legs[i].kind \in kinds})
LegsOnUtcDay(ledger, at) == LegsOf(ledger, DayOf(at), Kinds)
EntriesOnUtcDay(ledger, at) == LegsOf(ledger, DayOf(at), {"entry", "scout"})
-----------------------------------------------------------------------------
(* core/weekBudget.ts *)

WeekLengthDays ==     \* rounded, and a day at least
  LET days == (WindowEnd - WindowStart + UnitsPerDay \div 2) \div UnitsPerDay
  IN IF days < 1 THEN 1 ELSE days

\* The day of the week, 1 before it starts and the last one after it ends.
CompetitionDay(at) ==
  CASE at <= WindowStart -> 1
    [] at >= WindowEnd -> WeekLengthDays
    [] OTHER -> ((at - WindowStart) * WeekLengthDays) \div (WindowEnd - WindowStart) + 1

LegsScarce(ledger, at) ==
  LET used == Len(ledger.legs)
      remaining == IF used >= Config.weeklyLegBudget THEN 0 ELSE Config.weeklyLegBudget - used
  IN remaining <= (WeekLengthDays - CompetitionDay(at) + 1) * Config.minTradesPerDay

Flat(returnPct) == returnPct \in Config.flatBandLoPct..Config.flatBandHiPct

Budget(state, minimumScore, bonusBps) ==
  [state |-> state, minimumScore |-> minimumScore, netEdgeBonusBps |-> bonusBps,
   pressTrade |-> state = "PRESS", tightTrail |-> state = "DEFEND"]

EvaluateWeekBudget(ledger, returnPct, at) ==
  CASE returnPct > Config.defendTriggerPct ->
         Budget("DEFEND", Config.defendMinScore, Config.netEdgeDefendBonusBps)
    [] /\ returnPct <= Config.defendTriggerPct
       /\ CompetitionDay(at) >= Config.pressStartDay /\ Flat(returnPct)
       /\ ~ledger.pressTradeUsed /\ ~LegsScarce(ledger, at) ->
         Budget("PRESS", Config.pressMinScore, 0)
    [] OTHER -> Budget("HUNT", Config.huntMinScore, 0)
-----------------------------------------------------------------------------
(* bnb-agent/scheduler.ts, with the arguments of worker.ts *)

\* A plausible mistake: the deadline itself is not part of the closing hours.
DecideTradePlanLate(ledger, at, haveEdge, safeToScout) ==
  IF haveEdge /\ LegsOnUtcDay(ledger, at) < Config.maxTradesPerDay THEN "attack"
  ELSE IF /\ LegsOnUtcDay(ledger, at) < Config.minTradesPerDay
          /\ UnitsLeftInDay(at) < Config.microScoutDeadlineHours
          /\ safeToScout
       THEN "micro_scout"
  ELSE "hold"

DecideTradePlan(ledger, at, haveEdge, safeToScout) ==
  IF haveEdge /\ LegsOnUtcDay(ledger, at) < Config.maxTradesPerDay THEN "attack"
  ELSE IF /\ LegsOnUtcDay(ledger, at) < Config.minTradesPerDay
          /\ UnitsLeftInDay(at) <= Config.microScoutDeadlineHours
          /\ safeToScout
       THEN "micro_scout"
  ELSE "hold"
=============================================================================
