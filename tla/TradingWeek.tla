----------------------------- MODULE TradingWeek -----------------------------
(***************************************************************************)
(* The competition week as worker.ts lives it: the week ledger in memory   *)
(* and in weekLedger.json, the main loop that decides on a budget computed *)
(* when its cycle began and fills later, the watch loop that records exits *)
(* in between, the clock that passes midnight and the ends of the window   *)
(* under both, crashes, restarts and fills that were never recorded.  How  *)
(* one trade is signed, saved and reconciled is TradeLifecycle's subject;  *)
(* here a trade is filled, refused or lost.                                *)
(***************************************************************************)
EXTENDS WeekDoctrine

CONSTANTS
  Returns,      \* the scored returns of the week, in percent
  Horizon,      \* bound: the last instant
  MaxTrades,    \* bound: trades broadcast
  MaxCrashes    \* bound: crashes

ASSUME TradingWeekAssumption ==
  /\ Returns \subseteq Int /\ 0 \in Returns
  /\ Horizon \in Nat /\ MaxTrades \in Nat /\ MaxCrashes \in Nat

VARIABLES
  now,
  up, review,     \* the worker runs; manual-review.json exists
  place,          \* main loop: "sleep", "evaluate" (budget taken) or "sign"
  budget,         \* what the cycle's ctx holds: [press, active, tradesToday, open]
  order,          \* the order the executor holds: [kind, press]
  marker,         \* pending.json: "none", "filled" or "unfilled" by what became of it
  ledger, disk,   \* WeekLedger in memory and in its file
  reserve,        \* scout-reserve.json, "none" before it is written
  open, weekReturn,
  trades, crashes,   \* what the bounds count
  \* What happened, whatever the ledger says of it:
  filled,         \* entries and scouts on chain, by UTC day, inside the window
  lost,           \* of these, the ones never recorded
  pressFills, pressLost,  \* entries of a PRESS budget inside the window
  parked, strayed,  \* scout stakes in USDC, scouts whose new side was not recorded
  cycled,         \* a cycle ended in this unit of time, with nothing filled
  excused         \* days whose closing hours gave no chance of a safe scout

worker == <<up, review, place, budget, order, marker>>
books == <<ledger, disk, open, weekReturn>>
seen == <<filled, lost, pressFills, pressLost, reserve, parked, strayed>>
count == <<trades, crashes>>
vars == <<now, worker, books, count, seen, cycled, excused>>

Days == 0..DayOf(Horizon)
NoOrder == [kind |-> "none", press |-> FALSE]
NoBudget == [press |-> FALSE, active |-> FALSE, tradesToday |-> 0, open |-> 0]
Closing == UnitsLeftInDay(now) <= Config.microScoutDeadlineHours

\* A ledger of this week, one of another week, and one with a rehearsal leg.
OnDisk == {NewLedger,
           [week |-> WindowStart + 1, legs |-> <<>>, pressTradeUsed |-> TRUE],
           [week |-> WindowStart, pressTradeUsed |-> TRUE,
            legs |-> <<[at |-> WindowStart - 1, kind |-> "entry"]>>]}

Init ==
  /\ now = WindowStart - 1
  /\ up = FALSE /\ review = FALSE /\ place = "sleep" /\ budget = NoBudget /\ order = NoOrder
  /\ marker = "none"
  /\ disk \in OnDisk /\ ledger = NewLedger /\ open = 0 /\ weekReturn = 0
  /\ trades = 0 /\ crashes = 0
  /\ filled = [d \in Days |-> 0] /\ lost = [d \in Days |-> 0]
  /\ pressFills = 0 /\ pressLost = 0
  /\ reserve = "none" /\ parked = 0 /\ strayed = 0
  /\ cycled = FALSE /\ excused = {}
-----------------------------------------------------------------------------
\* A plausible mistake: the file is not written.
KeptInMemory(l) == ledger' = l /\ UNCHANGED disk

\* The ledger and its file, saveWeekLedger after every change.
Saved(l) == ledger' = l /\ disk' = l

\* Where the scouts' stake is, by the file; the worker's own variable never
\* differs from what it would read there.
LoadScoutHeldStable == IF reserve = "USDC" THEN "USDC" ELSE "USDT"

\* loadWeekLedger: a ledger of another week is started afresh.
Loaded == IF disk.week = WindowStart THEN disk ELSE NewLedger

\* main() up to its loop: nothing pending that recovery cannot settle, then
\* the books are read.  A marker without a hash, or of an unrecorded fill, halts.
Start ==
  /\ ~up /\ ~review /\ marker # "filled"
  /\ up' = TRUE /\ marker' = "none"
  /\ Saved(Sanitize(Loaded))
  /\ UNCHANGED <<now, review, place, budget, order, open, weekReturn, count, seen,
                 cycled, excused>>

StartHalts ==
  /\ ~up /\ ~review /\ marker # "none"
  /\ review' = TRUE
  /\ UNCHANGED <<now, up, place, budget, order, marker, books, count, seen, cycled, excused>>

\* The operator settles the pending trade by hand and removes the flag.
OperatorResolves ==
  /\ ~up /\ review
  /\ review' = FALSE /\ marker' = "none"
  /\ UNCHANGED <<now, up, place, budget, order, books, count, seen, cycled, excused>>

Idle == place' = "sleep" /\ budget' = NoBudget /\ order' = NoOrder

\* The process of a main loop that met the flag and ended, or of a crash.
\* Nothing else holds the order: whether it was broadcast is decided here.
Crash(broadcast) ==
  /\ up /\ crashes < MaxCrashes
  /\ broadcast => place = "sign"
  /\ up' = FALSE /\ Idle
  /\ crashes' = crashes + 1
  /\ UNCHANGED <<now, review, books, cycled>>
-----------------------------------------------------------------------------
\* The worker's context: the week budget, whether the window is open and the
\* entries of the day, as they are when the cycle begins.
BeginCycle ==
  /\ up /\ ~review /\ place = "sleep"
  /\ budget' = [press |-> EvaluateWeekBudget(ledger, weekReturn, now).pressTrade,
                active |-> InWindow(now),
                tradesToday |-> EntriesOnUtcDay(ledger, now), open |-> open]
  /\ Saved(ledger)
  /\ place' = "evaluate"
  /\ UNCHANGED <<now, up, review, order, marker, open, weekReturn, count, seen, cycled, excused>>

Belated == excused' = IF Closing THEN excused \cup {DayOf(now)} ELSE excused

Rest == Idle /\ cycled' = TRUE

\* A candidate the pipeline approves: whatever its other gates say, the daily
\* cap and the position limit are those of the context.
Approvable == /\ budget.tradesToday < Config.maxTradesPerDay
              /\ budget.open < Config.maxConcurrentPositions

Deciding(plan, haveEdge, cash) ==
  /\ up /\ place = "evaluate"
  /\ haveEdge => Approvable
  /\ DecideTradePlan(ledger, now, haveEdge, open = 0 /\ cash) = plan

Sign(kind, press) ==
  /\ place' = "sign" /\ order' = [kind |-> kind, press |-> press]
  /\ UNCHANGED <<now, up, review, budget, marker, books, count, seen, cycled, excused>>

DecideAttack ==
  /\ \E cash \in BOOLEAN : Deciding("attack", TRUE, cash)
  /\ Sign("entry", budget.press)

DecideScout ==    \* only when the cycle began in the window, and under its daily cap
  /\ \E edge \in BOOLEAN : Deciding("micro_scout", edge, TRUE)
  /\ budget.active /\ budget.tradesToday < Config.maxTradesPerDay
  /\ Sign("scout", FALSE)

\* The scout candidate itself failed a gate (the cap, a shadow fill, its route).
ScoutRejected ==
  /\ \E edge \in BOOLEAN : Deciding("micro_scout", edge, TRUE)
  /\ budget.active
  /\ Belated /\ Rest
  /\ UNCHANGED <<now, up, review, marker, books, count, seen>>

NoScoutOutside ==
  /\ \E edge \in BOOLEAN : Deciding("micro_scout", edge, TRUE)
  /\ ~budget.active
  /\ Belated /\ Rest
  /\ UNCHANGED <<now, up, review, marker, books, count, seen>>

DecideHold ==
  /\ \E edge, cash \in BOOLEAN :
       /\ Deciding("hold", edge, cash)
       /\ IF open > 0 \/ ~cash THEN Belated ELSE UNCHANGED excused
  /\ Rest
  /\ UNCHANGED <<now, up, review, marker, books, count, seen>>
-----------------------------------------------------------------------------
Counted(recorded) ==
  LET press == order.press /\ InWindow(now)
      Add(days) == IF InWindow(now) THEN [days EXCEPT ![DayOf(now)] = @ + 1] ELSE days
  IN /\ filled' = Add(filled)
     /\ pressFills' = pressFills + (IF press THEN 1 ELSE 0)
     /\ lost' = IF recorded THEN lost ELSE Add(lost)
     /\ pressLost' = pressLost + (IF press /\ ~recorded THEN 1 ELSE 0)

\* A plausible mistake: every fill turns the reserve.
TurnsOnEveryFill(recorded) ==
  IF recorded
  THEN /\ reserve' = IF LoadScoutHeldStable = "USDT" THEN "USDC" ELSE "USDT"
       /\ UNCHANGED strayed
  ELSE /\ strayed' = strayed + (IF order.kind = "scout" THEN 1 ELSE 0)
       /\ UNCHANGED reserve

\* Every scout goes the other way than the last recorded one.
ReserveTurns(recorded) ==
  IF order.kind = "scout" /\ recorded
  THEN /\ reserve' = IF LoadScoutHeldStable = "USDT" THEN "USDC" ELSE "USDT"
       /\ UNCHANGED strayed
  ELSE /\ strayed' = strayed + (IF order.kind = "scout" THEN 1 ELSE 0)
       /\ UNCHANGED reserve

\* What the swap does on chain: a scout out of USDC needs a stake there.
Swapped ==
  IF order.kind # "scout" THEN UNCHANGED parked
  ELSE /\ LoadScoutHeldStable = "USDC" => parked > 0
       /\ parked' = IF LoadScoutHeldStable = "USDT" THEN parked + 1 ELSE parked - 1

TradesLeft == trades < MaxTrades /\ trades' = trades + 1

\* The fold of an entry or a scout into the ledger.
Folded(l, kind, press) ==
  IF ~InWindow(now) THEN l
  ELSE IF press THEN ConsumePress(RecordLeg(l, kind, now)) ELSE RecordLeg(l, kind, now)

Fill ==
  /\ up /\ place = "sign" /\ TradesLeft
  /\ Saved(Folded(ledger, order.kind, order.press))
  /\ open' = IF order.kind = "entry" THEN open + 1 ELSE open
  /\ Counted(TRUE) /\ Swapped /\ ReserveTurns(TRUE) /\ Idle
  /\ UNCHANGED <<now, up, review, marker, weekReturn, crashes, cycled, excused>>

Refused ==    \* by the policy, or the CLI failed before it broadcast
  /\ up /\ place = "sign"
  /\ Belated /\ Rest
  /\ UNCHANGED <<now, up, review, marker, books, count, seen>>

\* Broadcast and filled, and the worker was told nothing (the call threw) or
\* not how much (it arms the flag): the pending marker stays.
LostFill ==
  /\ up /\ place = "sign" /\ TradesLeft
  /\ review' \in {review, TRUE} /\ marker' = "filled"
  /\ Counted(FALSE) /\ Swapped /\ ReserveTurns(FALSE) /\ Belated /\ Rest
  /\ UNCHANGED <<now, up, books, crashes>>

CrashSafe ==
  /\ Crash(FALSE)
  /\ marker' = IF place = "sign" /\ marker = "none" THEN "unfilled" ELSE marker
  /\ UNCHANGED <<trades, seen, excused>>

CrashAfterBroadcast ==
  /\ Crash(TRUE) /\ TradesLeft
  /\ marker' = "filled"
  /\ Counted(FALSE) /\ Swapped /\ Belated
  /\ \E turned \in BOOLEAN : ReserveTurns(turned)   \* its file is written first
-----------------------------------------------------------------------------
\* The watch loop closes a position while the main loop awaits; a pass that looked
\* at the review flag before it was armed goes on.
Exit ==
  /\ up /\ open > 0
  /\ open' = open - 1 /\ weekReturn' \in Returns
  /\ Saved(IF InWindow(now) THEN RecordLeg(ledger, "exit", now) ELSE ledger)
  /\ UNCHANGED <<now, up, review, place, budget, order, marker, count, seen, cycled, excused>>

\* The main loop that meets the flag ends; only a restart brings it back.
Advance ==
  /\ now < Horizon
  /\ now' = now + 1 /\ cycled' = FALSE
  /\ excused' = IF Closing /\ ~cycled THEN excused \cup {DayOf(now)} ELSE excused
  /\ UNCHANGED <<worker, books, count, seen>>

Next ==
  \/ Start \/ StartHalts \/ OperatorResolves
  \/ BeginCycle \/ DecideAttack \/ DecideScout \/ ScoutRejected \/ NoScoutOutside \/ DecideHold
  \/ Fill \/ Refused \/ LostFill \/ CrashSafe \/ CrashAfterBroadcast
  \/ Exit \/ Advance

Spec == Init /\ [][Next]_vars
-----------------------------------------------------------------------------
\* One PRESS trade in a week, whatever the window's ends, restarts and the
\* crashes between a fill and its record do, but for the PRESS fills that were
\* never recorded: the flag of weekLedger.ts is read when the cycle begins and
\* set when the fill is folded, a restart sanitizes it.
PressOnce == pressFills <= 1 + pressLost

\* No UTC day of the window has more entries and scouts on chain than the
\* daily cap, but for the fills never recorded on it: the cap is checked on a
\* count taken before midnight as well as after it, and the count is restored.
DailyCap == \A d \in Days : filled[d] <= Config.maxTradesPerDay + lost[d]

\* A UTC day of the window that is over has its minimum of legs in the ledger,
\* whatever the minimum is, unless a unit of its closing hours passed in which
\* no cycle ended by itself, or a cycle found a position open or no cash, began
\* before the window, or saw its order refused, rejected or lost.
DailyMinimum ==
  \A d \in Days :
    (/\ \A at \in (d * UnitsPerDay)..((d + 1) * UnitsPerDay - 1) : InWindow(at)
     /\ (d + 1) * UnitsPerDay <= now)
      => LegsOf(disk, d, Kinds) >= Config.minTradesPerDay \/ d \in excused

\* "The scout alternates direction so the ~$5 it moves never strands on one
\* side and starves the USDT" (worker.ts:427-428): the file tells on which side
\* of the pair the stake is, across entries, restarts and the ends of the
\* window, but for as many stakes as scouts were lost before it was written.
ReserveIsWhereItSays ==
  parked - (IF LoadScoutHeldStable = "USDC" THEN 1 ELSE 0) \in -strayed..strayed
=============================================================================
