----------------------------- MODULE RiskState -----------------------------
(***************************************************************************)
(* What the main loop knows of its risk: the wallet valued position by     *)
(* position while the watch loop sells (currentWalletValueUsd), the peaks  *)
(* of the window and of the UTC day kept in files (core/windowDrawdown.ts, *)
(* core/dailyDrawdown.ts), and the regime with its hysteresis              *)
(* (core/regimeAnalyst.ts).  A position is one unit of its token.          *)
(***************************************************************************)
EXTENDS RiskConfig, FiniteSetsExt, SequencesExt

CONSTANTS
  Token, PriceLevels,
  Signals,          \* what the feeds may say of the market
  RegimeCfg,        \* thresholds of evaluateRegime
  StartDay,         \* the UTC day the competition window starts
  MaxDay,           \* bound on the clock
  MaxCash           \* bound on what trading may earn

ASSUME RiskStateAssumption ==
  /\ IsFiniteSet(Token) /\ PriceLevels \subseteq Nat \ {0}
  /\ StartDay \in Nat /\ MaxDay \in Nat /\ MaxCash \in Nat
  /\ RegimeCfg.hysteresisChecks \in 1..10

VARIABLES
  price,            \* the market
  cash, open,       \* walletCashUsd; openPositions, in the order of the array
  place,            \* main loop: "sleep", "valuing", "valued"
  sum, next,        \* the total of a valuation; the array iterator of a loop
  value,            \* walletValueUsd of the cycle
  day,
  windowAnchor, dailyAnchor,   \* the anchor files: {} or {[start/day, peak]}
  windowDd, dailyDd,
  regime,           \* RegimeState, in memory and, after every read, in its file
  \* History:
  worth,            \* what the book was worth when the last valuation began
  windowTop,        \* the highest value measured since the window opened
  dayTop,           \* and on the current UTC day
  reads             \* the last raw regimes, hysteresisChecks of them at most

book == <<price, cash, open>>
pass == <<place, sum, next, value>>
anchors == <<windowAnchor, dailyAnchor, windowDd, dailyDd>>
history == <<worth, windowTop, dayTop, reads>>
vars == <<book, pass, day, anchors, regime, history>>

Worth(c, positions) == c + FoldSeq(LAMBDA t, total : price[t] + total, 0, positions)
Raise(a, b) == IF a >= b THEN a ELSE b
Drawdown(peak, v) == IF peak > 0 THEN Raise(0, (100 * (peak - v)) \div peak) ELSE 0
-----------------------------------------------------------------------------
(* core/regimeAnalyst.ts *)

NoRegime == [current |-> "NEUTRAL", pendingRaw |-> "NEUTRAL", pendingCount |-> 0]

Vote(bad, good, weight) == IF bad THEN -weight ELSE IF good THEN weight ELSE 0

RawRegime(s) ==
  LET c == RegimeCfg
      bearish == /\ s.change24h <= c.redBenchmarkPct /\ s.btcChange24h < 0
                 /\ s.shortChange < 0 /\ ~s.aboveMean
      bullish == /\ s.change24h >= c.greenBenchmarkPct /\ s.btcChange24h > 0
                 /\ s.shortChange > 0 /\ s.aboveMean
      volatile == s.volatilityPct >= c.highVolatilityPct
      score == Vote(bearish, bullish, 2)
               + Vote(s.fearGreed <= c.redFearGreed, s.fearGreed >= c.greenFearGreed, 1)
               + Vote(s.breadthPct <= c.redBreadthPct, s.breadthPct >= c.greenBreadthPct, 1)
               + Vote(volatile /\ s.shortChange < 0, volatile /\ s.shortChange > 0, 1)
  IN IF score <= -3 THEN "RED" ELSE IF score >= 3 THEN "GREEN" ELSE "NEUTRAL"

\* A plausible mistake: disagreeing reads add up whatever they say.
AnyDisagreement(prev, raw) ==
  LET count == prev.pendingCount + 1
  IN IF raw = prev.current
     THEN [current |-> raw, pendingRaw |-> raw, pendingCount |-> 0]
     ELSE IF count >= RegimeCfg.hysteresisChecks
     THEN [current |-> raw, pendingRaw |-> raw, pendingCount |-> 0]
     ELSE [current |-> prev.current, pendingRaw |-> raw, pendingCount |-> count]

EvaluateRegime(prev, raw) ==
  LET count == IF raw = prev.pendingRaw THEN prev.pendingCount + 1 ELSE 1
  IN IF raw = prev.current
     THEN [current |-> raw, pendingRaw |-> raw, pendingCount |-> 0]
     ELSE IF count >= RegimeCfg.hysteresisChecks
     THEN [current |-> raw, pendingRaw |-> raw, pendingCount |-> 0]
     ELSE [current |-> prev.current, pendingRaw |-> raw, pendingCount |-> count]
-----------------------------------------------------------------------------
(* core/windowDrawdown.ts and core/dailyDrawdown.ts: an anchor that is     *)
(* missing, or of another period, starts again at the value at hand.       *)

UpdateCarried(anchor, period, v) ==    \* A plausible mistake: the old peak is kept
  [period |-> period, peak |-> Raise(v, Max({a.peak : a \in anchor} \cup {0}))]

Update(anchor, period, v) ==
  [period |-> period,
   peak |-> Max({a.peak : a \in {b \in anchor : b.period = period}} \cup {v})]

Started == day >= StartDay

WindowAnchor(v) ==
  IF Started THEN {Update(windowAnchor, StartDay, v)} ELSE windowAnchor
-----------------------------------------------------------------------------
Init ==
  /\ price \in [Token -> PriceLevels]
  /\ cash = Config.startingCapital /\ open = <<>>
  /\ place = "sleep" /\ sum = 0 /\ next = 0 /\ value = 0
  /\ day = 0
  /\ windowAnchor \in {{}, {[period |-> StartDay + 7, peak |-> 2 * Config.startingCapital]}}
  /\ dailyAnchor = {} /\ windowDd = 0 /\ dailyDd = 0
  /\ regime = NoRegime
  /\ worth = 0 /\ windowTop = 0 /\ dayTop = 0 /\ reads = <<>>

\* Prices move between two valuations (a bound: not within one).
MarketMoves ==
  /\ place = "sleep"
  /\ \E t \in Token, l \in PriceLevels : price' = [price EXCEPT ![t] = l]
  /\ UNCHANGED <<cash, open, pass, day, anchors, regime, history>>

\* An entry of the main loop, its last step before it sleeps.
Enter ==
  /\ place = "sleep" /\ Len(open) < Config.maxConcurrentPositions
  /\ \E t \in Token \ ToSet(open) :
       /\ cash >= price[t]
       /\ open' = Append(open, t) /\ cash' = cash - price[t]
  /\ UNCHANGED <<price, pass, day, anchors, regime, history>>

\* The watch loop sells: the cash, then the splice, in one turn.
WatchExit ==
  \E i \in {k \in DOMAIN open : cash + price[open[k]] <= MaxCash} :
    /\ cash' = cash + price[open[i]] /\ open' = RemoveAt(open, i)
    /\ UNCHANGED <<price, pass, day, anchors, regime, history>>

NewDay ==
  /\ day < MaxDay
  /\ day' = day + 1 /\ dayTop' = 0
  /\ UNCHANGED <<book, pass, anchors, regime, worth, windowTop, reads>>

\* A crash loses what is in memory; the anchors, the book and the regime are in
\* their files.
Restart ==
  /\ place # "sleep"
  /\ place' = "sleep" /\ sum' = 0 /\ next' = 0 /\ value' = 0
  /\ windowDd' = 0 /\ dailyDd' = 0 /\ worth' = 0
  /\ UNCHANGED <<book, day, windowAnchor, dailyAnchor, regime, windowTop, dayTop, reads>>
-----------------------------------------------------------------------------
\* A plausible mistake: the cash is added when the positions are.
CashAfter(loop) == IF loop = "after" THEN cash ELSE 0

CashRead(loop) == IF loop = "before" THEN cash ELSE 0

Total == sum + CashRead("after")

\* currentWalletValueUsd: the cash now, then each position the iterator meets,
\* with an await for each of their prices.
BeginValuation ==
  /\ place = "sleep"
  /\ place' = "valuing" /\ sum' = CashRead("before") /\ next' = 1 /\ worth' = Worth(cash, open)
  /\ UNCHANGED <<book, value, day, anchors, regime, windowTop, dayTop, reads>>

\* The quoter's answer for a position: what its tokens would sell for.
PriceOf(t) == price[t]

ValueNext ==
  /\ place = "valuing" /\ next <= Len(open)
  /\ sum' = sum + PriceOf(open[next]) /\ next' = next + 1
  /\ UNCHANGED <<book, place, value, day, anchors, regime, history>>

\* The rest of the cycle up to the week state, without an await: both drawdowns
\* and both files.
Measure ==
  /\ place = "valuing" /\ next > Len(open)
  /\ place' = "valued" /\ value' = Total /\ sum' = 0 /\ next' = 0
  /\ windowAnchor' = WindowAnchor(Total)
  /\ windowDd' = Drawdown(Update(IF Started THEN windowAnchor ELSE {}, StartDay, Total).peak, Total)
  /\ dailyAnchor' = {Update(dailyAnchor, day, Total)}
  /\ dailyDd' = Drawdown(Update(dailyAnchor, day, Total).peak, Total)
  /\ windowTop' = IF Started THEN Raise(windowTop, Total) ELSE windowTop
  /\ dayTop' = Raise(dayTop, Total)
  /\ UNCHANGED <<book, day, regime, worth, reads>>

ReadRegime ==
  /\ place = "valued"
  /\ \E s \in Signals :
       /\ regime' = EvaluateRegime(regime, RawRegime(s))
       /\ reads' = LET all == Append(reads, RawRegime(s))
                       k == RegimeCfg.hysteresisChecks
                   IN IF Len(all) <= k THEN all ELSE Tail(all)
  /\ place' = "sleep" /\ value' = 0 /\ windowDd' = 0 /\ dailyDd' = 0 /\ worth' = 0
  /\ UNCHANGED <<book, sum, next, day, windowAnchor, dailyAnchor, windowTop, dayTop>>

Next == \/ MarketMoves \/ Enter \/ WatchExit \/ NewDay \/ Restart
        \/ BeginValuation \/ ValueNext \/ Measure \/ ReadRegime

Spec == Init /\ [][Next]_vars
-----------------------------------------------------------------------------
\* A wallet valued position by position while the watch loop sells is never
\* worth more than it was when the valuation began: an exit's proceeds are
\* not counted beside the position they came from.
ValueNeverOverstated == value <= worth

\* The peak a drawdown is taken from is the highest value measured in its own
\* period, across restarts, and neither last week's file, the rehearsal's values
\* nor yesterday's reach it.
PeaksAreOfTheirPeriod ==
  /\ windowTop > 0 => windowAnchor = {[period |-> StartDay, peak |-> windowTop]}
  /\ dayTop > 0 => dailyAnchor = {[period |-> day, peak |-> dayTop]}

\* The committed regime moves only to what the last hysteresisChecks reads all
\* said, one after the other, whatever was pending before a restart.
RegimeIsConfirmed ==
  [][regime'.current # regime.current =>
       /\ Len(reads') = RegimeCfg.hysteresisChecks
       /\ \A i \in DOMAIN reads' : reads'[i] = regime'.current]_vars
=============================================================================
