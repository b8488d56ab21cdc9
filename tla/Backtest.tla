------------------------------ MODULE Backtest ------------------------------
(***************************************************************************)
(* core/backtester.ts and the way the skill backtest                       *)
(* (backtest/run-skill-backtest.ts) feeds it: series of daily bars, a      *)
(* score per bar and family, one sleeve of capital per token and family.   *)
(*                                                                         *)
(* A bar is [day, price, atrBps, change, volume]; money is in cents and    *)
(* divisions round down.                                                   *)
(***************************************************************************)
EXTENDS RsContinuation, Lists, SequencesExt, FiniteSetsExt

CONSTANTS
  Sleeve,       \* BacktestConfig, from defaults.json, and its huntMinScore and prior
  WarmUp,       \* bars before the first signal
  SmaWindow     \* bars of the moving average of the momentum scorer

Smaller(a, b) == IF a <= b THEN a ELSE b
Larger(a, b) == IF a >= b THEN a ELSE b
-----------------------------------------------------------------------------
(* The loop of runBacktest, one bar at a time. *)

NoBook == [equity |-> Sleeve.startingCapital, position |-> {}, trades |-> <<>>, curve |-> <<>>,
           rejected |-> <<>>]

RoundTripBps(notional) ==
  (20000 * Sleeve.gasPerLeg) \div notional + 2 * (Sleeve.slippageBps + Sleeve.lpFeeBps)
  + Sleeve.safetyBufferBps + 2 * Sleeve.scoringSimCostBps

StopDistanceBps(bar) == (Sleeve.stopAtrTenths * bar.atrBps) \div 10

SizeOf(book, bar) ==
  Smaller((100 * Sleeve.perTradeRiskPct * book.equity) \div StopDistanceBps(bar),
          (Sleeve.maxPositionPct * book.equity) \div 100)

\* A size below a cent is 0 here; its gas alone is over any budget.
Incoherent(book, bar) ==
  SizeOf(book, bar) <= 0 \/ RoundTripBps(SizeOf(book, bar)) > Sleeve.frictionBudgetBps

Rejection(book, bar, move) ==
  CASE Incoherent(book, bar) -> "REJECT_STOP_COHERENCE"
    [] ~Incoherent(book, bar) /\ move < 2 * Sleeve.scoringSimCostBps + Sleeve.netEdgeMinBps
         -> "REJECT_NET_EDGE"
    [] OTHER -> "none"

Opened(book, bar, i) ==
  [book EXCEPT !.position =
     {[entry |-> i, price |-> bar.price, notional |-> SizeOf(book, bar),
       stop |-> (bar.price * (10000 - StopDistanceBps(bar))) \div 10000,
       frictionBps |-> RoundTripBps(SizeOf(book, bar))]}]

PositionOf(book) == CHOOSE p \in book.position : TRUE
Gross(p, bar) == ((bar.price - p.price) * p.notional) \div p.price

ClosePosition(book, bar, i, reason) ==
  LET p == PositionOf(book)
      pnl == Gross(p, bar) - (p.frictionBps * p.notional) \div 10000
  IN [book EXCEPT !.equity = @ + pnl, !.position = {},
        !.trades = Append(@, [entry |-> p.entry, exit |-> i, stop |-> p.stop, pnl |-> pnl,
                              moveBps |-> (10000 * (bar.price - p.price)) \div p.price,
                              reason |-> reason])]

Signalled(book, bar, i, move) ==
  IF Rejection(book, bar, move) = "none" THEN Opened(book, bar, i)
  ELSE [book EXCEPT !.rejected = Append(@, Rejection(book, bar, move))]

Stopped(book, bar) == \E p \in book.position : bar.price <= p.stop

\* An open position is only looked at, never replaced: the signal functions of the
\* runners ask for no exit, and a bar that closes one opens none.
Traded(book, bar, i, move) ==
  CASE Stopped(book, bar) -> ClosePosition(book, bar, i, "stop")
    [] book.position = {} /\ move # {} -> Signalled(book, bar, i, CHOOSE m \in move : TRUE)
    [] OTHER -> book

Unrealized(book, bar) == IF book.position = {} THEN 0 ELSE Gross(PositionOf(book), bar)

Marked(book, bar) == [book EXCEPT !.curve = Append(@, book.equity + Unrealized(book, bar))]

\* moves[i] is what the signal function answers at bar i: {} or an expected move.
Books(bars, moves) ==
  LET books[i \in 0..Len(bars)] ==
        IF i = 0 THEN NoBook ELSE Marked(Traded(books[i - 1], bars[i], i, moves[i]), bars[i])
  IN books[Len(bars)]

\* A plausible mistake: the last point of the curve stays as it was marked.
EndOfDataUnmarked(book, bars) ==
  IF book.position = {} THEN book
  ELSE ClosePosition(book, Last(bars), Len(bars), "end_of_data")

EndOfData(book, bars) ==
  IF book.position = {} THEN book
  ELSE LET closed == ClosePosition(book, Last(bars), Len(bars), "end_of_data")
       IN [closed EXCEPT !.curve = Append(Front(@), closed.equity)]

RunBacktest(bars, moves) == EndOfData(Books(bars, moves), bars)

Peak(curve, i) == Max({curve[j] : j \in 1..i})

\* In tenths of a percent of the running peak.
MaxDrawdown(curve) ==
  Max({0} \cup {(1000 * (Peak(curve, i) - curve[i])) \div Peak(curve, i) :
                  i \in {k \in 1..Len(curve) : Peak(curve, k) > 0}})

TotalReturn(book) ==
  (1000 * (book.equity - Sleeve.startingCapital)) \div Sleeve.startingCapital

Wins(trades) == Cardinality({i \in 1..Len(trades) : trades[i].moveBps > 0})
Moves(trades) == SumOf([i \in 1..Len(trades) |-> trades[i].moveBps])

\* The line of a family, over the runs of its tokens: a trade is a win by its
\* price alone, while the return and the drawdown have its friction in them.
SummarizeMany(runs) ==
  LET numTrades == SumOf([k \in 1..Len(runs) |-> Len(runs[k].trades)])
  IN [numTrades |-> numTrades,
      wins |-> SumOf([k \in 1..Len(runs) |-> Wins(runs[k].trades)]),
      meanMoveBps |-> SumOf([k \in 1..Len(runs) |-> Moves(runs[k].trades)]) \div Larger(1, numTrades),
      totalReturn |-> SumOf([k \in 1..Len(runs) |-> TotalReturn(runs[k])]) \div Larger(1, Len(runs)),
      maxDrawdown |-> Max({0} \cup {MaxDrawdown(runs[k].curve) : k \in 1..Len(runs)}),
      rejections |-> SumOf([k \in 1..Len(runs) |-> Len(runs[k].rejected)])]
-----------------------------------------------------------------------------
(* The signals of the skill backtest. *)

ExpectedMove(score) == Larger(0, (score - Sleeve.scoreFloor) * Sleeve.bpsPerScorePoint)

\* familyBacktest, for a sequence of scores.
MovesOf(scores) ==
  [i \in 1..Len(scores) |->
     IF i <= WarmUp \/ scores[i] < Sleeve.huntMinScore THEN {} ELSE {ExpectedMove(scores[i])}]

\* A plausible mistake: the window of the average takes in the next bar.
SmaBarsCentred(bars, i) == SubSeq(bars, Larger(1, i - SmaWindow + 1), Smaller(Len(bars), i + 1))

SmaBars(bars, i) == SubSeq(bars, Larger(1, i - SmaWindow + 1), i)

SmaScores(bars) ==     \* 0.4 percent above the average
  [i \in 1..Len(bars) |->
     LET w == SmaBars(bars, i)
         total == SumOf([k \in 1..Len(w) |-> w[k].price])
     IN IF 1000 * bars[i].price * Len(w) > 1004 * total THEN 82 ELSE 0]

\* A plausible mistake: aligned by their starts.
FirstBars(bars, n) == SubSeq(bars, 1, n)

\* Token and benchmark are aligned by their ends, whatever their days.
LastBars(bars, n) == SubSeq(bars, Len(bars) - n + 1, Len(bars))

AlignedBars(bars, bench) == LastBars(bars, Smaller(Len(bars), Len(bench)))

RsObservations(bars, bench) ==
  LET token == AlignedBars(bars, bench)
      against == AlignedBars(bench, bars)
  IN [i \in 1..Len(token) |->
        [volume |-> token[i].volume, lead |-> 100 * (token[i].change - against[i].change)]]

RsScores(bars, bench) ==
  LET obs == RsObservations(bars, bench)
  IN [i \in 1..Len(obs) |-> IF EvaluateRsContinuation(SubSeq(obs, 1, i)) THEN 82 ELSE 0]

\* One sleeve per family.
RunOf(family, bars, bench) ==
  LET token == AlignedBars(bars, bench)
  IN CASE family = "momentum" -> RunBacktest(token, MovesOf(SmaScores(token)))
       [] family = "rs_continuation" -> RunBacktest(token, MovesOf(RsScores(bars, bench)))
=============================================================================
