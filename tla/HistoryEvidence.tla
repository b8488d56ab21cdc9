--------------------------- MODULE HistoryEvidence ---------------------------
(***************************************************************************)
(* What the scripts say of a history that grows by a day at a time: the    *)
(* skill backtest of a token against BNB (Backtest) and the calibration of *)
(* its scores (HistoryCalibration).  CMC may leave a day of either series  *)
(* out: the quote is missing, or one of its fields is no number.           *)
(***************************************************************************)
EXTENDS Backtest, HistoryCalibration

CONSTANTS
  TokenDays, BnbDays,      \* what a day may be, without its number
  MaxDays                  \* bound: days of the history

\* What the scripts keep of a quote, and a stop of at least a basis point.
Quoted ==
  [price : Nat \ {0}, change : Int, change1h : Int, volume : Nat,
   atrBps : {a \in Nat : (Sleeve.stopAtrTenths * a) \div 10 > 0}]

SleeveParameters ==
  {"startingCapital", "perTradeRiskPct", "stopAtrTenths", "maxPositionPct", "netEdgeMinBps",
   "frictionBudgetBps", "scoringSimCostBps", "gasPerLeg", "slippageBps", "lpFeeBps",
   "safetyBufferBps", "huntMinScore", "scoreFloor", "bpsPerScorePoint"}

\* The share of the capital that a position may take leaves room for the
\* friction it may pay.
ASSUME HistoryAssumption ==
  /\ Sleeve \in [SleeveParameters -> Nat] /\ Sleeve.startingCapital > 0
  /\ Sleeve.maxPositionPct * (10000 + Sleeve.frictionBudgetBps) <= 1000000
  /\ WarmUp \in Nat \ {0} /\ SmaWindow \in Nat \ {0} /\ MaxDays \in Nat
  /\ LeadMinBps \in Int
  /\ TokenDays \subseteq Quoted /\ BnbDays \subseteq Quoted
  /\ TrainMin \in Nat \ {0} /\ ValidationMin \in Nat \ {0}
  /\ Config.scoringSimCostBps \in Nat /\ Config.netEdgeMinBps \in Nat

VARIABLES
  today,                   \* the last day, quoted or not
  token, bnb               \* their bars, a day each

historyVars == <<today, token, bnb>>

Families == {"momentum", "rs_continuation"}

HistoryInit == today = 0 /\ token = <<>> /\ bnb = <<>>

Bar(number, d) ==
  [day |-> number, price |-> d.price, change |-> d.change, change1h |-> d.change1h,
   volume |-> d.volume, atrBps |-> d.atrBps]

NextDay == today < MaxDays /\ today' = today + 1
TokenQuoted == \E d \in TokenDays : token' = Append(token, Bar(today + 1, d))
BnbQuoted == \E d \in BnbDays : bnb' = Append(bnb, Bar(today + 1, d))

Day == NextDay /\ TokenQuoted /\ BnbQuoted
TokenGap == NextDay /\ BnbQuoted /\ UNCHANGED token
BnbGap == NextDay /\ TokenQuoted /\ UNCHANGED bnb

HistoryNext == Day \/ TokenGap \/ BnbGap

HistorySpec == HistoryInit /\ [][HistoryNext]_historyVars
-----------------------------------------------------------------------------
Book(family, t, b) ==
  LET bars == AlignedBars(t, b)
  IN Books(bars, MovesOf(IF family = "momentum" THEN SmaScores(bars) ELSE RsScores(t, b)))

\* The series as the runner pairs them, the bars of a pair at one position.
AlignedToken == AlignedBars(token, bnb)
AlignedBnb == AlignedBars(bnb, token)

\* What a run of the first n pairs makes.
BookOfPairs(family, n) == Book(family, SubSeq(AlignedToken, 1, n), SubSeq(AlignedBnb, 1, n))

\* Whatever days either series lacks, the trades at a pair are of the pairs up to
\* it: with one pair more a run keeps every closed trade, every rejection and every
\* point of the curve, and leaves a position that was open as it is or closes it on
\* the new bar.  The run that is reported is the one of all the pairs.
NoLookAhead ==
  \A family \in Families :
    /\ Book(family, token, bnb) = BookOfPairs(family, Len(AlignedToken))
    /\ \A n \in 1..Len(AlignedToken) :
         LET then == BookOfPairs(family, n - 1)
             now == BookOfPairs(family, n)
         IN /\ IsPrefix(then.trades, now.trades) /\ IsPrefix(then.curve, now.curve)
            /\ IsPrefix(then.rejected, now.rejected)
            /\ then.position # {} => \/ now.position = then.position
                                     \/ /\ Len(now.trades) = Len(then.trades) + 1
                                        /\ Last(now.trades).exit = n

\* The others have a bar of a later day that these bars lack.
MissedAfter(bars, others, day) ==
  \E k \in 1..Len(others) : /\ others[k].day > day
                            /\ \A j \in 1..Len(bars) : bars[j].day # others[k].day

\* A pair is of one day unless a series lacks a later day of the other: a bar of
\* BNB that is later than the token's, so that the lead of that day is seen ahead
\* of it, comes only of a day that the token misses afterwards, and an earlier one
\* of a day that BNB misses.
AheadOnlyOverAGap ==
  \A i \in 1..Len(AlignedToken) :
    LET t == AlignedToken[i].day
        b == AlignedBnb[i].day
    IN (b > t => MissedAfter(token, bnb, t)) /\ (t > b => MissedAfter(bnb, token, b))

\* What a family's line reports is what its trades made: every trade has ended,
\* the last point of the curve is the capital with the friction of the last trade
\* taken off, no point of it is a debt, the drawdown is at least what the sleeve has
\* lost, and a line of no trades shows neither.
ReportTellsTheLoss ==
  AlignedToken # <<>> =>
    \A family \in Families :
      LET run == RunOf(family, token, bnb)
          line == SummarizeMany(<<run>>)
      IN /\ run.position = {}
         /\ Last(run.curve) = Sleeve.startingCapital
                              + SumOf([i \in 1..Len(run.trades) |-> run.trades[i].pnl])
         /\ \A i \in 1..Len(run.curve) : run.curve[i] >= 0
         /\ line.maxDrawdown >= -(line.totalReturn + 1)
         /\ line.numTrades = 0 => line.totalReturn = 0 /\ line.maxDrawdown = 0

\* A band that reports a move has earned it, after the cost of a scored round
\* trip, in the days it was fitted to and in the days that were held out.
BandsPayInBothHalves ==
  LET samples == SamplesOf(token, bnb)
      report == ValidatedReport(samples)
  IN \A i \in 1..Len(Thresholds) :
       report[i].moveBps # 0 =>
         \A half \in {Train(samples), Validation(samples)} :
           LET band == InBand(samples, half, i)
           IN /\ band # {}
              /\ 10 * Total(samples, band) >= Cardinality(band) * RequiredMoveBps
              /\ 10 * Total(samples, band) >= Cardinality(band) * report[i].moveBps
=============================================================================
