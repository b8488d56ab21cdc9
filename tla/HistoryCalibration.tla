------------------------- MODULE HistoryCalibration -------------------------
(***************************************************************************)
(* scripts/calibrate-history.ts: the production score replayed over daily  *)
(* quotes, each with the move to the next quote, and the bands of a report *)
(* that has to hold on the first 70 percent of the days and on the rest.   *)
(*                                                                         *)
(* Samples of one token, as a sequence: a day gives one of each family, in *)
(* the order they are added; a part of them is the set of their positions. *)
(* Moves are in tenths of a percent, so that sums of squares stay small;   *)
(* the bound of a confidence interval is compared without its square root. *)
(***************************************************************************)
EXTENDS Perception, Lists, SequencesExt, FiniteSetsExt

CONSTANTS
  FearGreed,               \* days to the index, where CMC has one
  Thresholds,              \* CALIBRATION_SCORE_THRESHOLDS, ascending
  TrainMin, ValidationMin  \* samples asked of each half

QuoteOf(point) ==
  [change24h |-> point.change, change1h |-> point.change1h, volume |-> point.volume]

BenchmarkOn(bench, day) == {i \in 1..Len(bench) : bench[i].day = day}

SamplesAt(points, bench, i) ==
  LET p == points[i]
      move == (1000 * (points[i + 1].price - p.price)) \div p.price
      Sample(score) == [day |-> p.day, score |-> score, move |-> move]
  IN IF BenchmarkOn(bench, p.day) = {} \/ p.day \notin DOMAIN FearGreed THEN <<>>
     ELSE LET b == bench[CHOOSE k \in BenchmarkOn(bench, p.day) : TRUE].change
              q == QuoteOf(p)
              f == FearGreed[p.day]
          IN <<Sample(ScoreBsc(MomentumInputs(q, b, f)))>>
             \o (IF p.change > b THEN <<Sample(ScoreBsc(RsContinuationInputs(q, b, f)))>> ELSE <<>>)

SamplesOf(points, bench) ==
  FlattenSeq([i \in 1..(Len(points) - 1) |-> SamplesAt(points, bench, i)])

Days(samples) == {samples[i].day : i \in 1..Len(samples)}

\* The day at 70 percent, as an element of the set or the empty set.
Split(samples) ==
  LET at == Greatest(1, (7 * Cardinality(Days(samples))) \div 10)
  IN {d \in Days(samples) : Cardinality({e \in Days(samples) : e < d}) = at}

Train(samples) == {i \in 1..Len(samples) : \E d \in Split(samples) : samples[i].day < d}
Validation(samples) == {i \in 1..Len(samples) : \E d \in Split(samples) : samples[i].day >= d}

InBand(samples, part, index) ==
  {i \in part : /\ samples[i].score >= Thresholds[index]
               /\ index < Len(Thresholds) => samples[i].score < Thresholds[index + 1]}

MoveIn(samples, part, i) == IF i \in part THEN samples[i].move ELSE 0

Total(samples, part) == SumOf([i \in 1..Len(samples) |-> MoveIn(samples, part, i)])
Squares(samples, part) ==
  SumOf([i \in 1..Len(samples) |-> MoveIn(samples, part, i) * MoveIn(samples, part, i)])

Mean(samples, part) == (10 * Total(samples, part)) \div Cardinality(part)     \* bps
HitRate(samples, part) ==
  (100 * Cardinality({i \in part : samples[i].move > 0})) \div Cardinality(part)

RequiredMoveBps == 2 * Config.scoringSimCostBps + Config.netEdgeMinBps

\* The lower bound, mean - 1.645 * sqrt(variance / n), reaches the required move.
LowerBoundMet(samples, part) ==
  LET n == Cardinality(part)
      total == Total(samples, part)
      excess == 10 * total - n * RequiredMoveBps
  IN /\ excess >= 0
     /\ n = 1 \/ excess * excess * (n - 1) >= 270 * (n * Squares(samples, part) - total * total)

\* A plausible mistake: the half that is held out is only asked for its size.
QualifiedOnTrain(samples, train, validation) ==
  /\ Cardinality(train) >= TrainMin /\ Cardinality(validation) >= ValidationMin
  /\ LowerBoundMet(samples, train)

Qualified(samples, train, validation) ==
  /\ Cardinality(train) >= TrainMin /\ Cardinality(validation) >= ValidationMin
  /\ LowerBoundMet(samples, train) /\ LowerBoundMet(samples, validation)

ReportBand(samples, index) ==
  LET train == InBand(samples, Train(samples), index)
      validation == InBand(samples, Validation(samples), index)
      qualified == Qualified(samples, train, validation)
  IN [minScore |-> Thresholds[index],
      moveBps |-> IF qualified THEN Least(Mean(samples, train), Mean(samples, validation)) ELSE 0,
      hitPct |-> IF qualified THEN Least(HitRate(samples, train), HitRate(samples, validation)) ELSE 0]

ValidatedReport(samples) == [i \in 1..Len(Thresholds) |-> ReportBand(samples, i)]
=============================================================================
