--------------------------- MODULE RiskState_proofs ---------------------------
(***************************************************************************)
(* The hysteresis of the regime and the peaks of both drawdowns, for every *)
(* number of confirmations, every market and every length of a week.       *)
(***************************************************************************)
EXTENDS RiskState, SequenceTheorems, FiniteSetTheorems, NaturalsInduction, WellFoundedInduction, TLAPS

Raws == {"RED", "NEUTRAL", "GREEN"}
Checks == RegimeCfg.hysteresisChecks
Anchors == [period : Int, peak : Nat]

(* regime.json counts reads that were really made, one after the other. *)
Confirming ==
  /\ regime \in [current : Raws, pendingRaw : Raws, pendingCount : Nat]
  /\ reads \in Seq(Raws) /\ Len(reads) <= Checks
  /\ regime.pendingCount < Checks /\ regime.pendingCount <= Len(reads)
  /\ \A i \in 1..Len(reads) : i > Len(reads) - regime.pendingCount => reads[i] = regime.pendingRaw

(* The book and a valuation of it. *)
BookTyped ==
  /\ price \in [Token -> Nat] /\ cash \in Nat /\ open \in Seq(Token)
  /\ sum \in Nat /\ next \in Nat /\ place \in {"sleep", "valuing", "valued"}
  /\ place = "valuing" => next > 0

(* Before its period has measured anything, an anchor file holds nothing of *)
(* it, or a peak of zero; after that it holds the peak of the period.       *)
PeakKept(anchor, period, top) ==
  /\ anchor \in {{}} \cup {{a} : a \in Anchors}
  /\ \A a \in anchor : a.period = period => a.peak = top
  /\ top > 0 => \E a \in anchor : a.period = period

PeaksKept ==
  /\ day \in Nat /\ windowTop \in Nat /\ dayTop \in Nat
  /\ PeakKept(windowAnchor, StartDay, windowTop)
  /\ PeakKept(dailyAnchor, day, dayTop)
  /\ \A a \in dailyAnchor : a.period <= day
-----------------------------------------------------------------------------
(* The regime. *)

LEMMA RawIsRegime == \A s : RawRegime(s) \in Raws
BY DEF RawRegime, Raws

LEMMA ChecksTyped == Checks \in Nat \ {0}
BY RiskStateAssumption DEF Checks

(* One more read at the end of a bounded list of them. *)
Pushed(list, raw) == IF Len(Append(list, raw)) <= Checks THEN Append(list, raw)
                     ELSE Tail(Append(list, raw))

LEMMA PushedReads ==
  ASSUME NEW list \in Seq(Raws), Len(list) <= Checks, NEW raw \in Raws,
         NEW new, new = Pushed(list, raw)
  PROVE  /\ new \in Seq(Raws)
         /\ Len(new) = IF Len(list) < Checks THEN Len(list) + 1 ELSE Checks
         /\ \A i \in 1..Len(new) :
              new[i] = IF i = Len(new) THEN raw ELSE list[i + Len(list) + 1 - Len(new)]
<1> DEFINE all == Append(list, raw)
<1>1. /\ all \in Seq(Raws) /\ Len(all) = Len(list) + 1 /\ Len(list) \in Nat
      /\ \A i \in 1..Len(list) : all[i] = list[i]
      /\ all[Len(list) + 1] = raw
  BY AppendProperties
<1>2. CASE Len(list) < Checks
  <2>1. new = all
    BY <1>1, <1>2, ChecksTyped DEF Pushed
  <2> QED BY <1>1, <1>2, <2>1
<1>3. CASE Len(list) = Checks
  <2>1. new = Tail(all)
    BY <1>1, <1>3, ChecksTyped DEF Pushed
  <2>2. all # <<>>
    BY <1>1
  <2> HIDE DEF all
  <2>3. /\ new \in Seq(Raws) /\ Len(new) = Len(list)
        /\ \A i \in 1..Len(new) : new[i] = all[i + 1]
    BY <1>1, <2>1, <2>2, HeadTailProperties
  <2> QED BY <1>1, <1>3, <2>3, ChecksTyped
<1> QED BY <1>1, <1>2, <1>3, ChecksTyped

(* What a read makes of the state of the hysteresis. *)
LEMMA ReadConfirms ==
  ASSUME Confirming, NEW raw \in Raws,
         regime' = EvaluateRegime(regime, raw), reads' = Pushed(reads, raw)
  PROVE  /\ Confirming'
         /\ regime'.current # regime.current =>
              Len(reads') = Checks /\ \A i \in 1..Len(reads') : reads'[i] = regime'.current
<1> DEFINE count == IF raw = regime.pendingRaw THEN regime.pendingCount + 1 ELSE 1
           back == IF Len(reads) < Checks THEN Len(reads) + 1 ELSE Checks
<1>1. /\ regime.pendingCount \in Nat /\ regime.current \in Raws /\ regime.pendingRaw \in Raws
      /\ Len(reads) \in Nat /\ Checks \in Nat \ {0}
  BY ChecksTyped, LenProperties DEF Confirming
<1>2. /\ reads' \in Seq(Raws) /\ Len(reads') = back
      /\ \A i \in 1..back : reads'[i] = IF i = back THEN raw ELSE reads[i + Len(reads) + 1 - back]
  <2>1. reads \in Seq(Raws) /\ Len(reads) <= Checks
    BY DEF Confirming
  <2>2. \A new : new = Pushed(reads, raw) =>
          /\ new \in Seq(Raws)
          /\ Len(new) = back
          /\ \A i \in 1..Len(new) :
               new[i] = IF i = Len(new) THEN raw ELSE reads[i + Len(reads) + 1 - Len(new)]
    BY <2>1, PushedReads
  <2> HIDE DEF back
  <2> QED BY <2>2
<1>3. count \in 1..back /\ \A i \in 1..back : i > back - count => reads'[i] = raw
  <2>1. CASE raw # regime.pendingRaw
    BY <1>1, <1>2, <2>1
  <2>2. CASE raw = regime.pendingRaw
    <3>1. count \in 1..back
      BY <1>1, <2>2 DEF Confirming
    <3>2. ASSUME NEW i \in 1..back, i > back - count, i # back
          PROVE  reads'[i] = raw
      <4>1. i + Len(reads) + 1 - back \in 1..Len(reads)
        BY <1>1, <3>2 DEF Confirming
      <4>2. i + Len(reads) + 1 - back > Len(reads) - regime.pendingCount
        BY <1>1, <2>2, <3>2
      <4>3. reads[i + Len(reads) + 1 - back] = regime.pendingRaw
        BY <4>1, <4>2 DEF Confirming
      <4> QED BY <1>2, <2>2, <3>2, <4>3
    <3> QED BY <1>2, <3>1, <3>2
  <2> QED BY <2>1, <2>2
<1>4. CASE raw = regime.current
  <2>1. regime' = [current |-> raw, pendingRaw |-> raw, pendingCount |-> 0]
    BY <1>4 DEF EvaluateRegime
  <2> QED BY <1>1, <1>2, <1>4, <2>1 DEF Confirming
<1>5. CASE raw # regime.current /\ count >= Checks
  <2>1. regime' = [current |-> raw, pendingRaw |-> raw, pendingCount |-> 0]
    BY <1>5 DEF EvaluateRegime, Checks
  <2>2. back = Checks /\ back - count <= 0
    BY <1>1, <1>3, <1>5 DEF Confirming
  <2>3. \A i \in 1..back : reads'[i] = raw
    BY <1>1, <1>3, <2>2
  <2> QED BY <1>1, <1>2, <2>1, <2>2, <2>3 DEF Confirming
<1>6. CASE raw # regime.current /\ ~(count >= Checks)
  <2>1. regime' = [current |-> regime.current, pendingRaw |-> raw, pendingCount |-> count]
    BY <1>6 DEF EvaluateRegime, Checks
  <2>2. count \in Nat /\ count < Checks /\ count <= back
    BY <1>1, <1>3, <1>6
  <2> HIDE DEF count
  <2> QED BY <1>1, <1>2, <1>3, <2>1, <2>2 DEF Confirming
<1> QED BY <1>4, <1>5, <1>6

LEMMA OthersLeaveRegime ==
  ASSUME Next, ~ReadRegime
  PROVE  UNCHANGED <<regime, reads>>
BY DEF Next, MarketMoves, Enter, WatchExit, NewDay, Restart, BeginValuation, ValueNext, Measure,
       history

LEMMA RegimeStep ==
  ASSUME Confirming, [Next]_vars
  PROVE  /\ Confirming'
         /\ regime'.current # regime.current =>
              Len(reads') = Checks /\ \A i \in 1..Len(reads') : reads'[i] = regime'.current
<1>1. CASE ReadRegime
  <2>1. PICK s \in Signals : /\ regime' = EvaluateRegime(regime, RawRegime(s))
                             /\ reads' = Pushed(reads, RawRegime(s))
    BY <1>1 DEF ReadRegime, Pushed, Checks
  <2> QED BY <2>1, RawIsRegime, ReadConfirms
<1>2. CASE Next /\ ~ReadRegime
  BY <1>2, OthersLeaveRegime DEF Confirming
<1>3. CASE UNCHANGED vars
  BY <1>3 DEF vars, history, Confirming
<1> QED BY <1>1, <1>2, <1>3

LEMMA RegimeInit == Init => Confirming
<1> SUFFICES ASSUME Init PROVE Confirming
  OBVIOUS
<1>1. regime = [current |-> "NEUTRAL", pendingRaw |-> "NEUTRAL", pendingCount |-> 0] /\ reads = <<>>
  BY DEF Init, NoRegime
<1>2. reads \in Seq(Raws) /\ Len(reads) = 0
  BY <1>1, EmptySeq
<1> QED BY <1>1, <1>2, ChecksTyped DEF Confirming, Raws

\* core/regimeAnalyst.ts commits to another regime only when the last
\* hysteresisChecks reads all said so, whatever happened between them.
THEOREM RegimeConfirmed == Spec => RegimeIsConfirmed
<1>1. Confirming /\ [Next]_vars =>
        [regime'.current # regime.current =>
           /\ Len(reads') = RegimeCfg.hysteresisChecks
           /\ \A i \in DOMAIN reads' : reads'[i] = regime'.current]_vars
  <2> SUFFICES ASSUME Confirming, [Next]_vars, regime'.current # regime.current
               PROVE  /\ Len(reads') = RegimeCfg.hysteresisChecks
                      /\ \A i \in DOMAIN reads' : reads'[i] = regime'.current
    OBVIOUS
  <2>1. reads' \in Seq(Raws)
    BY RegimeStep DEF Confirming
  <2>2. DOMAIN reads' = 1..Len(reads')
    BY <2>1, LenProperties
  <2> QED BY <2>2, RegimeStep DEF Checks
<1>2. Confirming /\ [Next]_vars => Confirming'
  BY RegimeStep
<1> QED BY <1>1, <1>2, RegimeInit, PTL DEF Spec, RegimeIsConfirmed
-----------------------------------------------------------------------------
(* The values the peaks are made of. *)

LEMMA RemovedStaysTyped ==
  ASSUME NEW T, NEW s \in Seq(T), NEW i \in 1..Len(s)
  PROVE  RemoveAt(s, i) \in Seq(T)
<1>1. Len(s) \in Nat /\ \A k \in 1..Len(s) : s[k] \in T
  BY LenProperties
<1>2. SubSeq(s, 1, i - 1) \in Seq(T)
  <2>1. \A k \in 1..(i - 1) : s[k] \in T
    BY <1>1
  <2> QED BY <2>1, <1>1, SubSeqProperties
<1>3. SubSeq(s, i + 1, Len(s)) \in Seq(T)
  <2>1. \A k \in (i + 1)..Len(s) : s[k] \in T
    BY <1>1
  <2> QED BY <2>1, <1>1, SubSeqProperties
<1> QED BY <1>2, <1>3, ConcatProperties DEF RemoveAt

LEMMA PricesPositive == PriceLevels \subseteq Nat
BY RiskStateAssumption

LEMMA BookInit == Init => BookTyped
<1> SUFFICES ASSUME Init PROVE BookTyped
  OBVIOUS
<1>1. Config.startingCapital \in Nat
  BY ConfigAssumption DEF ConfigLoads
<1>2. open \in Seq(Token)
  BY EmptySeq DEF Init
<1>3. price \in [Token -> Nat]
  BY PricesPositive DEF Init
<1> QED BY <1>1, <1>2, <1>3 DEF Init, BookTyped

LEMMA BookStep ==
  ASSUME BookTyped, [Next]_vars
  PROVE  BookTyped'
<1> USE DEF BookTyped
<1>1. CASE MarketMoves
  <2>1. price' \in [Token -> Nat]
    BY <1>1, PricesPositive DEF MarketMoves
  <2> QED BY <1>1, <2>1 DEF MarketMoves, pass
<1>2. CASE Enter
  <2>1. PICK t \in Token : /\ cash >= price[t] /\ open' = Append(open, t)
                           /\ cash' = cash - price[t]
    BY <1>2 DEF Enter
  <2>2. open' \in Seq(Token)
    BY <2>1, AppendProperties
  <2>3. cash' \in Nat
    BY <2>1
  <2> QED BY <1>2, <2>2, <2>3 DEF Enter, pass
<1>3. CASE WatchExit
  <2>1. PICK i \in DOMAIN open : /\ cash' = cash + price[open[i]] /\ open' = RemoveAt(open, i)
                                 /\ UNCHANGED <<price, pass>>
    BY <1>3 DEF WatchExit
  <2>2. i \in 1..Len(open) /\ open[i] \in Token
    BY LenProperties
  <2>3. open' \in Seq(Token)
    BY <2>1, <2>2, RemovedStaysTyped
  <2>4. cash' \in Nat
    BY <2>1, <2>2
  <2> QED BY <2>1, <2>3, <2>4 DEF pass
<1>4. CASE NewDay
  BY <1>4 DEF NewDay, book, pass
<1>5. CASE Restart
  BY <1>5 DEF Restart, book
<1>6. CASE BeginValuation
  BY <1>6 DEF BeginValuation, book, CashRead
<1>7. CASE ValueNext
  <2>1. next \in 1..Len(open) /\ open[next] \in Token
    BY <1>7, LenProperties DEF ValueNext
  <2>2. sum' \in Nat /\ next' \in Nat /\ next' > 0
    BY <1>7, <2>1 DEF ValueNext, PriceOf
  <2> QED BY <1>7, <2>2 DEF ValueNext, book
<1>8. CASE Measure
  BY <1>8 DEF Measure, book
<1>9. CASE ReadRegime
  BY <1>9 DEF ReadRegime, book
<1>10. CASE UNCHANGED vars
  BY <1>10 DEF vars, book, pass
<1> QED BY <1>1, <1>2, <1>3, <1>4, <1>5, <1>6, <1>7, <1>8, <1>9, <1>10 DEF Next

LEMMA TotalTyped == BookTyped => Total \in Nat
BY DEF BookTyped, Total, CashRead
-----------------------------------------------------------------------------
(* The peaks. *)

LEMMA MaxOfOne ==
  ASSUME NEW v \in Nat
  PROVE  Max({v}) = v
BY DEF Max

LEMMA MaxOfTwo ==
  ASSUME NEW a \in Nat, NEW v \in Nat
  PROVE  Max({a, v}) = Raise(a, v)
<1>1. \E x \in {a, v} : \A y \in {a, v} : x >= y
  OBVIOUS
<1>2. Max({a, v}) \in {a, v} /\ \A y \in {a, v} : Max({a, v}) >= y
  BY <1>1 DEF Max
<1> QED BY <1>2 DEF Raise

(* Whatever a file held, it now holds the peak of the period it is of. *)
LEMMA UpdateKeepsPeak ==
  ASSUME NEW anchor, NEW period \in Int, NEW top \in Nat, NEW v \in Nat,
         PeakKept(anchor, period, top)
  PROVE  /\ Update(anchor, period, v) = [period |-> period, peak |-> Raise(top, v)]
         /\ Raise(top, v) \in Nat
<1> DEFINE old == {a.peak : a \in {b \in anchor : b.period = period}}
<1>1. Update(anchor, period, v) = [period |-> period, peak |-> Max(old \cup {v})]
  BY DEF Update
<1>2. Raise(top, v) \in Nat
  BY DEF Raise
<1>3. CASE \E a \in anchor : a.period = period
  <2>1. PICK a \in Anchors : anchor = {a}
    BY <1>3 DEF PeakKept
  <2>2. a.period = period /\ a.peak = top
    BY <1>3, <2>1 DEF PeakKept
  <2>3. old = {top}
    BY <2>1, <2>2
  <2>4. old \cup {v} = {top, v}
    BY <2>3
  <2> QED BY <1>1, <1>2, <2>4, MaxOfTwo
<1>4. CASE ~\E a \in anchor : a.period = period
  <2>1. old \cup {v} = {v}
    BY <1>4
  <2>2. top = 0
    BY <1>4 DEF PeakKept
  <2>3. Raise(top, v) = v
    BY <2>2 DEF Raise
  <2> QED BY <1>1, <1>2, <2>1, <2>3, MaxOfOne
<1> QED BY <1>3, <1>4

LEMMA PeaksInit == Init => PeaksKept
<1> SUFFICES ASSUME Init PROVE PeaksKept
  OBVIOUS
<1>1. Config.startingCapital \in Nat /\ StartDay \in Nat
  BY ConfigAssumption, RiskStateAssumption DEF ConfigLoads
<1>2. [period |-> StartDay + 7, peak |-> 2 * Config.startingCapital] \in Anchors
  BY <1>1 DEF Anchors
<1>3. windowAnchor \in {{}, {[period |-> StartDay + 7, peak |-> 2 * Config.startingCapital]}}
  BY DEF Init
<1>4. PeakKept(windowAnchor, StartDay, 0)
  BY <1>1, <1>2, <1>3 DEF PeakKept
<1>5. PeakKept({}, 0, 0)
  BY DEF PeakKept
<1> QED BY <1>4, <1>5 DEF Init, PeaksKept

LEMMA MeasureKeepsPeaks ==
  ASSUME BookTyped, PeaksKept, Measure
  PROVE  PeaksKept'
<1>1. Total \in Nat /\ StartDay \in Nat /\ day \in Nat /\ day' = day
  BY TotalTyped, RiskStateAssumption DEF PeaksKept, Measure
<1>2. /\ Update(dailyAnchor, day, Total) = [period |-> day, peak |-> Raise(dayTop, Total)]
      /\ Raise(dayTop, Total) \in Nat
  BY <1>1, UpdateKeepsPeak DEF PeaksKept
<1>3. /\ Update(windowAnchor, StartDay, Total) = [period |-> StartDay, peak |-> Raise(windowTop, Total)]
      /\ Raise(windowTop, Total) \in Nat
  BY <1>1, UpdateKeepsPeak DEF PeaksKept
<1>4. dailyAnchor' = {[period |-> day, peak |-> Raise(dayTop, Total)]} /\ dayTop' = Raise(dayTop, Total)
  BY <1>2 DEF Measure
<1>5. PeakKept(dailyAnchor', day', dayTop') /\ \A a \in dailyAnchor' : a.period <= day'
  BY <1>1, <1>2, <1>4 DEF PeakKept, Anchors
<1>6. CASE Started
  <2>1. /\ windowAnchor' = {[period |-> StartDay, peak |-> Raise(windowTop, Total)]}
        /\ windowTop' = Raise(windowTop, Total)
    BY <1>3, <1>6 DEF Measure, WindowAnchor
  <2>2. PeakKept(windowAnchor', StartDay, windowTop')
    BY <1>1, <1>3, <2>1 DEF PeakKept, Anchors
  <2> QED BY <1>1, <1>2, <1>3, <1>4, <1>5, <2>1, <2>2 DEF PeaksKept
<1>7. CASE ~Started
  <2>1. windowAnchor' = windowAnchor /\ windowTop' = windowTop
    BY <1>7 DEF Measure, WindowAnchor
  <2> QED BY <1>1, <1>2, <1>4, <1>5, <2>1 DEF PeaksKept
<1> QED BY <1>6, <1>7

LEMMA PeaksStep ==
  ASSUME BookTyped, PeaksKept, [Next]_vars
  PROVE  PeaksKept'
<1>1. CASE Measure
  BY <1>1, MeasureKeepsPeaks
<1>2. CASE NewDay
  <2>1. /\ day \in Nat /\ day' = day + 1 /\ dayTop' = 0
        /\ UNCHANGED <<windowAnchor, dailyAnchor, windowTop>>
    BY <1>2 DEF NewDay, anchors, PeaksKept
  <2>2. \A a \in dailyAnchor : a \in Anchors /\ a.period < day'
    BY <2>1 DEF PeaksKept, PeakKept, Anchors
  <2>3. PeakKept(dailyAnchor', day', dayTop')
    BY <2>1, <2>2 DEF PeaksKept, PeakKept, Anchors
  <2> QED BY <2>1, <2>2, <2>3 DEF PeaksKept, Anchors
<1>3. ASSUME UNCHANGED <<day, windowAnchor, dailyAnchor, windowTop, dayTop>>
      PROVE  PeaksKept'
  BY <1>3 DEF PeaksKept
<1>4. CASE Next /\ ~Measure /\ ~NewDay
  <2>1. UNCHANGED <<day, windowAnchor, dailyAnchor, windowTop, dayTop>>
    BY <1>4 DEF Next, MarketMoves, Enter, WatchExit, Restart, BeginValuation, ValueNext,
                ReadRegime, anchors, history
  <2> QED BY <1>3, <2>1
<1>5. CASE UNCHANGED vars
  BY <1>3, <1>5 DEF vars, anchors, history
<1> QED BY <1>1, <1>2, <1>4, <1>5

\* The peak windowDrawdown.ts and dailyDrawdown.ts measure from is the highest
\* value of its own period, whatever another period, a rehearsal or a process
\* before a restart left in the files.
THEOREM PeaksOfTheirPeriod == Spec => []PeaksAreOfTheirPeriod
<1>1. Init => BookTyped /\ PeaksKept
  BY BookInit, PeaksInit
<1>2. BookTyped /\ PeaksKept /\ [Next]_vars => (BookTyped /\ PeaksKept)'
  BY BookStep, PeaksStep
<1>3. PeaksKept => PeaksAreOfTheirPeriod
  <2> SUFFICES ASSUME PeaksKept PROVE PeaksAreOfTheirPeriod
    OBVIOUS
  <2>1. ASSUME NEW anchor, NEW period, NEW top \in Nat, top > 0, PeakKept(anchor, period, top)
        PROVE  anchor = {[period |-> period, peak |-> top]}
    <3>1. PICK a \in Anchors : anchor = {a} /\ a.period = period /\ a.peak = top
      BY <2>1 DEF PeakKept
    <3>2. a = [period |-> period, peak |-> top]
      BY <3>1 DEF Anchors
    <3> QED BY <3>1, <3>2
  <2>2. windowTop \in Nat /\ dayTop \in Nat
        /\ PeakKept(windowAnchor, StartDay, windowTop) /\ PeakKept(dailyAnchor, day, dayTop)
    BY DEF PeaksKept
  <2> QED BY <2>1, <2>2 DEF PeaksAreOfTheirPeriod
<1> QED BY <1>1, <1>2, <1>3, PTL DEF Spec
-----------------------------------------------------------------------------
(* Every non-empty set of naturals has a least member: what takes the place  *)
(* of an induction wherever one is needed.                                   *)
LEMMA LeastNat ==
  ASSUME NEW T \in SUBSET Nat, T # {}
  PROVE  \E m \in T : \A k \in T : m <= k
<1>1. PICK m \in T : \A y \in T : ~(<<y, m>> \in OpToRel(<, Nat))
  BY NatLessThanWellFounded, WFMin
<1>2. ASSUME NEW k \in T PROVE m <= k
  <2>1. ~(<<k, m>> \in OpToRel(<, Nat))
    BY <1>1
  <2>2. ~(k < m)
    BY <2>1 DEF OpToRel
  <2> QED BY <2>2
<1> QED BY <1>1, <1>2

(* The same for finite sets: a family of them has a smallest.                *)
LEMMA SmallestSet ==
  ASSUME NEW F, F # {}, \A s \in F : IsFiniteSet(s)
  PROVE  \E s \in F : \A t \in F : Cardinality(s) <= Cardinality(t)
<1> DEFINE Sizes == {Cardinality(s) : s \in F}
<1>1. Sizes # {} /\ Sizes \in SUBSET Nat
  BY FS_CardinalityType
<1>2. PICK n \in Sizes : \A k \in Sizes : n <= k
  BY <1>1, LeastNat
<1>3. PICK s \in F : n = Cardinality(s)
  BY <1>2
<1>4. \A t \in F : Cardinality(t) \in Sizes
  OBVIOUS
<1> QED BY <1>2, <1>3, <1>4

LEMMA SmallerByOne ==
  ASSUME NEW s, IsFiniteSet(s), NEW x \in s
  PROVE  /\ IsFiniteSet(s \ {x}) /\ Cardinality(s \ {x}) = Cardinality(s) - 1
         /\ Cardinality(s) \in Nat /\ Cardinality(s \ {x}) \in Nat
BY FS_RemoveElement, FS_CardinalityType
-----------------------------------------------------------------------------
(* A fold over a set, in whatever order. *)

Pick(s) == CHOOSE x \in s : TRUE
Folded(w, s, it) == IF s = {} THEN 0 ELSE w[Pick(s)] + it[s \ {Pick(s)}]
IsFold(it, w, D) == it = [s \in SUBSET D |-> Folded(w, s, it)]

(* A fold is defined on sets of every size: one that is defined up to a      *)
(* size gives one that is defined for a member more.                         *)
LEMMA FoldExists ==
  ASSUME NEW D, IsFiniteSet(D), NEW w
  PROVE  \E it : IsFold(it, w, D)
<1> DEFINE Sub(n) == {s \in SUBSET D : Cardinality(s) <= n}
           UpToSize(n) == \E it : it = [s \in Sub(n) |-> Folded(w, s, it)]
           Bad == {n \in Nat : ~UpToSize(n)}
<1>0. \A s \in SUBSET D : IsFiniteSet(s) /\ Cardinality(s) \in Nat
  BY FS_Subset, FS_CardinalityType
<1>1. UpToSize(0)
  <2> DEFINE it == [s \in Sub(0) |-> 0]
  <2>1. \A s \in Sub(0) : s = {}
    BY <1>0, FS_EmptySet
  <2>2. \A s \in Sub(0) : Folded(w, s, it) = 0
    BY <2>1 DEF Folded
  <2>3. it = [s \in Sub(0) |-> Folded(w, s, it)]
    BY <2>2
  <2> QED BY <2>3
<1>2. ASSUME NEW n \in Nat, UpToSize(n) PROVE UpToSize(n + 1)
  <2>1. PICK it : it = [s \in Sub(n) |-> Folded(w, s, it)]
    BY <1>2
  <2> DEFINE longer == [s \in Sub(n + 1) |-> Folded(w, s, it)]
  <2>2. \A s \in Sub(n + 1) : s # {} => s \ {Pick(s)} \in Sub(n) /\ s \ {Pick(s)} \in Sub(n + 1)
    <3> SUFFICES ASSUME NEW s \in Sub(n + 1), s # {}
                 PROVE  s \ {Pick(s)} \in Sub(n) /\ s \ {Pick(s)} \in Sub(n + 1)
      OBVIOUS
    <3>1. Pick(s) \in s
      BY DEF Pick
    <3>2. Cardinality(s \ {Pick(s)}) = Cardinality(s) - 1 /\ Cardinality(s) \in Nat
      BY <1>0, <3>1, SmallerByOne
    <3> QED BY <3>2
  <2>3. \A s \in Sub(n) : s \in Sub(n + 1)
    BY <1>0
  <2>4. \A s \in Sub(n) : longer[s] = it[s]
    <3> SUFFICES ASSUME NEW s \in Sub(n) PROVE longer[s] = it[s]
      OBVIOUS
    <3> DEFINE at(f) == Folded(w, s, f)
    <3>1. it[s] = Folded(w, s, it)
      BY <2>1
    <3>2. longer[s] = Folded(w, s, it)
      BY <2>3
    <3> QED BY <3>1, <3>2
  <2> HIDE DEF longer
  <2>5. \A s \in Sub(n + 1) : Folded(w, s, longer) = Folded(w, s, it)
    <3> SUFFICES ASSUME NEW s \in Sub(n + 1) PROVE Folded(w, s, longer) = Folded(w, s, it)
      OBVIOUS
    <3>1. CASE s = {}
      BY <3>1 DEF Folded
    <3>2. CASE s # {}
      <4>1. longer[s \ {Pick(s)}] = it[s \ {Pick(s)}]
        BY <2>2, <2>4, <3>2
      <4> QED BY <4>1 DEF Folded
    <3> QED BY <3>1, <3>2
  <2>6. longer = [s \in Sub(n + 1) |-> Folded(w, s, longer)]
    BY <2>5 DEF longer
  <2> QED BY <2>6
<1> HIDE DEF UpToSize
<1>3. Bad = {}
  <2> SUFFICES ASSUME Bad # {} PROVE FALSE
    OBVIOUS
  <2>1. Bad \in SUBSET Nat
    OBVIOUS
  <2>2. PICK m \in Bad : \A k \in Bad : m <= k
    BY <2>1, LeastNat
  <2>3. m \in Nat /\ ~UpToSize(m)
    OBVIOUS
  <2>4. m # 0 /\ m - 1 \in Nat /\ ~(m <= m - 1) /\ (m - 1) + 1 = m
    BY <1>1, <2>3
  <2>5. m - 1 \notin Bad
    BY <2>2, <2>4
  <2>6. UpToSize(m - 1)
    BY <2>4, <2>5
  <2> QED BY <1>2, <2>3, <2>4, <2>6
<1>4. UpToSize(Cardinality(D))
  BY <1>0, <1>3
<1>5. Sub(Cardinality(D)) = SUBSET D
  <2>1. \A s \in SUBSET D : Cardinality(s) <= Cardinality(D)
    BY FS_Subset
  <2> QED BY <2>1
<1>6. PICK it : it = [s \in Sub(Cardinality(D)) |-> Folded(w, s, it)]
  BY <1>4 DEF UpToSize
<1>7. IsFold(it, w, D)
  BY <1>5, <1>6 DEF IsFold
<1> QED BY <1>7

LEMMA FoldTyped ==
  ASSUME NEW D, IsFiniteSet(D), NEW w, \A x \in D : w[x] \in Nat, NEW it, IsFold(it, w, D)
  PROVE  it[D] \in Nat
<1> DEFINE Bad == {s \in SUBSET D : it[s] \notin Nat}
<1>0. \A s \in SUBSET D : IsFiniteSet(s)
  BY FS_Subset
<1>1. SUFFICES ASSUME Bad # {} PROVE FALSE
  OBVIOUS
<1>2. PICK s \in Bad : \A t \in Bad : Cardinality(s) <= Cardinality(t)
  BY <1>0, <1>1, SmallestSet
<1>3. it[s] = Folded(w, s, it)
  BY DEF IsFold
<1>4. CASE s = {}
  BY <1>3, <1>4 DEF Folded
<1>5. CASE s # {}
  <2>1. Pick(s) \in s
    BY <1>5 DEF Pick
  <2>2. s \ {Pick(s)} \in SUBSET D /\ ~(Cardinality(s) <= Cardinality(s \ {Pick(s)}))
    BY <1>0, <2>1, SmallerByOne
  <2>3. s \ {Pick(s)} \notin Bad
    BY <1>2, <2>2
  <2>4. it[s \ {Pick(s)}] \in Nat
    BY <2>2, <2>3
  <2>5. w[Pick(s)] \in Nat
    BY <2>1
  <2> QED BY <1>3, <1>5, <2>4, <2>5 DEF Folded
<1> QED BY <1>4, <1>5

LEMMA FoldOfNone ==
  ASSUME NEW D, NEW w, NEW it, IsFold(it, w, D)
  PROVE  it[{}] = 0
<1>1. it[{}] = Folded(w, {}, it)
  BY DEF IsFold
<1> QED BY <1>1 DEF Folded

(* Any member can be taken first. *)
Weighed(w, D) == IsFiniteSet(D) /\ \A x \in D : w[x] \in Nat
InAnyOrder(it, w, D) ==
  \A s \in SUBSET D : it[s] \in Nat /\ \A x \in s : it[s] = w[x] + it[s \ {x}]

LEMMA FoldAnyOrder ==
  ASSUME NEW D, NEW w, Weighed(w, D), NEW it, IsFold(it, w, D)
  PROVE  InAnyOrder(it, w, D)
<1> DEFINE Right(s) == it[s] \in Nat /\ \A x \in s : it[s] = w[x] + it[s \ {x}]
           Bad == {s \in SUBSET D : ~Right(s)}
<1>a. IsFiniteSet(D) /\ \A x \in D : w[x] \in Nat
  BY DEF Weighed
<1>0. \A s \in SUBSET D : IsFiniteSet(s)
  BY <1>a, FS_Subset
<1>1. SUFFICES ASSUME Bad # {} PROVE FALSE
  BY DEF InAnyOrder
<1>2. PICK s \in Bad : \A t \in Bad : Cardinality(s) <= Cardinality(t)
  BY <1>0, <1>1, SmallestSet
<1>3. s \in SUBSET D /\ ~Right(s)
  OBVIOUS
<1>4. ASSUME NEW x \in s PROVE s \ {x} \in SUBSET D /\ Right(s \ {x})
  <2>1. ~(Cardinality(s) <= Cardinality(s \ {x}))
    BY <1>0, <1>3, SmallerByOne
  <2>2. s \ {x} \in SUBSET D /\ s \ {x} \notin Bad
    BY <1>2, <1>3, <2>1
  <2> QED BY <2>2
<1>5. it[s] = Folded(w, s, it)
  BY <1>3 DEF IsFold
<1>6. CASE s = {}
  BY <1>3, <1>5, <1>6 DEF Folded
<1>7. CASE s # {}
  <2> DEFINE p == Pick(s)
  <2>1. p \in s
    BY <1>7 DEF Pick
  <2>2. it[s] = w[p] + it[s \ {p}]
    BY <1>5, <1>7 DEF Folded
  <2> HIDE DEF p
  <2>3. w[p] \in Nat /\ it[s \ {p}] \in Nat
    BY <1>a, <1>3, <1>4, <2>1
  <2>4. ASSUME NEW x \in s PROVE it[s] = w[x] + it[s \ {x}]
    <3>1. CASE x = p
      BY <2>2, <3>1
    <3>2. CASE x # p
      <4>1. it[s \ {p}] = w[x] + it[(s \ {p}) \ {x}] /\ it[s \ {x}] = w[p] + it[(s \ {x}) \ {p}]
        BY <1>4, <2>1, <3>2
      <4>2. (s \ {p}) \ {x} = (s \ {x}) \ {p}
        OBVIOUS
      <4>3. (s \ {p}) \ {x} \in SUBSET D /\ it[(s \ {p}) \ {x}] \in Nat
        <5>1. s \ {p} \in SUBSET D
          BY <1>3
        <5>2. IsFiniteSet(s \ {p}) /\ x \in s \ {p}
          BY <1>0, <3>2, <5>1
        <5>3. /\ Cardinality((s \ {p}) \ {x}) = Cardinality(s \ {p}) - 1
              /\ Cardinality(s \ {p}) = Cardinality(s) - 1 /\ Cardinality(s) \in Nat
              /\ Cardinality(s \ {p}) \in Nat
          BY <1>0, <1>3, <2>1, <5>2, SmallerByOne
        <5>4. ~(Cardinality(s) <= Cardinality((s \ {p}) \ {x}))
          BY <5>3
        <5>5. (s \ {p}) \ {x} \in SUBSET D
          BY <5>1
        <5>6. (s \ {p}) \ {x} \notin Bad
          BY <1>2, <5>4, <5>5
        <5> QED BY <5>5, <5>6
      <4>4. w[x] \in Nat
        BY <1>a, <1>3
      <4>5. (s \ {x}) \ {p} = (s \ {p}) \ {x} /\ it[(s \ {x}) \ {p}] = it[(s \ {p}) \ {x}]
        BY <4>2, Zenon
      <4>6. it[s] = w[p] + (w[x] + it[(s \ {p}) \ {x}]) /\ it[s \ {x}] = w[p] + it[(s \ {p}) \ {x}]
        BY <2>2, <4>1, <4>5, Zenon
      <4> DEFINE c == it[(s \ {p}) \ {x}]
                 d == it[s \ {x}]
                 e == it[s]
                 a == w[p]
                 b == w[x]
      <4>7. e = a + (b + c) /\ d = a + c /\ a \in Nat /\ b \in Nat /\ c \in Nat
        BY <2>3, <4>3, <4>4, <4>6, Zenon
      <4> HIDE DEF a, b, c, d, e
      <4>8. e = b + d
        BY <4>7
      <4> QED BY <4>8 DEF b, d, e
    <3> QED BY <3>1, <3>2
  <2>5. it[s] \in Nat
    BY <2>2, <2>3
  <2> QED BY <1>3, <2>4, <2>5
<1> QED BY <1>6, <1>7

(* The worth of the positions from each place of the array on. *)
IsTail(f, s) ==
  /\ f \in [1..(Len(s) + 1) -> Nat] /\ f[Len(s) + 1] = 0
  /\ \A k \in 1..Len(s) : f[k] = price[s[k]] + f[k + 1]

LEMMA WorthByTail ==
  ASSUME BookTyped, NEW s \in Seq(Token), NEW c \in Nat
  PROVE  \E f : IsTail(f, s) /\ Worth(c, s) = c + f[1]
<1> DEFINE D == 1..Len(s)
           w == [i \in D |-> price[s[i]]]
           it == CHOOSE it : it = [S \in SUBSET (DOMAIN s) |->
                   IF S = {} THEN 0
                   ELSE price[s[CHOOSE x \in S : TRUE]] + it[S \ {CHOOSE x \in S : TRUE}]]
<1>1. Len(s) \in Nat /\ DOMAIN s = D /\ \A i \in D : s[i] \in Token
  BY LenProperties
<1>2. Worth(c, s) = c + it[DOMAIN s]
  BY Zenon DEF Worth, FoldSeq, FoldFunction, FoldFunctionOnSet, MapThenFoldSet
<1>3. IsFiniteSet(D)
  BY <1>1, FS_Interval
<1>4. \A i \in D : w[i] \in Nat /\ w[i] = price[s[i]]
  BY <1>1 DEF BookTyped
<1> HIDE DEF D
<1>5. ASSUME NEW f, NEW S \in SUBSET D
      PROVE  Folded(w, S, f) = IF S = {} THEN 0
                               ELSE price[s[CHOOSE x \in S : TRUE]] + f[S \ {CHOOSE x \in S : TRUE}]
  <2>1. CASE S = {}
    BY <2>1 DEF Folded
  <2>2. CASE S # {}
    <3>1. Pick(S) \in D
      BY <2>2 DEF Pick
    <3>2. w[Pick(S)] = price[s[Pick(S)]]
      BY <1>4, <3>1
    <3> HIDE DEF w
    <3> QED BY <2>2, <3>2, Zenon DEF Folded, Pick
  <2> QED BY <2>1, <2>2
<1> HIDE DEF w
<1>6. PICK f : IsFold(f, w, D)
  BY <1>3, FoldExists
<1>7. IsFold(it, w, D)
  <2>1. \A g : [S \in SUBSET D |-> Folded(w, S, g)] =
               [S \in SUBSET D |-> IF S = {} THEN 0
                  ELSE price[s[CHOOSE x \in S : TRUE]] + g[S \ {CHOOSE x \in S : TRUE}]]
    BY <1>5
  <2>2. f = [S \in SUBSET D |-> IF S = {} THEN 0
               ELSE price[s[CHOOSE x \in S : TRUE]] + f[S \ {CHOOSE x \in S : TRUE}]]
    BY <1>6, <2>1 DEF IsFold
  <2>3. f = [S \in SUBSET (DOMAIN s) |-> IF S = {} THEN 0
               ELSE price[s[CHOOSE x \in S : TRUE]] + f[S \ {CHOOSE x \in S : TRUE}]]
    BY <1>1, <2>2
  <2>4. it = [S \in SUBSET (DOMAIN s) |-> IF S = {} THEN 0
               ELSE price[s[CHOOSE x \in S : TRUE]] + it[S \ {CHOOSE x \in S : TRUE}]]
    BY <2>3, Zenon
  <2> HIDE DEF it
  <2> QED BY <1>1, <2>1, <2>4 DEF IsFold
<1> HIDE DEF it
<1>8. \A S \in SUBSET D : it[S] \in Nat /\ \A x \in S : it[S] = w[x] + it[S \ {x}]
  <2>1. Weighed(w, D)
    BY <1>3, <1>4 DEF Weighed
  <2>2. InAnyOrder(it, w, D)
    BY <1>7, <2>1, FoldAnyOrder
  <2> QED BY <2>2 DEF InAnyOrder
<1> DEFINE tail == [k \in 1..(Len(s) + 1) |-> it[k..Len(s)]]
<1>9. \A k \in 1..(Len(s) + 1) : k..Len(s) \in SUBSET D /\ tail[k] = it[k..Len(s)]
  BY <1>1 DEF D
<1>10. \A k \in 1..Len(s) : k + 1 \in 1..(Len(s) + 1) /\ k \in 1..(Len(s) + 1)
  BY <1>1
<1>11. tail \in [1..(Len(s) + 1) -> Nat]
  BY <1>8, <1>9
<1> HIDE DEF tail
<1>12. tail[Len(s) + 1] = 0
  <2>1. (Len(s) + 1)..Len(s) = {} /\ Len(s) + 1 \in 1..(Len(s) + 1)
    BY <1>1
  <2> QED BY <1>7, <1>9, <2>1, FoldOfNone
<1>13. ASSUME NEW k \in 1..Len(s) PROVE tail[k] = price[s[k]] + tail[k + 1]
  <2>1. k \in k..Len(s) /\ (k..Len(s)) \ {k} = (k + 1)..Len(s) /\ k \in D
    BY <1>1 DEF D
  <2>2. it[k..Len(s)] = w[k] + it[(k..Len(s)) \ {k}]
    BY <1>8, <1>9, <1>10, <2>1
  <2> QED BY <1>4, <1>9, <1>10, <2>1, <2>2
<1>14. tail[1] = it[DOMAIN s]
  <2>1. 1 \in 1..(Len(s) + 1) /\ 1..Len(s) = DOMAIN s
    BY <1>1 DEF D
  <2> QED BY <1>9, <2>1
<1>15. IsTail(tail, s)
  BY <1>11, <1>12, <1>13 DEF IsTail
<1> QED BY <1>2, <1>14, <1>15

(* What is left of a valuation: nothing, when the array got shorter than the *)
(* iterator.                                                                 *)
Left(f, s, k) == IF k <= Len(s) THEN f[k] ELSE 0

LEMMA RemovedIndices ==
  ASSUME NEW T, NEW s \in Seq(T), NEW i \in 1..Len(s)
  PROVE  /\ Len(RemoveAt(s, i)) = Len(s) - 1
         /\ \A k \in 1..(Len(s) - 1) : RemoveAt(s, i)[k] = IF k < i THEN s[k] ELSE s[k + 1]
<1> DEFINE a == SubSeq(s, 1, i - 1)
           b == SubSeq(s, i + 1, Len(s))
<1>1. Len(s) \in Nat /\ \A k \in 1..Len(s) : s[k] \in T
  BY LenProperties
<1>2. a \in Seq(T) /\ Len(a) = i - 1 /\ \A k \in 1..(i - 1) : a[k] = s[k]
  <2>1. \A k \in 1..(i - 1) : s[k] \in T
    BY <1>1
  <2> QED BY <2>1, <1>1, SubSeqProperties
<1>3. b \in Seq(T) /\ Len(b) = Len(s) - i /\ \A k \in 1..(Len(s) - i) : b[k] = s[k + i]
  <2>1. \A k \in (i + 1)..Len(s) : s[k] \in T
    BY <1>1
  <2> QED BY <2>1, <1>1, SubSeqProperties
<1>4. RemoveAt(s, i) = a \o b
  BY DEF RemoveAt
<1> HIDE DEF a, b
<1>5. /\ Len(a \o b) = Len(a) + Len(b)
      /\ \A k \in 1..(Len(a) + Len(b)) : (a \o b)[k] = IF k <= Len(a) THEN a[k] ELSE b[k - Len(a)]
  BY <1>2, <1>3, ConcatProperties
<1>6. ASSUME NEW k \in 1..(Len(s) - 1)
      PROVE  (a \o b)[k] = IF k < i THEN s[k] ELSE s[k + 1]
  <2>1. CASE k < i
    BY <1>1, <1>2, <1>3, <1>5, <2>1
  <2>2. CASE k >= i
    <3>1. (a \o b)[k] = b[k - (i - 1)] /\ k - (i - 1) \in 1..(Len(s) - i)
      BY <1>1, <1>2, <1>3, <1>5, <2>2
    <3>2. (k - (i - 1)) + i = k + 1
      BY <1>1
    <3> QED BY <1>3, <2>2, <3>1, <3>2
  <2>3. k < i \/ k >= i
    BY <1>1
  <2> QED BY <2>1, <2>2, <2>3
<1> QED BY <1>1, <1>2, <1>3, <1>4, <1>5, <1>6

LEMMA NoLessThanItsPart == \A m, n \in Nat : n <= m + n
OBVIOUS

(* A sale leaves no more to be counted, wherever the iterator stands.        *)
LEMMA SaleLeavesLess ==
  ASSUME BookTyped, NEW s \in Seq(Token), NEW i \in 1..Len(s), NEW f, IsTail(f, s),
         NEW g, IsTail(g, RemoveAt(s, i))
  PROVE  \A k \in Nat \ {0} : Left(g, RemoveAt(s, i), k) <= Left(f, s, k)
<1> DEFINE r == RemoveAt(s, i)
           n == Len(s)
<1>1. /\ n \in Nat \ {0} /\ Len(r) = n - 1 /\ \A k \in 1..n : s[k] \in Token
      /\ \A k \in 1..(n - 1) : r[k] = IF k < i THEN s[k] ELSE s[k + 1]
  BY LenProperties, RemovedIndices
<1>2. /\ \A k \in 1..(n + 1) : f[k] \in Nat
      /\ f[n + 1] = 0 /\ \A k \in 1..n : f[k] = price[s[k]] + f[k + 1] /\ price[s[k]] \in Nat
  BY <1>1 DEF IsTail, BookTyped
<1>3. /\ \A k \in 1..n : g[k] \in Nat
      /\ g[n] = 0 /\ \A k \in 1..(n - 1) : g[k] = price[r[k]] + g[k + 1]
  <2>1. (n - 1) + 1 = n
    BY <1>1
  <2> QED BY <1>1, <2>1 DEF IsTail
<1> HIDE DEF r, n
<1> DEFINE Right(k) == /\ g[k] <= f[k]
                       /\ k >= i => g[k] = f[k + 1]
           Bad == {j \in 0..(n - 1) : ~Right(n - j)}
<1>4. i \in 1..n
  BY DEF n
<1>5. Bad = {}
  <2> SUFFICES ASSUME Bad # {} PROVE FALSE
    OBVIOUS
  <2>1. Bad \in SUBSET Nat
    OBVIOUS
  <2>2. PICK j \in Bad : \A m \in Bad : j <= m
    BY <2>1, LeastNat
  <2> DEFINE k == n - j
  <2>3. j \in 0..(n - 1) /\ ~Right(n - j)
    OBVIOUS
  <2>4. k \in 1..n /\ k + 1 \in 1..(n + 1) /\ k \in 1..(n + 1)
    BY <1>1, <2>3
  <2>5. CASE j = 0
    <3>1. g[n] = 0 /\ f[n + 1] = 0 /\ f[n] \in Nat /\ n - j = n
      BY <1>1, <1>2, <1>3, <2>5
    <3> QED BY <2>3, <3>1
  <2>6. CASE j # 0
    <3>1. j - 1 \in 0..(n - 1) /\ ~(j <= j - 1) /\ n - (j - 1) = k + 1
      BY <1>1, <2>3, <2>6
    <3>2. j - 1 \notin Bad
      BY <2>2, <3>1
    <3>3. Right(k + 1)
      BY <3>1, <3>2
    <3>4. k \in 1..(n - 1) /\ k + 1 \in 1..n /\ k + 2 \in 1..(n + 1)
      BY <1>1, <2>3, <2>6
    <3>5. /\ g[k] = price[r[k]] + g[k + 1]
          /\ f[k] = price[s[k]] + f[k + 1] /\ f[k + 1] = price[s[k + 1]] + f[k + 2]
          /\ price[s[k]] \in Nat /\ price[s[k + 1]] \in Nat
          /\ f[k] \in Nat /\ f[k + 1] \in Nat /\ f[k + 2] \in Nat /\ g[k + 1] \in Nat
      <4>1. (k + 1) + 1 = k + 2
        BY <3>4
      <4> QED BY <1>2, <1>3, <2>4, <3>4, <4>1
    <3>6. r[k] = IF k < i THEN s[k] ELSE s[k + 1]
      BY <1>1, <3>4
    <3>7. g[k + 1] <= f[k + 1] /\ (k + 1 >= i => g[k + 1] = f[k + 2])
      <4>1. (k + 1) + 1 = k + 2
        BY <3>4
      <4> QED BY <3>3, <4>1
    <3> HIDE DEF k
    <3>8. CASE k < i
      <4>0. r[k] = s[k]
        BY <3>6, <3>8
      <4>1. g[k] <= f[k]
        BY <3>5, <3>7, <4>0
      <4>2. ~(k >= i)
        BY <1>4, <3>4, <3>8
      <4> QED BY <2>3, <4>1, <4>2 DEF k
    <3>9. CASE k >= i
      <4>1. g[k + 1] = f[k + 2] /\ r[k] = s[k + 1]
        BY <1>4, <3>4, <3>6, <3>7, <3>9
      <4>2. g[k] = f[k + 1]
        <5>1. g[k] = price[s[k + 1]] + f[k + 2]
          BY <3>5, <4>1
        <5> QED BY <3>5, <5>1
      <4>3. f[k + 1] <= price[s[k]] + f[k + 1]
        BY <3>5, NoLessThanItsPart
      <4>4. g[k] <= f[k]
        BY <3>5, <4>2, <4>3, Zenon
      <4> QED BY <2>3, <4>2, <4>4 DEF k
    <3> QED BY <1>4, <3>4, <3>8, <3>9
  <2> QED BY <2>5, <2>6
<1>6. ASSUME NEW k \in 1..n PROVE g[k] <= f[k]
  <2>1. n - k \in 0..(n - 1) /\ n - (n - k) = k
    BY <1>1
  <2>2. Right(n - (n - k))
    BY <1>5, <2>1
  <2> QED BY <2>1, <2>2
<1>7. ASSUME NEW k \in Nat \ {0} PROVE Left(g, r, k) <= Left(f, s, k)
  <2>1. CASE k <= n - 1
    <3>1. k \in 1..n /\ k <= n
      BY <1>1, <2>1
    <3>2. Left(g, r, k) = g[k] /\ Left(f, s, k) = f[k]
      BY <1>1, <2>1, <3>1 DEF Left, n
    <3> QED BY <1>6, <3>1, <3>2
  <2>2. CASE ~(k <= n - 1)
    <3>1. Left(g, r, k) = 0
      BY <1>1, <2>2 DEF Left
    <3>2. Left(f, s, k) \in Nat
      BY <1>1, <1>2 DEF Left, n
    <3> QED BY <3>1, <3>2
  <2> QED BY <2>1, <2>2
<1> QED BY <1>7 DEF r

LEMMA LeftTyped ==
  ASSUME NEW s \in Seq(Token), NEW f, IsTail(f, s), NEW k \in Nat \ {0}
  PROVE  Left(f, s, k) \in Nat
<1>1. Len(s) \in Nat
  BY LenProperties
<1>2. k <= Len(s) => k \in 1..(Len(s) + 1)
  BY <1>1
<1> QED BY <1>2 DEF Left, IsTail

(* The inductive invariant: what has been counted, and what is still to be.  *)
Valuing ==
  /\ value \in Nat /\ worth \in Nat /\ value <= worth
  /\ place = "sleep" => value = 0
  /\ place = "valuing" => \E f : IsTail(f, open) /\ sum + Left(f, open, next) <= worth

LEMMA ValuingInit == Init => Valuing
BY DEF Init, Valuing

LEMMA ValuingStep ==
  ASSUME BookTyped, Valuing, [Next]_vars
  PROVE  Valuing'
<1>0. BookTyped'
  BY BookStep
<1>1. CASE WatchExit
  <2>1. PICK i \in DOMAIN open : open' = RemoveAt(open, i) /\ price' = price
          /\ UNCHANGED <<place, sum, next, value, worth>>
    BY <1>1 DEF WatchExit, pass, history
  <2>2. i \in 1..Len(open) /\ open \in Seq(Token) /\ open' \in Seq(Token)
    BY <1>0, LenProperties DEF BookTyped
  <2>3. ASSUME place = "valuing"
        PROVE  \E f : IsTail(f, open)' /\ sum' + Left(f, open', next') <= worth'
    <3>1. PICK f : IsTail(f, open) /\ sum + Left(f, open, next) <= worth
      BY <2>3 DEF Valuing
    <3>2. PICK g : IsTail(g, open')
      BY <2>2, WorthByTail
    <3>3. next \in Nat \ {0} /\ sum \in Nat /\ worth \in Nat
      BY <2>3 DEF BookTyped, Valuing
    <3>4. Left(g, open', next) <= Left(f, open, next)
      BY <2>1, <2>2, <3>1, <3>2, <3>3, SaleLeavesLess
    <3>5. Left(g, open', next) \in Nat /\ Left(f, open, next) \in Nat
      BY <2>2, <3>1, <3>2, <3>3, LeftTyped
    <3>6. sum + Left(g, open', next) <= worth
      BY <3>1, <3>3, <3>4, <3>5
    <3>7. IsTail(g, open)'
      BY <2>1, <3>2 DEF IsTail
    <3> QED BY <2>1, <3>6, <3>7
  <2> QED BY <2>1, <2>3 DEF Valuing
<1>2. CASE BeginValuation
  <2>1. /\ place' = "valuing" /\ sum' = cash /\ next' = 1 /\ worth' = Worth(cash, open)
        /\ UNCHANGED <<price, open, value>> /\ place = "sleep"
    BY <1>2 DEF BeginValuation, book, CashRead
  <2>2. PICK f : IsTail(f, open) /\ Worth(cash, open) = cash + f[1]
    BY WorthByTail DEF BookTyped
  <2>3. f[1] \in Nat /\ cash \in Nat /\ Len(open) \in Nat
    BY <2>2, LenProperties DEF IsTail, BookTyped
  <2>4. Left(f, open, 1) <= f[1] /\ Left(f, open, 1) \in Nat
    BY <2>3 DEF Left
  <2>5. worth' \in Nat /\ sum' + Left(f, open, 1) <= worth'
    BY <2>1, <2>2, <2>3, <2>4
  <2>6. value = 0
    BY <2>1 DEF Valuing
  <2>7. IsTail(f, open)'
    BY <2>1, <2>2 DEF IsTail
  <2> QED BY <2>1, <2>5, <2>6, <2>7 DEF Valuing
<1>3. CASE ValueNext
  <2>1. /\ place = "valuing" /\ next <= Len(open)
        /\ sum' = sum + price[open[next]] /\ next' = next + 1
        /\ UNCHANGED <<price, open, place, value, worth>>
    BY <1>3 DEF ValueNext, PriceOf, book, history
  <2>2. PICK f : IsTail(f, open) /\ sum + Left(f, open, next) <= worth
    BY <2>1 DEF Valuing
  <2>3. next \in 1..Len(open) /\ Len(open) \in Nat /\ sum \in Nat
    BY <2>1, LenProperties DEF BookTyped
  <2>4. f[next] = price[open[next]] + f[next + 1] /\ f[next + 1] \in Nat /\ price[open[next]] \in Nat
    BY <2>2, <2>3, LenProperties DEF IsTail, BookTyped
  <2>5. Left(f, open, next) = f[next] /\ Left(f, open, next + 1) = f[next + 1]
    BY <2>2, <2>3 DEF Left, IsTail
  <2>6. sum' + Left(f, open, next') <= worth
    BY <2>1, <2>2, <2>3, <2>4, <2>5
  <2>7. IsTail(f, open)'
    BY <2>1, <2>2 DEF IsTail
  <2> QED BY <2>1, <2>6, <2>7 DEF Valuing
<1>4. CASE Measure
  <2>1. /\ place = "valuing" /\ next > Len(open) /\ place' = "valued"
        /\ value' = sum + 0 /\ worth' = worth
    BY <1>4 DEF Measure, Total, CashRead
  <2>2. PICK f : sum + Left(f, open, next) <= worth
    BY <2>1 DEF Valuing
  <2>3. next \in Nat /\ Len(open) \in Nat /\ sum \in Nat
    BY LenProperties DEF BookTyped
  <2>4. Left(f, open, next) = 0
    BY <2>1, <2>3 DEF Left
  <2> QED BY <2>1, <2>2, <2>3, <2>4 DEF Valuing
<1>5. CASE MarketMoves \/ Enter
  <2>1. place = "sleep" /\ place' = "sleep" /\ UNCHANGED <<value, worth>>
    BY <1>5 DEF MarketMoves, Enter, pass, history
  <2> QED BY <2>1 DEF Valuing
<1>6. CASE NewDay
  <2>1. UNCHANGED <<price, open, place, sum, next, value, worth>>
    BY <1>6 DEF NewDay, book, pass
  <2> QED BY <2>1 DEF Valuing, IsTail
<1>7. CASE Restart
  BY <1>7 DEF Restart, Valuing
<1>8. CASE ReadRegime
  BY <1>8 DEF ReadRegime, Valuing
<1>9. CASE UNCHANGED vars
  <2>1. UNCHANGED <<price, open, place, sum, next, value, worth>>
    BY <1>9 DEF vars, book, pass, history
  <2> QED BY <2>1 DEF Valuing, IsTail
<1> QED BY <1>1, <1>2, <1>3, <1>4, <1>5, <1>6, <1>7, <1>8, <1>9 DEF Next

\* A valuation of worker.ts that awaits between its positions never says more
\* than the book was worth when it began: what the watch loop sells meanwhile
\* is counted as a position or not at all, and never as cash again.
THEOREM ValueIsNoMoreThanWorth == Spec => []ValueNeverOverstated
<1>1. BookTyped /\ Valuing /\ [Next]_vars => (BookTyped /\ Valuing)'
  BY BookStep, ValuingStep
<1>2. Valuing => ValueNeverOverstated
  BY DEF Valuing, ValueNeverOverstated
<1> QED BY <1>1, <1>2, BookInit, ValuingInit, PTL DEF Spec
=============================================================================
