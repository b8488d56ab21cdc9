--------------------------- MODULE Evidence_proofs ---------------------------
(***************************************************************************)
(* What the history of quotes may be taken for: what the entry-quality     *)
(* gates of the worker approve (EntryGates), and what the backtest and the *)
(* calibration report (HistoryEvidence), for every set of quotes, every    *)
(* length of a history and every threshold.  The naturals are well-founded *)
(* (LeastNat): from it follow the minimum of a window, the peak of a       *)
(* curve, and what a recursive function over a sequence computes           *)
(* (IterationExists), which is how the sums, the concatenations and the    *)
(* books of a run are reasoned about.                                      *)
(***************************************************************************)
EXTENDS EntryGates, HistoryEvidence, NaturalsInduction, WellFoundedInduction,
        SequenceTheorems, FiniteSetTheorems, TLAPS

Obs == [asOf : Nat, price : Nat \ {0}, volume : Nat, lead : Int, rank : Nat]

(* A history the worker can hold: typed, of newer and newer quotes, none     *)
(* newer than the one CMC serves.                                            *)
InOrder(h) ==
  /\ h \in Seq(Obs)
  /\ \A i, j \in 1..Len(h) : i < j => h[i].asOf < h[j].asOf
UpTo(h, n) == \A i \in 1..Len(h) : h[i].asOf <= n

GInv ==
  /\ feed \in Obs
  /\ InOrder(hist) /\ UpTo(hist, feed.asOf)
  /\ InOrder(disk) /\ UpTo(disk, feed.asOf)
  /\ place \in {"start", "gates"}
  /\ place = "gates" => hist # <<>>
  /\ LedTwice /\ NeverBuysTheVertical
-----------------------------------------------------------------------------
(* Sets of natural numbers. *)

(* Every non-empty set of naturals has a least member: what takes the place  *)
(* of an induction wherever one is needed.                                   *)
LEMMA LeastNat ==
  ASSUME NEW T \in SUBSET Nat, T # {}
  PROVE  \E m \in T : \A k \in T : m <= k
<1>1. PICK m \in T : \A y \in T : ~(<<y, m>> \in OpToRel(<, Nat))
  BY NatLessThanWellFounded, WFMin
<1>2. ASSUME NEW k \in T PROVE m <= k
  <2>1. ~(<<k, m>> \in OpToRel(<, Nat))
    BY <1>1
  <2>2. ~(k < m)
    BY <2>1 DEF OpToRel
  <2> QED BY <2>2
<1> QED BY <1>1, <1>2

LEMMA MinIsLeast ==
  ASSUME NEW T \in SUBSET Nat, T # {}
  PROVE  Min(T) \in T /\ \A k \in T : Min(T) <= k
<1>1. \E m \in T : \A k \in T : m =< k
  BY LeastNat
<1> QED BY <1>1 DEF Min

(* The heights of a finite row are bounded: the least length whose heights   *)
(* are not would have a bound one shorter, and one more height.              *)
LEMMA RowIsBounded ==
  ASSUME NEW n \in Nat, NEW f \in [1..n -> Nat]
  PROVE  \E b \in Nat : \A k \in 1..n : f[k] <= b
<1> DEFINE Bounded(i) == \E b \in Nat : \A k \in 1..i : f[k] <= b
           Bad == {i \in 0..n : ~Bounded(i)}
<1>1. Bounded(0)
  <2>1. \A k \in 1..0 : f[k] <= 0
    OBVIOUS
  <2> QED BY <2>1
<1>2. ASSUME NEW m \in 1..n, Bounded(m - 1) PROVE Bounded(m)
  <2>1. PICK b \in Nat : \A k \in 1..(m - 1) : f[k] <= b
    BY <1>2
  <2>2. f[m] \in Nat
    OBVIOUS
  <2>3. PICK c \in Nat : b <= c /\ f[m] <= c
    <3>1. CASE f[m] <= b BY <3>1, <2>2
    <3>2. CASE b <= f[m] BY <3>2, <2>2
    <3> QED BY <3>1, <3>2, <2>2
  <2>4. \A k \in 1..m : f[k] \in Nat /\ (k = m \/ k \in 1..(m - 1))
    OBVIOUS
  <2>5. \A k \in 1..m : f[k] <= c
    BY <2>1, <2>2, <2>3, <2>4
  <2> QED BY <2>5
<1> HIDE DEF Bounded
<1>3. SUFFICES ASSUME Bad # {} PROVE FALSE
  <2>1. Bad = {} => Bounded(n)
    OBVIOUS
  <2> QED BY <2>1 DEF Bounded
<1>4. Bad \in SUBSET Nat
  OBVIOUS
<1>5. PICK m \in Bad : \A k \in Bad : m <= k
  BY <1>3, <1>4, LeastNat
<1>6. m \in 0..n /\ ~Bounded(m)
  OBVIOUS
<1>7. m \in 1..n /\ m - 1 \in 0..n
  BY <1>1, <1>6
<1>8. m - 1 \notin Bad
  BY <1>5, <1>6
<1>9. Bounded(m - 1)
  BY <1>7, <1>8
<1> QED BY <1>2, <1>6, <1>7, <1>9

(* The least bound of a row is one of its heights. *)
LEMMA RowHasAPeak ==
  ASSUME NEW n \in Nat \ {0}, NEW f \in [1..n -> Nat]
  PROVE  \E p \in 1..n : \A k \in 1..n : f[k] <= f[p]
<1> DEFINE Bounds == {b \in Nat : \A k \in 1..n : f[k] <= b}
<1>1. Bounds # {}
  BY RowIsBounded
<1>2. PICK b \in Bounds : \A c \in Bounds : b <= c
  BY <1>1, LeastNat
<1>3. CASE b = 0
  <2>1. f[1] \in Nat /\ \A k \in 1..n : f[k] <= 0 BY <1>2, <1>3
  <2> QED BY <2>1, 1 \in 1..n
<1>4. CASE b # 0
  <2>1. b - 1 \in Nat /\ b - 1 \notin Bounds BY <1>2, <1>4
  <2>2. PICK p \in 1..n : ~(f[p] <= b - 1) BY <2>1
  <2>3. f[p] \in Nat BY <2>2
  <2>4. b \in Nat OBVIOUS
  <2>5. b <= f[p] BY <2>2, <2>3, <2>4
  <2>6. \A k \in 1..n : f[k] <= b OBVIOUS
  <2>7. \A k \in 1..n : f[k] \in Nat OBVIOUS
  <2> HIDE DEF Bounds
  <2>8. \A k \in 1..n : f[k] <= f[p] BY <2>3, <2>4, <2>5, <2>6, <2>7
  <2> QED BY <2>8
<1> QED BY <1>3, <1>4
-----------------------------------------------------------------------------
(* Windows of a history. *)

LEMMA LastNKeepsTheTail ==
  ASSUME NEW s \in Seq(Obs), NEW n \in Nat
  PROVE  /\ LastN(s, n) \in Seq(Obs)
         /\ \E d \in Nat : /\ Len(LastN(s, n)) = Len(s) - d
                           /\ \A i \in 1..Len(LastN(s, n)) : LastN(s, n)[i] = s[i + d]
         /\ s # <<>> /\ n > 0 => LastN(s, n) # <<>> /\ Last(LastN(s, n)) = Last(s)
<1>0. Len(s) \in Nat
  OBVIOUS
<1>1. CASE Len(s) <= n
  <2>1. LastN(s, n) = s
    BY <1>1 DEF LastN
  <2>2. Len(s) = Len(s) - 0 /\ \A i \in 1..Len(s) : s[i] = s[i + 0]
    BY <1>0
  <2> QED BY <2>1, <2>2
<1>2. CASE ~(Len(s) <= n)
  <2> DEFINE d == Len(s) - n
  <2>1. LastN(s, n) = SubSeq(s, d + 1, Len(s))
    BY <1>2 DEF LastN
  <2>2. d \in Nat /\ d + 1 \in 1..(Len(s) + 1) /\ Len(s) - d = n
    BY <1>0, <1>2
  <2> HIDE DEF d
  <2>3. /\ SubSeq(s, d + 1, Len(s)) \in Seq(Obs)
        /\ Len(SubSeq(s, d + 1, Len(s))) = n
        /\ \A i \in 1..n : SubSeq(s, d + 1, Len(s))[i] = s[i + d]
    BY <1>0, <2>2
  <2>4. n > 0 => n \in 1..n /\ n + d = Len(s)
    BY <2>2, <1>0
  <2>5. n > 0 => Last(SubSeq(s, d + 1, Len(s))) = Last(s)
    BY <2>3, <2>4 DEF Last
  <2> DEFINE w == SubSeq(s, d + 1, Len(s))
  <2>6. n > 0 => w # <<>>
    <3>1. Len(w) = n
      BY <2>3
    <3> HIDE DEF w
    <3> QED BY <3>1
  <2>7. Len(w) = Len(s) - d /\ \A i \in 1..Len(w) : w[i] = s[i + d]
    BY <2>2, <2>3
  <2>8. w \in Seq(Obs) /\ (n > 0 => Last(w) = Last(s)) /\ LastN(s, n) = w
    BY <2>1, <2>3, <2>5
  <2> HIDE DEF w
  <2> QED BY <2>2, <2>6, <2>7, <2>8
<1> QED BY <1>1, <1>2

(* A window of an ordered history is one. *)
LEMMA LastNKeepsOrder ==
  ASSUME NEW h, InOrder(h), NEW n \in Nat, NEW m \in Nat, UpTo(h, m)
  PROVE  InOrder(LastN(h, n)) /\ UpTo(LastN(h, n), m)
<1> DEFINE w == LastN(h, n)
<1>1. h \in Seq(Obs) /\ Len(h) \in Nat
  BY DEF InOrder
<1>2. PICK d \in Nat : Len(w) = Len(h) - d /\ \A i \in 1..Len(w) : w[i] = h[i + d]
  BY <1>1, LastNKeepsTheTail
<1>3. w \in Seq(Obs)
  BY <1>1, LastNKeepsTheTail
<1> HIDE DEF w
<1>4. \A i \in 1..Len(w) : i + d \in 1..Len(h)
  BY <1>1, <1>2, <1>3
<1>5. \A i, j \in 1..Len(w) : i < j => i + d < j + d
  BY <1>2
<1>6. InOrder(w) /\ UpTo(w, m)
  BY <1>2, <1>3, <1>4, <1>5 DEF InOrder, UpTo
<1> QED BY <1>6 DEF w

(* Recording the quote CMC serves keeps a history ordered, and the newest    *)
(* entry is the quote, or one of the same moment.                            *)
LEMMA RecordedKeepsOrder ==
  ASSUME NEW h, InOrder(h), NEW q \in Obs, UpTo(h, q.asOf)
  PROVE  /\ InOrder(Recorded(h, q)) /\ UpTo(Recorded(h, q), q.asOf)
         /\ Recorded(h, q) # <<>>
<1>1. h \in Seq(Obs) /\ Len(h) \in Nat /\ q.asOf \in Nat
  BY DEF InOrder, Obs
<1>2. CASE h # <<>> /\ Last(h).asOf = q.asOf
  BY <1>2 DEF Recorded
<1>3. CASE ~(h # <<>> /\ Last(h).asOf = q.asOf)
  <2> DEFINE a == Append(h, q)
  <2>1. a \in Seq(Obs) /\ Len(a) = Len(h) + 1 /\ a[Len(h) + 1] = q
        /\ \A i \in 1..Len(h) : a[i] = h[i]
    BY <1>1
  <2>2. \A i \in 1..Len(h) : h[i].asOf < q.asOf
    <3>1. CASE h = <<>>
      BY <3>1
    <3>2. CASE h # <<>>
      <4>1. Len(h) \in 1..Len(h) /\ h[Len(h)].asOf # q.asOf
        BY <3>2, <1>1, <1>3 DEF Last
      <4>2. \A i \in 1..Len(h) : h[i] \in Obs
        BY <1>1
      <4>3. h[Len(h)].asOf < q.asOf
        <5>1. h[Len(h)] \in Obs
          BY <4>1, <4>2
        <5>2. h[Len(h)].asOf \in Nat /\ h[Len(h)].asOf <= q.asOf
          BY <4>1, <5>1 DEF UpTo, Obs
        <5> QED BY <4>1, <5>2, <1>1
      <4>4. ASSUME NEW i \in 1..Len(h) PROVE h[i].asOf < q.asOf
        <5>1. i = Len(h) \/ h[i].asOf < h[Len(h)].asOf
          BY <1>1, <4>1 DEF InOrder
        <5>2. h[i].asOf \in Nat /\ h[Len(h)].asOf \in Nat
          BY <4>1, <4>2 DEF Obs
        <5> QED BY <5>1, <5>2, <4>3, <1>1
      <4> QED BY <4>4
    <3> QED BY <3>1, <3>2
  <2>3. \A i \in 1..Len(a) : i \in 1..Len(h) \/ i = Len(h) + 1
    BY <1>1, <2>1
  <2> HIDE DEF a
  <2>4. InOrder(a)
    <3>1. ASSUME NEW i \in 1..Len(a), NEW j \in 1..Len(a), i < j
          PROVE  a[i].asOf < a[j].asOf
      <4>1. i \in 1..Len(h) BY <2>1, <2>3, <3>1, <1>1
      <4>2. CASE j = Len(h) + 1 BY <4>1, <4>2, <2>1, <2>2
      <4>3. CASE j \in 1..Len(h)
        BY <4>1, <4>3, <3>1, <2>1 DEF InOrder
      <4> QED BY <4>2, <4>3, <2>3
    <3> QED BY <3>1, <2>1 DEF InOrder
  <2>5. UpTo(a, q.asOf)
    <3>1. ASSUME NEW i \in 1..Len(a) PROVE a[i].asOf <= q.asOf
      <4>1. CASE i \in 1..Len(h) BY <4>1, <2>1 DEF UpTo
      <4>2. CASE i = Len(h) + 1 BY <4>2, <2>1, <1>1
      <4> QED BY <4>1, <4>2, <2>3
    <3> QED BY <3>1 DEF UpTo
  <2>6. MaxLen \in Nat /\ MaxLen > 0
    BY GateAssumption
  <2>7. a # <<>>
    BY <2>1, <1>1
  <2>8. Recorded(h, q) = LastN(a, MaxLen)
    BY <1>3 DEF Recorded, AppendObservation, a
  <2>9. LastN(a, MaxLen) # <<>>
    BY <2>1, <2>6, <2>7, LastNKeepsTheTail
  <2> QED BY <2>4, <2>5, <2>6, <2>8, <2>9, <1>1, LastNKeepsOrder
<1> QED BY <1>2, <1>3
-----------------------------------------------------------------------------
(* What the gates see. *)

(* A relative-strength approval of a window rests on its last two quotes,    *)
(* which are two different entries of the history.                           *)
LEMMA ContinuationLedTwice ==
  ASSUME InOrder(hist), hist # <<>>, EvaluateRsContinuation(RecentObservations)
  PROVE  \E i, j \in 1..Len(hist) :
           /\ hist[i].asOf < hist[j].asOf /\ j = Len(hist)
           /\ hist[i].lead >= LeadMinBps /\ hist[j].lead >= LeadMinBps
<1> DEFINE w == RecentObservations
<1>1. hist \in Seq(Obs) /\ Len(hist) \in Nat /\ Window \in Nat
  BY GateAssumption DEF InOrder
<1>2. w \in Seq(Obs)
  BY <1>1, LastNKeepsTheTail DEF RecentObservations
<1>3. PICK d \in Nat : Len(w) = Len(hist) - d /\ \A i \in 1..Len(w) : w[i] = hist[i + d]
  BY <1>1, LastNKeepsTheTail DEF RecentObservations
<1>4. EvaluateRsContinuation(w)
  OBVIOUS
<1> HIDE DEF w
<1>5. Len(w) \in Nat /\ Len(w) >= 2 /\ w[Len(w) - 1].lead >= LeadMinBps /\ w[Len(w)].lead >= LeadMinBps
  BY <1>2, <1>4 DEF EvaluateRsContinuation
<1>6. Len(w) - 1 \in 1..Len(w) /\ Len(w) \in 1..Len(w)
      /\ Len(w) + d = Len(hist) /\ Len(w) - 1 + d = Len(hist) - 1
      /\ Len(hist) - 1 \in 1..Len(hist) /\ Len(hist) \in 1..Len(hist)
  BY <1>1, <1>3, <1>5
<1>7. w[Len(w) - 1] = hist[Len(hist) - 1] /\ w[Len(w)] = hist[Len(hist)]
  BY <1>3, <1>6
<1>8. hist[Len(hist) - 1].asOf < hist[Len(hist)].asOf
  BY <1>1, <1>6 DEF InOrder
<1> QED BY <1>5, <1>6, <1>7, <1>8

LEMMA PricesAreNat ==
  ASSUME NEW obs \in Seq(Obs), NEW i \in 1..Len(obs)
  PROVE  obs[i].price \in Nat
<1>1. obs[i] \in Obs
  OBVIOUS
<1> QED BY <1>1 DEF Obs

LEMMA BaseIsLowest ==
  ASSUME NEW obs \in Seq(Obs), NEW i \in 1..Len(obs)
  PROVE  /\ RunBaseUpTo(obs, i) \in Nat
         /\ \E k \in 1..i : RunBaseUpTo(obs, i) = obs[k].price
         /\ \A k \in 1..i : RunBaseUpTo(obs, i) <= obs[k].price
<1>1. \A k \in 1..i : obs[k].price \in Nat
  <2>1. \A k \in 1..i : k \in 1..Len(obs)
    OBVIOUS
  <2> QED BY <2>1, PricesAreNat
<1>2. PricesTo(obs, i) \in SUBSET Nat /\ obs[1].price \in PricesTo(obs, i)
  BY <1>1 DEF PricesTo
<1>3. RunBaseUpTo(obs, i) \in PricesTo(obs, i)
      /\ \A p \in PricesTo(obs, i) : RunBaseUpTo(obs, i) <= p
  BY <1>2, MinIsLeast DEF RunBaseUpTo
<1> QED BY <1>2, <1>3 DEF PricesTo

LEMMA HighestIsThere ==
  ASSUME NEW obs \in Seq(Obs), NEW n \in Nat, n = Len(obs), n > 0
  PROVE  Max(PricesTo(obs, n)) \in Nat
         /\ \A k \in 1..n : obs[k].price <= Max(PricesTo(obs, n))
<1> DEFINE f == [k \in 1..n |-> obs[k].price]
<1>1. \A k \in 1..n : obs[k].price \in Nat
  BY PricesAreNat
<1>2. PICK p \in 1..n : \A k \in 1..n : f[k] <= f[p]
  <2>1. f \in [1..n -> Nat] /\ n \in Nat \ {0}
    BY <1>1
  <2> HIDE DEF f
  <2> QED BY <2>1, RowHasAPeak
<1>3. /\ \A k \in 1..n : obs[k].price \in Nat
      /\ \A k \in 1..n : obs[k].price <= obs[p].price
  BY <1>1, <1>2
<1>4. obs[p].price \in PricesTo(obs, n) /\ \A y \in PricesTo(obs, n) : obs[p].price >= y
  BY <1>3 DEF PricesTo
<1>5. Max(PricesTo(obs, n)) \in PricesTo(obs, n)
      /\ \A y \in PricesTo(obs, n) : Max(PricesTo(obs, n)) >= y
  BY <1>4 DEF Max
<1>6. \A k \in 1..n : obs[k].price \in PricesTo(obs, n)
  BY DEF PricesTo
<1>7. PricesTo(obs, n) \subseteq Nat
  BY <1>3 DEF PricesTo
<1> QED BY <1>3, <1>5, <1>6, <1>7

LEMMA PeaksAreInside ==
  ASSUME NEW obs \in Seq(Obs), Peaks(obs) # {}
  PROVE  /\ Min(Peaks(obs)) \in 1..(Len(obs) - 1)
         /\ obs[Min(Peaks(obs)) + 1].price < obs[Min(Peaks(obs))].price
<1>1. Len(obs) \in Nat
  OBVIOUS
<1>2. Peaks(obs) \in SUBSET Nat
  BY <1>1 DEF Peaks
<1>3. Min(Peaks(obs)) \in Peaks(obs)
  BY <1>2, MinIsLeast
<1> QED BY <1>3 DEF Peaks

(* A smaller base only widens what the retracement allows. *)
LEMMA FloorFromALowerBase ==
  ASSUME NEW high \in Nat, NEW base \in Nat, NEW low \in Nat, low <= base, NEW r \in Nat
  PROVE  r * (high - low) >= r * (high - base)
<1>1. base - low \in Nat /\ high - low = (high - base) + (base - low)
  OBVIOUS
<1>2. r * (base - low) >= 0
  BY <1>1
<1>3. r * ((high - base) + (base - low)) = r * (high - base) + r * (base - low)
  OBVIOUS
<1> QED BY <1>1, <1>2, <1>3

LEMMA LowerFloor ==
  ASSUME NEW now \in Nat, NEW then \in Nat, NEW near \in Int, NEW far \in Int, far >= near,
         100 * now >= 100 * then - near
  PROVE  100 * now >= 100 * then - far
OBVIOUS

(* A catalyst approval of a window that ends a spike above its lowest price. *)
LEMMA CatalystWaited ==
  ASSUME NEW obs \in Seq(Obs), EvaluateCatalystEntry(obs), NEW low, low = RunBaseUpTo(obs, Len(obs)),
         IsSpike(Last(obs).price, low)
  PROVE  \E i \in 1..(Len(obs) - Cooldown) :
           /\ obs[i + 1].price < obs[i].price
           /\ \A k \in (i + 1)..Len(obs) :
                100 * obs[k].price >= 100 * obs[i].price - RetracePct * (obs[i].price - low)
<1>1. Len(obs) \in Nat /\ Len(obs) > 1 /\ NoFirstSpike(obs)
  <2>1. VolumeExpansion(obs) => Len(obs) > 1
    BY Zenon DEF VolumeExpansion
  <2> QED BY <2>1 DEF EvaluateCatalystEntry
<1>2. low \in Nat /\ \A k \in 1..Len(obs) : low <= obs[k].price
  BY <1>1, BaseIsLowest
<1>3. Peaks(obs) # {}
  <2> SUFFICES ASSUME Peaks(obs) = {} PROVE FALSE
    OBVIOUS
  <2> DEFINE top == Max(PricesTo(obs, Len(obs)))
  <2>1. top \in Nat /\ Last(obs).price <= top /\ Last(obs).price \in Nat
    <3>1. Len(obs) \in 1..Len(obs) /\ obs[Len(obs)] \in Obs
      BY <1>1
    <3>2. obs[Len(obs)].price \in Nat
      BY <3>1 DEF Obs
    <3> QED BY <1>1, <3>1, <3>2, HighestIsThere DEF Last
  <2>2. ~IsSpike(top, low)
    BY <1>1 DEF NoFirstSpike
  <2>3. SpikePct * low \in Int
    BY <1>2, GateAssumption
  <2>4. 100 * (Last(obs).price - low) >= SpikePct * low /\ ~(100 * (top - low) >= SpikePct * low)
    BY <2>2 DEF IsSpike
  <2> HIDE DEF top
  <2> QED BY <1>2, <2>1, <2>3, <2>4
<1> DEFINE p == Min(Peaks(obs))
<1>4. p \in 1..(Len(obs) - 1) /\ obs[p + 1].price < obs[p].price
  BY <1>3, PeaksAreInside
<1>5. HoldsTheBase(obs, p)
  BY <1>1, <1>3 DEF NoFirstSpike
<1> HIDE DEF p
<1> DEFINE base == RunBaseUpTo(obs, p)
<1>6. base \in Nat /\ low <= base
  <2>1. p \in 1..Len(obs)
    BY <1>1, <1>4
  <2>2. PICK k \in 1..p : base = obs[k].price
    BY <2>1, BaseIsLowest
  <2>3. k \in 1..Len(obs)
    BY <2>1, <1>1
  <2> QED BY <2>1, <2>2, <2>3, <1>2, BaseIsLowest
<1>7. obs[p].price \in Nat /\ \A k \in (p + 1)..Len(obs) : obs[k].price \in Nat
  <2>1. p \in 1..Len(obs) /\ \A k \in (p + 1)..Len(obs) : k \in 1..Len(obs)
    BY <1>1, <1>4
  <2> QED BY <2>1, PricesAreNat
<1>8. Len(obs) - p >= Cooldown
      /\ \A k \in (p + 1)..Len(obs) : 100 * obs[k].price >= 100 * obs[p].price - RetracePct * (obs[p].price - base)
  BY <1>5 DEF HoldsTheBase
<1> HIDE DEF base
<1>9. RetracePct \in Nat /\ Cooldown \in Nat
  BY GateAssumption
<1>10. RetracePct * (obs[p].price - low) >= RetracePct * (obs[p].price - base)
  BY <1>2, <1>6, <1>7, <1>9, FloorFromALowerBase
<1>11. RetracePct * (obs[p].price - low) \in Int /\ RetracePct * (obs[p].price - base) \in Int
  <2> DEFINE high == obs[p].price
  <2>1. high \in Nat /\ low \in Nat /\ base \in Nat
    BY <1>2, <1>6, <1>7
  <2> HIDE DEF high
  <2>2. high - low \in Int /\ high - base \in Int
    BY <2>1
  <2>3. \A x \in Int : RetracePct * x \in Int
    BY <1>9
  <2>4. RetracePct * (high - low) \in Int /\ RetracePct * (high - base) \in Int
    BY <2>2, <2>3
  <2> QED BY <2>4 DEF high
<1>12. ASSUME NEW k \in (p + 1)..Len(obs)
       PROVE  100 * obs[k].price >= 100 * obs[p].price - RetracePct * (obs[p].price - low)
  <2> DEFINE far == RetracePct * (obs[p].price - low)
             near == RetracePct * (obs[p].price - base)
  <2>1. far \in Int /\ near \in Int /\ far >= near
    BY <1>10, <1>11
  <2>2. 100 * obs[k].price >= 100 * obs[p].price - near
    BY <1>8
  <2> HIDE DEF far, near
  <2>3. obs[k].price \in Nat /\ obs[p].price \in Nat
    BY <1>7
  <2>4. 100 * obs[k].price >= 100 * obs[p].price - far
    BY <2>1, <2>2, <2>3, LowerFloor
  <2> QED BY <2>4 DEF far
<1>13. p \in 1..(Len(obs) - Cooldown)
  BY <1>1, <1>4, <1>8, <1>9
<1> QED BY <1>4, <1>12, <1>13
-----------------------------------------------------------------------------
(* The invariant. *)

LEMMA InitEstablishesGInv == Init => GInv
<1> SUFFICES ASSUME Init PROVE GInv
  OBVIOUS
<1>1. feed \in Obs
  BY GateAssumption DEF Init, QuotesAt, Obs
<1>2. InOrder(<<>>) /\ UpTo(<<>>, feed.asOf)
  BY DEF InOrder, UpTo
<1> QED BY <1>1, <1>2 DEF Init, GInv, LedTwice, NeverBuysTheVertical

(* A newer quote is newer than everything kept. *)
LEMMA PublishKeepsGInv == ASSUME GInv, Publish PROVE GInv'
<1>1. feed.asOf \in Nat /\ feed' \in Obs /\ feed'.asOf = feed.asOf + 1
  BY GateAssumption DEF GInv, Publish, QuotesAt, Obs
<1>2. ASSUME NEW h, InOrder(h), UpTo(h, feed.asOf) PROVE UpTo(h, feed'.asOf)
  <2>1. h \in Seq(Obs) /\ \A i \in 1..Len(h) : h[i] \in Obs
    BY <1>2 DEF InOrder
  <2>2. \A i \in 1..Len(h) : h[i].asOf \in Nat
    BY <2>1 DEF Obs
  <2> QED BY <1>1, <1>2, <2>2 DEF UpTo
<1>3. LedTwice' /\ NeverBuysTheVertical'
  BY DEF GInv, Publish, LedTwice, NeverBuysTheVertical, RecentObservations
<1> QED BY <1>1, <1>2, <1>3 DEF GInv, Publish

LEMMA ObserveKeepsGInv == ASSUME GInv, Observe PROVE GInv'
<1>1. InOrder(hist') /\ UpTo(hist', feed.asOf) /\ hist' # <<>>
  BY RecordedKeepsOrder DEF GInv, Observe
<1>2. disk' \in {disk, hist'} /\ place' \in {"start", "gates"} /\ feed' = feed /\ entered' = {}
  BY DEF GInv, Observe
<1>3. LedTwice' /\ NeverBuysTheVertical'
  BY <1>2 DEF LedTwice, NeverBuysTheVertical
<1> QED BY <1>1, <1>2, <1>3 DEF GInv

LEMMA EvaluateKeepsGInv == ASSUME GInv, Evaluate PROVE GInv'
<1>1. InOrder(hist) /\ hist # <<>> /\ hist' = hist /\ disk' = disk /\ feed' = feed /\ place' = "start"
  BY DEF GInv, Evaluate
<1>2. \A f \in entered' : Approves(f, RecentObservations)
  BY DEF Evaluate
<1>3. LedTwice'
  <2> SUFFICES ASSUME "rs_continuation" \in entered'
               PROVE  \E i, j \in 1..Len(hist) :
                        /\ hist[i].asOf < hist[j].asOf /\ j = Len(hist)
                        /\ hist[i].lead >= LeadMinBps /\ hist[j].lead >= LeadMinBps
    BY <1>1 DEF LedTwice
  <2>1. EvaluateRsContinuation(RecentObservations)
    BY <1>2 DEF Approves
  <2> QED BY <1>1, <2>1, ContinuationLedTwice
<1>4. NeverBuysTheVertical'
  <2> DEFINE obs == RecentObservations
             low == RunBaseUpTo(obs, Len(obs))
  <2>1. obs \in Seq(Obs)
    BY <1>1, GateAssumption, LastNKeepsTheTail DEF InOrder, RecentObservations
  <2>2. RecentObservations' = obs
    BY <1>1 DEF RecentObservations
  <2>3. "catalyst" \in entered' => EvaluateCatalystEntry(obs)
    BY <1>2 DEF Approves
  <2> HIDE DEF obs
  <2>4. "catalyst" \in entered' /\ IsSpike(Last(obs).price, low) =>
         \E i \in 1..(Len(obs) - Cooldown) :
           /\ obs[i + 1].price < obs[i].price
           /\ \A k \in (i + 1)..Len(obs) :
                100 * obs[k].price >= 100 * obs[i].price - RetracePct * (obs[i].price - low)
    BY <2>1, <2>3, CatalystWaited
  <2> QED BY <2>2, <2>4 DEF NeverBuysTheVertical
<1> QED BY <1>1, <1>3, <1>4 DEF GInv

LEMMA RestartKeepsGInv == ASSUME GInv, Restart PROVE GInv'
<1>1. hist' = disk /\ disk' = disk /\ feed' = feed /\ place' = "start" /\ entered' = {}
  BY DEF Restart
<1>2. LedTwice' /\ NeverBuysTheVertical'
  BY <1>1 DEF LedTwice, NeverBuysTheVertical
<1> QED BY <1>1, <1>2 DEF GInv

LEMMA GInvIsInvariant == Spec => []GInv
<1>1. GInv /\ [Next]_vars => GInv'
  <2> SUFFICES ASSUME GInv, [Next]_vars PROVE GInv'
    OBVIOUS
  <2>1. CASE UNCHANGED vars
    BY <2>1 DEF GInv, vars, LedTwice, NeverBuysTheVertical, RecentObservations
  <2> QED BY <2>1, PublishKeepsGInv, ObserveKeepsGInv, EvaluateKeepsGInv, RestartKeepsGInv DEF Next
<1> QED BY <1>1, InitEstablishesGInv, PTL DEF Spec
-----------------------------------------------------------------------------
(* An approval of rs_continuation stands on two quotes of different moments  *)
(* that both led BNB, the newest of them the last one kept: whatever CMC     *)
(* serves again, and wherever the worker restarts (worker.ts, the recording  *)
(* of a cycle, and rsContinuation.ts).                                       *)
THEOREM ContinuationLeadsTwice == Spec => []LedTwice
<1>1. GInv => LedTwice
  BY DEF GInv
<1> QED BY <1>1, GInvIsInvariant, PTL

(* A catalyst approved on a price a spike above the lowest of the window     *)
(* follows a pullback at least the cooldown old, and no price since was      *)
(* below the floor of the retracement (catalystEntry.ts).                    *)
THEOREM CatalystNeverBuysTheVertical == Spec => []NeverBuysTheVertical
<1>1. GInv => NeverBuysTheVertical
  BY DEF GInv
<1> QED BY <1>1, GInvIsInvariant, PTL
-----------------------------------------------------------------------------
(* Iterations: what a recursive function over a range of numbers is.         *)

(* A set that has the first number of a range and goes from every number to  *)
(* the next has the whole range.                                             *)
LEMMA Climbs ==
  ASSUME NEW a \in Nat, NEW b \in Nat, NEW T, a \in T,
         \A n \in (a + 1)..b : n - 1 \in T => n \in T
  PROVE  \A n \in a..b : n \in T
<1> DEFINE Bad == {n \in a..b : n \notin T}
<1> SUFFICES ASSUME Bad # {} PROVE FALSE
  OBVIOUS
<1>1. Bad \in SUBSET Nat
  OBVIOUS
<1>2. PICK m \in Bad : \A k \in Bad : m <= k
  BY <1>1, LeastNat
<1>3. m \in (a + 1)..b /\ m - 1 \in a..b /\ ~(m <= m - 1)
  OBVIOUS
<1>4. m - 1 \in T
  BY <1>2, <1>3
<1> QED BY <1>3, <1>4

(* What a step makes of a value: a function of the position and the value.   *)
Iterates(f, a, b, base, step) ==
  /\ f = [n \in a..b |-> f[n]]
  /\ f[a] = base
  /\ \A n \in (a + 1)..b : f[n] = step[<<n, f[n - 1]>>]
Within(f, a, b, X) == \A n \in a..b : f[n] \in X[n]

(* If the steps lead from the values a position may have to the values of    *)
(* the next, there is an iteration, and it stays within them.                *)
LEMMA IterationExists ==
  ASSUME NEW a \in Nat, NEW b \in Nat, a <= b, NEW X, NEW step, NEW base, base \in X[a],
         \A n \in (a + 1)..b : \A x \in X[n - 1] : step[<<n, x>>] \in X[n]
  PROVE  \E f : Iterates(f, a, b, base, step) /\ Within(f, a, b, X)
<1> DEFINE T == {k \in a..b : \E f : Iterates(f, a, k, base, step) /\ Within(f, a, k, X)}
<1>1. a \in T
  <2> DEFINE f == [n \in a..a |-> base]
  <2>1. f = [n \in a..a |-> f[n]] /\ f[a] = base /\ (a + 1)..a = {} /\ a \in a..b
    OBVIOUS
  <2>2. \A n \in a..a : n = a
    OBVIOUS
  <2> HIDE DEF f
  <2>3. Iterates(f, a, a, base, step) /\ Within(f, a, a, X)
    BY <2>1, <2>2 DEF Iterates, Within
  <2> QED BY <2>1, <2>3
<1>2. ASSUME NEW k \in (a + 1)..b, k - 1 \in T PROVE k \in T
  <2>1. PICK f : Iterates(f, a, k - 1, base, step) /\ Within(f, a, k - 1, X)
    BY <1>2
  <2> DEFINE h == [n \in a..k |-> IF n = k THEN step[<<k, f[k - 1]>>] ELSE f[n]]
  <2>2. k \in a..b /\ a \in a..k /\ a # k /\ k - 1 \in a..(k - 1) /\ k \in a..k
    OBVIOUS
  <2>3. \A n \in a..(k - 1) : n \in a..k /\ n # k /\ h[n] = f[n]
    OBVIOUS
  <2>4. h = [n \in a..k |-> h[n]] /\ h[k] = step[<<k, f[k - 1]>>] /\ h[a] = f[a]
    BY <2>2
  <2> HIDE DEF h
  <2>5. f[a] = base /\ \A n \in (a + 1)..(k - 1) : f[n] = step[<<n, f[n - 1]>>]
    BY <2>1 DEF Iterates
  <2>6. ASSUME NEW n \in (a + 1)..k PROVE h[n] = step[<<n, h[n - 1]>>]
    <3>1. n - 1 \in a..(k - 1)
      OBVIOUS
    <3>2. h[n - 1] = f[n - 1]
      BY <2>3, <3>1
    <3>3. CASE n = k
      BY <2>4, <3>2, <3>3
    <3>4. CASE n # k
      <4>1. n \in (a + 1)..(k - 1) /\ n \in a..(k - 1)
        BY <3>4
      <4> QED BY <2>3, <2>5, <3>2, <4>1
    <3> QED BY <3>3, <3>4
  <2>7. Iterates(h, a, k, base, step)
    BY <2>4, <2>5, <2>6 DEF Iterates
  <2>8. \A n \in a..(k - 1) : f[n] \in X[n]
    BY <2>1 DEF Within
  <2>9. h[k] \in X[k]
    <3>1. f[k - 1] \in X[k - 1]
      BY <2>2, <2>8
    <3> QED BY <2>4, <3>1
  <2>10. \A n \in a..k : n = k \/ n \in a..(k - 1)
    OBVIOUS
  <2>11. Within(h, a, k, X)
    BY <2>3, <2>8, <2>9, <2>10 DEF Within
  <2> QED BY <2>2, <2>7, <2>11
<1>3. b \in a..b
  OBVIOUS
<1> HIDE DEF T
<1>4. b \in T
  BY <1>1, <1>2, <1>3, Climbs
<1> QED BY <1>4 DEF T

-----------------------------------------------------------------------------
(* Sums. *)

NextSum(xs, n, sum) == IF n = 0 THEN 0 ELSE sum[n - 1] + xs[n]
IsSum(sum, xs) == sum = [n \in 0..Len(xs) |-> NextSum(xs, n, sum)]

LEMMA SumExists ==
  ASSUME NEW xs \in Seq(Int)
  PROVE  \E f : IsSum(f, xs) /\ \A n \in 0..Len(xs) : f[n] \in Int
<1> DEFINE add == [q \in (1..Len(xs)) \X Int |-> q[2] + xs[q[1]]]
           ints == [n \in 0..Len(xs) |-> Int]
<1>1. Len(xs) \in Nat /\ 0 <= Len(xs) /\ 0 \in ints[0] /\ 0 + 1 = 1 /\ 0 \in Nat
  OBVIOUS
<1>2. \A n \in 1..Len(xs) : \A x \in Int : add[<<n, x>>] = x + xs[n]
  OBVIOUS
<1>3. \A n \in 1..Len(xs) : n - 1 \in 0..Len(xs) /\ n \in 0..Len(xs) /\ xs[n] \in Int
  OBVIOUS
<1>4. \A n \in 0..Len(xs) : ints[n] = Int
  OBVIOUS
<1> HIDE DEF add, ints
<1>5. \A n \in (0 + 1)..Len(xs) : \A x \in ints[n - 1] : add[<<n, x>>] \in ints[n]
  <2> SUFFICES ASSUME NEW n \in (0 + 1)..Len(xs), NEW x \in ints[n - 1] PROVE add[<<n, x>>] \in ints[n]
    OBVIOUS
  <2>1. n \in 1..Len(xs) /\ n - 1 \in 0..Len(xs) /\ n \in 0..Len(xs) /\ xs[n] \in Int
    OBVIOUS
  <2>2. x \in Int /\ ints[n] = Int
    BY <1>4, <2>1
  <2>3. add[<<n, x>>] = x + xs[n]
    BY <1>2, <2>1, <2>2
  <2> QED BY <2>1, <2>2, <2>3
<1>6. PICK f : Iterates(f, 0, Len(xs), 0, add) /\ Within(f, 0, Len(xs), ints)
  BY <1>1, <1>5, IterationExists
<1>7. \A n \in 0..Len(xs) : f[n] \in Int
  BY <1>4, <1>6 DEF Within
<1>8. \A n \in 0..Len(xs) : f[n] = NextSum(xs, n, f)
  <2> SUFFICES ASSUME NEW n \in 0..Len(xs) PROVE f[n] = NextSum(xs, n, f)
    OBVIOUS
  <2>1. CASE n = 0
    BY <1>6, <2>1 DEF Iterates, NextSum
  <2>2. CASE n # 0
    <3>1. n \in 1..Len(xs) /\ n \in (0 + 1)..Len(xs)
      BY <2>2
    <3>2. f[n] = add[<<n, f[n - 1]>>] /\ f[n - 1] \in Int
      BY <1>3, <1>6, <1>7, <3>1 DEF Iterates
    <3> QED BY <1>2, <2>2, <3>1, <3>2 DEF NextSum
  <2> QED BY <2>1, <2>2
<1>9. f = [n \in 0..Len(xs) |-> f[n]]
  BY <1>6 DEF Iterates
<1>10. f = [n \in 0..Len(xs) |-> NextSum(xs, n, f)]
  BY <1>8, <1>9
<1> QED BY <1>7, <1>10 DEF IsSum

LEMMA SumsAgree ==
  ASSUME NEW xs, NEW ys, NEW f, NEW g, IsSum(f, xs), IsSum(g, ys), Len(xs) \in Nat, Len(ys) \in Nat,
         Len(xs) <= Len(ys), \A n \in 1..Len(xs) : xs[n] = ys[n]
  PROVE  \A n \in 0..Len(xs) : f[n] = g[n]
<1> DEFINE T == {n \in 0..Len(xs) : f[n] = g[n]}
<1>1. \A n \in 0..Len(xs) : f[n] = NextSum(xs, n, f)
  BY DEF IsSum
<1>2. \A n \in 0..Len(ys) : g[n] = NextSum(ys, n, g)
  BY DEF IsSum
<1>3. \A n \in 0..Len(xs) : n \in 0..Len(ys)
  OBVIOUS
<1>4. 0 \in T
  BY <1>1, <1>2, <1>3 DEF NextSum
<1>5. ASSUME NEW n \in (0 + 1)..Len(xs), n - 1 \in T PROVE n \in T
  <2>1. n \in 0..Len(xs) /\ n \in 1..Len(xs) /\ n # 0 /\ f[n - 1] = g[n - 1]
    BY <1>5
  <2>2. f[n] = f[n - 1] + xs[n] /\ g[n] = g[n - 1] + ys[n]
    BY <1>1, <1>2, <1>3, <2>1 DEF NextSum
  <2> QED BY <2>1, <2>2
<1> HIDE DEF T
<1>6. \A n \in 0..Len(xs) : n \in T
  BY <1>4, <1>5, Climbs
<1> QED BY <1>6 DEF T

LEMMA SumIs ==
  ASSUME NEW xs \in Seq(Int)
  PROVE  \E f : /\ IsSum(f, xs) /\ SumOf(xs) = f[Len(xs)]
                /\ \A n \in 0..Len(xs) : f[n] \in Int
<1> DEFINE it == CHOOSE it : it = [n \in 0..Len(xs) |-> IF n = 0 THEN 0 ELSE it[n - 1] + xs[n]]
<1>1. SumOf(xs) = it[Len(xs)]
  BY Zenon DEF SumOf
<1>2. PICK f : IsSum(f, xs) /\ \A n \in 0..Len(xs) : f[n] \in Int
  BY SumExists
<1>3. IsSum(it, xs)
  <2>1. f = [n \in 0..Len(xs) |-> IF n = 0 THEN 0 ELSE f[n - 1] + xs[n]]
    BY <1>2, Zenon DEF IsSum, NextSum
  <2>2. it = [n \in 0..Len(xs) |-> IF n = 0 THEN 0 ELSE it[n - 1] + xs[n]]
    BY <2>1, Zenon
  <2> HIDE DEF it
  <2> QED BY <2>2, Zenon DEF IsSum, NextSum
<1> HIDE DEF it
<1>4. Len(xs) \in Nat
  OBVIOUS
<1>5. \A n \in 0..Len(xs) : it[n] = f[n]
  BY <1>2, <1>3, <1>4, SumsAgree
<1> QED BY <1>1, <1>2, <1>3, <1>5

LEMMA SumTyped == ASSUME NEW xs \in Seq(Int) PROVE SumOf(xs) \in Int
<1>1. Len(xs) \in 0..Len(xs)
  OBVIOUS
<1> QED BY <1>1, SumIs

LEMMA SumOfNone == SumOf(<<>>) = 0
<1>0. <<>> \in Seq(Int)
  OBVIOUS
<1>1. PICK f : IsSum(f, <<>>) /\ SumOf(<<>>) = f[Len(<<>>)]
  BY <1>0, SumIs
<1>2. Len(<<>>) = 0 /\ 0 \in 0..Len(<<>>)
  OBVIOUS
<1>3. f[0] = NextSum(<<>>, 0, f)
  BY <1>1, <1>2 DEF IsSum
<1> QED BY <1>1, <1>2, <1>3 DEF NextSum

LEMMA SumOfAppended ==
  ASSUME NEW xs \in Seq(Int), NEW x \in Int
  PROVE  SumOf(Append(xs, x)) = SumOf(xs) + x
<1> DEFINE ys == Append(xs, x)
<1>1. ys \in Seq(Int) /\ Len(ys) = Len(xs) + 1 /\ Len(xs) \in Nat /\ ys[Len(xs) + 1] = x
      /\ \A n \in 1..Len(xs) : xs[n] = ys[n]
  OBVIOUS
<1> HIDE DEF ys
<1>2. PICK f : IsSum(f, xs) /\ SumOf(xs) = f[Len(xs)]
  BY SumIs
<1>3. PICK g : IsSum(g, ys) /\ SumOf(ys) = g[Len(ys)]
  BY <1>1, SumIs
<1>4. Len(ys) \in Nat /\ Len(xs) <= Len(ys) /\ Len(xs) \in 0..Len(xs) /\ Len(ys) \in 0..Len(ys)
      /\ Len(ys) # 0 /\ Len(ys) - 1 = Len(xs)
  BY <1>1
<1>5. f[Len(xs)] = g[Len(xs)]
  BY <1>1, <1>2, <1>3, <1>4, SumsAgree
<1>6. g[Len(ys)] = NextSum(ys, Len(ys), g)
  BY <1>3, <1>4 DEF IsSum
<1>7. g[Len(ys)] = g[Len(xs)] + x
  BY <1>1, <1>4, <1>6 DEF NextSum
<1> QED BY <1>2, <1>3, <1>5, <1>7 DEF ys

LEMMA SumOfOne == ASSUME NEW x \in Int PROVE SumOf(<<x>>) = x
<1>1. <<>> \in Seq(Int) /\ Append(<<>>, x) = <<x>>
  OBVIOUS
<1>2. SumOf(<<x>>) = 0 + x
  BY <1>1, SumOfAppended, SumOfNone
<1> QED BY <1>2
-----------------------------------------------------------------------------
(* Concatenations. *)

NextJoined(seqs, n, f) == IF n = 1 THEN seqs[n] ELSE f[n - 1] \o seqs[n]
IsJoined(f, seqs) == f = [n \in 1..Len(seqs) |-> NextJoined(seqs, n, f)]

LEMMA JoinedTyped ==
  ASSUME NEW S, NEW seqs \in Seq(Seq(S)), NEW f, IsJoined(f, seqs)
  PROVE  \A n \in 1..Len(seqs) : f[n] \in Seq(S)
<1> DEFINE T == {n \in 1..Len(seqs) : f[n] \in Seq(S)}
<1> SUFFICES ASSUME NEW m \in 1..Len(seqs) PROVE f[m] \in Seq(S)
  OBVIOUS
<1>1. Len(seqs) \in Nat /\ 1 \in Nat /\ 1 \in 1..Len(seqs) /\ \A n \in 1..Len(seqs) : seqs[n] \in Seq(S)
  OBVIOUS
<1>2. \A n \in 1..Len(seqs) : f[n] = NextJoined(seqs, n, f)
  BY DEF IsJoined
<1>3. 1 \in T
  BY <1>1, <1>2 DEF NextJoined
<1>4. ASSUME NEW n \in (1 + 1)..Len(seqs), n - 1 \in T PROVE n \in T
  <2>1. n \in 1..Len(seqs) /\ n # 1 /\ f[n - 1] \in Seq(S)
    BY <1>4
  <2>2. f[n] = f[n - 1] \o seqs[n] /\ seqs[n] \in Seq(S)
    BY <1>1, <1>2, <2>1 DEF NextJoined
  <2> HIDE DEF T
  <2>3. f[n] \in Seq(S)
    BY <2>1, <2>2
  <2> QED BY <2>1, <2>3 DEF T
<1> HIDE DEF T
<1>5. \A n \in 1..Len(seqs) : n \in T
  BY <1>1, <1>3, <1>4, Climbs
<1> QED BY <1>5 DEF T

LEMMA JoinedExists ==
  ASSUME NEW S, NEW seqs \in Seq(Seq(S)), Len(seqs) # 0
  PROVE  \E f : IsJoined(f, seqs)
<1> DEFINE join == [q \in (1..Len(seqs)) \X Seq(S) |-> q[2] \o seqs[q[1]]]
           lists == [n \in 1..Len(seqs) |-> Seq(S)]
<1>1. /\ Len(seqs) \in Nat /\ 1 \in Nat /\ 1 <= Len(seqs) /\ 1 \in 1..Len(seqs)
      /\ \A n \in 1..Len(seqs) : seqs[n] \in Seq(S)
  OBVIOUS
<1>2. \A n \in 1..Len(seqs) : \A x \in Seq(S) : join[<<n, x>>] = x \o seqs[n]
  OBVIOUS
<1>3. \A n \in 1..Len(seqs) : lists[n] = Seq(S)
  OBVIOUS
<1> HIDE DEF join, lists
<1>4. \A n \in (1 + 1)..Len(seqs) : \A x \in lists[n - 1] : join[<<n, x>>] \in lists[n]
  <2> SUFFICES ASSUME NEW n \in (1 + 1)..Len(seqs), NEW x \in lists[n - 1]
               PROVE  join[<<n, x>>] \in lists[n]
    OBVIOUS
  <2>1. n \in 1..Len(seqs) /\ n - 1 \in 1..Len(seqs)
    OBVIOUS
  <2>2. x \in Seq(S) /\ lists[n] = Seq(S) /\ seqs[n] \in Seq(S)
    BY <1>1, <1>3, <2>1
  <2>3. join[<<n, x>>] = x \o seqs[n]
    BY <1>2, <2>1, <2>2
  <2> QED BY <2>2, <2>3
<1>5. seqs[1] \in lists[1]
  BY <1>1, <1>3
<1>6. PICK f : Iterates(f, 1, Len(seqs), seqs[1], join) /\ Within(f, 1, Len(seqs), lists)
  BY <1>1, <1>4, <1>5, IterationExists
<1>7. \A n \in 1..Len(seqs) : f[n] = NextJoined(seqs, n, f)
  <2> SUFFICES ASSUME NEW n \in 1..Len(seqs) PROVE f[n] = NextJoined(seqs, n, f)
    OBVIOUS
  <2>1. CASE n = 1
    BY <1>6, <2>1 DEF Iterates, NextJoined
  <2>2. CASE n # 1
    <3>1. n \in (1 + 1)..Len(seqs) /\ n - 1 \in 1..Len(seqs)
      BY <2>2
    <3>2. f[n] = join[<<n, f[n - 1]>>] /\ f[n - 1] \in Seq(S)
      BY <1>3, <1>6, <3>1 DEF Iterates, Within
    <3> QED BY <1>2, <2>2, <3>2 DEF NextJoined
  <2> QED BY <2>1, <2>2
<1>8. f = [n \in 1..Len(seqs) |-> f[n]]
  BY <1>6 DEF Iterates
<1>9. f = [n \in 1..Len(seqs) |-> NextJoined(seqs, n, f)]
  BY <1>7, <1>8
<1> QED BY <1>9 DEF IsJoined

LEMMA FlattenTyped ==
  ASSUME NEW S, NEW seqs \in Seq(Seq(S))
  PROVE  FlattenSeq(seqs) \in Seq(S)
<1>1. CASE Len(seqs) = 0
  <2>1. seqs = <<>>
    BY <1>1
  <2>2. FlattenSeq(seqs) = seqs
    BY <1>1, Zenon DEF FlattenSeq
  <2>3. <<>> \in Seq(S)
    OBVIOUS
  <2> QED BY <2>1, <2>2, <2>3
<1>2. CASE Len(seqs) # 0
  <2> DEFINE it == CHOOSE it : it = [i \in 1..Len(seqs) |-> IF i = 1 THEN seqs[i] ELSE it[i - 1] \o seqs[i]]
  <2>1. FlattenSeq(seqs) = it[Len(seqs)]
    BY <1>2, Zenon DEF FlattenSeq
  <2>2. PICK f : IsJoined(f, seqs)
    BY <1>2, JoinedExists
  <2>3. IsJoined(it, seqs)
    <3>1. f = [i \in 1..Len(seqs) |-> IF i = 1 THEN seqs[i] ELSE f[i - 1] \o seqs[i]]
      BY <2>2, Zenon DEF IsJoined, NextJoined
    <3>2. it = [i \in 1..Len(seqs) |-> IF i = 1 THEN seqs[i] ELSE it[i - 1] \o seqs[i]]
      BY <3>1, Zenon
    <3> HIDE DEF it
    <3> QED BY <3>2, Zenon DEF IsJoined, NextJoined
  <2> HIDE DEF it
  <2>4. Len(seqs) \in 1..Len(seqs)
    BY <1>2
  <2> QED BY <2>1, <2>3, <2>4, JoinedTyped
<1> QED BY <1>1, <1>2
-----------------------------------------------------------------------------
(* The history.                                                              *)

(* A quote with the number of its day. *)
Bars ==
  [day : Nat, price : Nat \ {0}, change : Int, change1h : Int, volume : Nat,
   atrBps : {a \in Nat : (Sleeve.stopAtrTenths * a) \div 10 > 0}]

(* Bars of days that have been, each of a later day than the one before.     *)
Dated(bars, n) ==
  /\ \A i \in 1..Len(bars) : bars[i].day <= n
  /\ \A i, j \in 1..Len(bars) : i < j => bars[i].day < bars[j].day

Series(bars, n) == bars \in Seq(Bars) /\ Dated(bars, n)

HInv == today \in Nat /\ Series(token, today) /\ Series(bnb, today)

LEMMA BarTyped ==
  ASSUME NEW n \in Nat, NEW d \in Quoted
  PROVE  Bar(n, d) \in Bars /\ Bar(n, d).day = n
BY DEF Bar, Quoted, Bars

LEMMA DaysAre == ASSUME NEW bars \in Seq(Bars), NEW i \in 1..Len(bars) PROVE bars[i].day \in Nat
<1>1. bars[i] \in Bars
  OBVIOUS
<1> QED BY <1>1 DEF Bars

LEMMA StillDated == ASSUME NEW bars, NEW n \in Nat, Series(bars, n) PROVE Series(bars, n + 1)
<1>1. \A i \in 1..Len(bars) : bars[i].day \in Nat
  BY DaysAre DEF Series
<1> QED BY <1>1 DEF Series, Dated

LEMMA QuotedDated ==
  ASSUME NEW bars, NEW n \in Nat, Series(bars, n), NEW x \in Bars, x.day = n + 1
  PROVE  Series(Append(bars, x), n + 1)
<1> DEFINE now == Append(bars, x)
<1>1. /\ bars \in Seq(Bars) /\ now \in Seq(Bars) /\ Len(bars) \in Nat /\ Len(now) = Len(bars) + 1
      /\ now[Len(bars) + 1] = x /\ \A i \in 1..Len(bars) : now[i] = bars[i]
  BY DEF Series
<1>2. \A i \in 1..Len(bars) : bars[i].day \in Nat /\ bars[i].day <= n
  BY DaysAre DEF Series, Dated
<1> HIDE DEF now
<1>3. \A i \in 1..Len(now) : now[i].day <= n + 1
  BY <1>1, <1>2
<1>4. ASSUME NEW i \in 1..Len(now), NEW j \in 1..Len(now), i < j PROVE now[i].day < now[j].day
  <2>1. i \in 1..Len(bars)
    BY <1>1, <1>4
  <2>2. CASE j \in 1..Len(bars)
    BY <1>1, <1>4, <2>1, <2>2 DEF Series, Dated
  <2>3. CASE j = Len(bars) + 1
    BY <1>1, <1>2, <2>1, <2>3
  <2> QED BY <1>1, <2>2, <2>3
<1> QED BY <1>1, <1>3, <1>4 DEF Series, Dated, now

LEMMA TokenQuotedDated == ASSUME HInv, TokenQuoted PROVE Series(token', today + 1)
<1>1. PICK d \in TokenDays : token' = Append(token, Bar(today + 1, d))
  BY DEF TokenQuoted
<1>2. Bar(today + 1, d) \in Bars /\ Bar(today + 1, d).day = today + 1
  BY BarTyped, HistoryAssumption DEF HInv
<1> QED BY <1>1, <1>2, QuotedDated DEF HInv

LEMMA BnbQuotedDated == ASSUME HInv, BnbQuoted PROVE Series(bnb', today + 1)
<1>1. PICK d \in BnbDays : bnb' = Append(bnb, Bar(today + 1, d))
  BY DEF BnbQuoted
<1>2. Bar(today + 1, d) \in Bars /\ Bar(today + 1, d).day = today + 1
  BY BarTyped, HistoryAssumption DEF HInv
<1> QED BY <1>1, <1>2, QuotedDated DEF HInv

LEMMA HistoryInvariant == HistorySpec => []HInv
<1>1. HistoryInit => HInv
  BY DEF HistoryInit, HInv, Series, Dated
<1>2. HInv /\ [HistoryNext]_historyVars => HInv'
  <2> SUFFICES ASSUME HInv, [HistoryNext]_historyVars PROVE HInv'
    OBVIOUS
  <2>1. today \in Nat /\ Series(token, today + 1) /\ Series(bnb, today + 1)
    BY StillDated DEF HInv
  <2>2. CASE UNCHANGED historyVars
    BY <2>2 DEF historyVars, HInv
  <2>3. CASE Day
    BY <2>1, <2>3, TokenQuotedDated, BnbQuotedDated DEF Day, NextDay, HInv
  <2>4. CASE TokenGap
    BY <2>1, <2>4, BnbQuotedDated DEF TokenGap, NextDay, HInv
  <2>5. CASE BnbGap
    BY <2>1, <2>5, TokenQuotedDated DEF BnbGap, NextDay, HInv
  <2> QED BY <2>2, <2>3, <2>4, <2>5 DEF HistoryNext
<1> QED BY <1>1, <1>2, PTL DEF HistorySpec
-----------------------------------------------------------------------------
(* The samples of the calibration.                                           *)

SampleAs(d, score, move) == [day |-> d, score |-> score, move |-> move]
Scored(points, bench) ==
  {s \in {SamplesAt(points, bench, i)[k] : i \in 1..(Len(points) - 1), k \in {1, 2}} : s.move \in Int}

LEMMA RowOf == ASSUME NEW n \in Nat, NEW S, NEW f \in [1..n -> S] PROVE f \in Seq(S) /\ Len(f) = n
<1>1. f \in Seq(S)
  BY SeqDef
<1>2. DOMAIN f = 1..n /\ DOMAIN f = 1..Len(f) /\ Len(f) \in Nat
  BY <1>1
<1> QED BY <1>1, <1>2

LEMMA Pair == ASSUME NEW a, NEW b PROVE <<a>> \o <<b>> = <<a, b>> /\ <<a>> \o <<>> = <<a>>
<1>1. <<a>> \in Seq({a, b}) /\ <<b>> \in Seq({a, b}) /\ <<>> \in Seq({a, b}) /\ <<a, b>> \in Seq({a, b})
  OBVIOUS
<1>2. <<a>> \o <<>> = <<a>>
  BY <1>1, ConcatEmptySeq
<1>3. <<a>> \o <<b>> \in Seq({a, b}) /\ Len(<<a>> \o <<b>>) = 2
      /\ (<<a>> \o <<b>>)[1] = a /\ (<<a>> \o <<b>>)[2] = b
  BY <1>1, ConcatProperties
<1>4. \A i \in 1..Len(<<a>> \o <<b>>) : (<<a>> \o <<b>>)[i] = <<a, b>>[i]
  BY <1>3
<1>5. <<a>> \o <<b>> = <<a, b>>
  BY <1>1, <1>3, <1>4, SeqEqual
<1> QED BY <1>2, <1>5

LEMMA RatioTyped == \A x \in Int, n \in Nat \ {0} : x \div n \in Int
OBVIOUS

LEMMA DaySamples ==
  ASSUME NEW points \in Seq(Bars), NEW bench, NEW i \in 1..(Len(points) - 1)
  PROVE  \E d, x, y : \E m \in Int :
           SamplesAt(points, bench, i) \in
             {<<>>, <<SampleAs(d, x, m)>>, <<SampleAs(d, x, m), SampleAs(d, y, m)>>}
<1> DEFINE p == points[i]
           m == (1000 * (points[i + 1].price - p.price)) \div p.price
           b == bench[CHOOSE k \in BenchmarkOn(bench, p.day) : TRUE].change
           f == FearGreed[p.day]
           x == ScoreBsc(MomentumInputs(QuoteOf(p), b, f))
           y == ScoreBsc(RsContinuationInputs(QuoteOf(p), b, f))
<1>1. m \in Int
  <2>1. points[i] \in Bars /\ points[i + 1] \in Bars
    OBVIOUS
  <2>2. points[i].price \in Nat \ {0} /\ points[i + 1].price \in Nat
    BY <2>1 DEF Bars
  <2>3. 1000 * (points[i + 1].price - points[i].price) \in Int
    BY <2>2
  <2> QED BY <2>2, <2>3, RatioTyped
<1>2. SamplesAt(points, bench, i) =
        IF BenchmarkOn(bench, p.day) = {} \/ p.day \notin DOMAIN FearGreed THEN <<>>
        ELSE <<SampleAs(p.day, x, m)>>
             \o (IF p.change > b THEN <<SampleAs(p.day, y, m)>> ELSE <<>>)
  BY Zenon DEF SamplesAt, SampleAs
<1> DEFINE one == SampleAs(p.day, x, m)
           two == SampleAs(p.day, y, m)
<1>3. <<one>> \o <<two>> = <<one, two>> /\ <<one>> \o <<>> = <<one>>
  <2> HIDE DEF one, two
  <2> QED BY Pair
<1>4. SamplesAt(points, bench, i) \in {<<>>, <<one>>, <<one, two>>}
  BY <1>2, <1>3, Zenon
<1> HIDE DEF m, x, y
<1> QED BY <1>1, <1>4

LEMMA DaySamplesTyped ==
  ASSUME NEW points \in Seq(Bars), NEW bench, NEW i \in 1..(Len(points) - 1)
  PROVE  SamplesAt(points, bench, i) \in Seq(Scored(points, bench))
<1>1. PICK d, x, y : \E m \in Int :
        SamplesAt(points, bench, i) \in
          {<<>>, <<SampleAs(d, x, m)>>, <<SampleAs(d, x, m), SampleAs(d, y, m)>>}
  BY DaySamples
<1>2. PICK m \in Int :
        SamplesAt(points, bench, i) \in
          {<<>>, <<SampleAs(d, x, m)>>, <<SampleAs(d, x, m), SampleAs(d, y, m)>>}
  BY <1>1
<1> DEFINE one == SampleAs(d, x, m)
           two == SampleAs(d, y, m)
           s == SamplesAt(points, bench, i)
<1>3. one.move \in Int /\ two.move \in Int
  BY DEF SampleAs
<1> HIDE DEF one, two
<1>4. \A k \in {1, 2} : s[k].move \in Int => s[k] \in Scored(points, bench)
  <2> HIDE DEF s
  <2> SUFFICES ASSUME NEW k \in {1, 2}, s[k].move \in Int PROVE s[k] \in Scored(points, bench)
    OBVIOUS
  <2>1. s[k] \in {SamplesAt(points, bench, j)[l] : j \in 1..(Len(points) - 1), l \in {1, 2}}
    BY DEF s
  <2> QED BY <2>1 DEF Scored
<1>5. s \in {<<>>, <<one>>, <<one, two>>}
  BY <1>2 DEF one, two
<1> HIDE DEF s
<1>6. CASE s = <<>>
  <2>1. <<>> \in Seq(Scored(points, bench))
    OBVIOUS
  <2> QED BY <1>6, <2>1 DEF s
<1>7. CASE s = <<one>>
  <2>1. one \in Scored(points, bench)
    BY <1>3, <1>4, <1>7
  <2> QED BY <1>7, <2>1 DEF s
<1>8. CASE s = <<one, two>>
  <2>1. one \in Scored(points, bench) /\ two \in Scored(points, bench)
    BY <1>3, <1>4, <1>8
  <2> QED BY <1>8, <2>1 DEF s
<1> QED BY <1>5, <1>6, <1>7, <1>8

LEMMA SamplesTyped ==
  ASSUME NEW points \in Seq(Bars), NEW bench
  PROVE  /\ SamplesOf(points, bench) \in Seq(Scored(points, bench))
         /\ \A i \in 1..Len(SamplesOf(points, bench)) : SamplesOf(points, bench)[i].move \in Int
<1> DEFINE S == Scored(points, bench)
           k == Len(points) - 1
           seqs == [i \in 1..(Len(points) - 1) |-> SamplesAt(points, bench, i)]
<1>1. \A i \in 1..k : SamplesAt(points, bench, i) \in Seq(S)
  BY DaySamplesTyped
<1>2. seqs \in Seq(Seq(S))
  <2> HIDE DEF S
  <2>1. CASE Len(points) = 0
    <3>1. seqs = <<>> /\ <<>> \in Seq(Seq(S))
      BY <2>1
    <3> HIDE DEF seqs
    <3> QED BY <3>1
  <2>2. CASE Len(points) # 0
    <3>1. k \in Nat
      BY <2>2
    <3>2. seqs \in [1..k -> Seq(S)]
      BY <1>1
    <3> HIDE DEF seqs
    <3> QED BY <3>1, <3>2, RowOf
  <2> QED BY <2>1, <2>2
<1>3. SamplesOf(points, bench) = FlattenSeq(seqs)
  BY Zenon DEF SamplesOf
<1> HIDE DEF seqs, S
<1>4. SamplesOf(points, bench) \in Seq(S)
  BY <1>2, <1>3, FlattenTyped
<1>5. \A s \in S : s.move \in Int
  BY DEF S, Scored
<1> HIDE DEF S
<1> QED BY <1>4, <1>5 DEF S
-----------------------------------------------------------------------------
(* The bands of the report.                                                  *)

Moving(samples) == Len(samples) \in Nat /\ \A i \in 1..Len(samples) : samples[i].move \in Int

LEMMA TotalTyped ==
  ASSUME NEW samples, Moving(samples), NEW part
  PROVE  Total(samples, part) \in Int
<1> DEFINE xs == [i \in 1..Len(samples) |-> MoveIn(samples, part, i)]
<1>1. \A i \in 1..Len(samples) : MoveIn(samples, part, i) \in Int
  BY DEF Moving, MoveIn
<1>2. xs \in [1..Len(samples) -> Int] /\ Len(samples) \in Nat
  BY <1>1 DEF Moving
<1> HIDE DEF xs
<1>3. xs \in Seq(Int)
  BY <1>2, RowOf
<1>4. SumOf(xs) \in Int
  BY <1>3, SumTyped
<1> QED BY <1>4, Zenon DEF Total, xs

LEMMA BandFinite ==
  ASSUME NEW samples, Moving(samples), NEW half \in {Train(samples), Validation(samples)}, NEW i
  PROVE  Cardinality(InBand(samples, half, i)) \in Nat
<1>1. IsFiniteSet(1..Len(samples))
  BY FS_Interval DEF Moving
<1>2. InBand(samples, half, i) \subseteq 1..Len(samples)
  BY DEF InBand, Train, Validation
<1> QED BY <1>1, <1>2, FS_Subset, FS_CardinalityType

LEMMA QuotientBelow == \A x \in Int, n \in Nat \ {0} : n * (x \div n) <= x /\ x \div n \in Int
OBVIOUS

LEMMA TimesMonotone ==
  ASSUME NEW n \in Nat, NEW x \in Int, NEW y \in Int, x <= y
  PROVE  n * x <= n * y
<1>1. n * (y - x) >= 0
  OBVIOUS
<1>2. n * y = n * x + n * (y - x)
  OBVIOUS
<1>3. n * x \in Int /\ n * y \in Int /\ n * (y - x) \in Int
  OBVIOUS
<1> QED BY <1>1, <1>2, <1>3

(* A half that meets the lower bound pays the required move, and its mean.   *)
LEMMA HalfPays ==
  ASSUME NEW samples, Moving(samples), NEW part, Cardinality(part) \in Nat, Cardinality(part) >= 1,
         LowerBoundMet(samples, part)
  PROVE  /\ part # {}
         /\ Mean(samples, part) \in Int
         /\ 10 * Total(samples, part) >= Cardinality(part) * RequiredMoveBps
         /\ \A m \in Int : m <= Mean(samples, part) => 10 * Total(samples, part) >= Cardinality(part) * m
<1> DEFINE n == Cardinality(part)
           total == Total(samples, part)
<1>1. total \in Int /\ n \in Nat \ {0}
  BY TotalTyped
<1>2. RequiredMoveBps \in Int
  BY HistoryAssumption DEF RequiredMoveBps
<1>3. 10 * total - n * RequiredMoveBps >= 0
  BY Zenon DEF LowerBoundMet
<1>4. Mean(samples, part) = (10 * total) \div n
  BY DEF Mean
<1>5. part # {}
  BY <1>1, FS_EmptySet
<1> HIDE DEF n, total
<1>6. n * RequiredMoveBps \in Int /\ 10 * total \in Int
  BY <1>1, <1>2
<1>7. 10 * total >= n * RequiredMoveBps
  BY <1>3, <1>6
<1>8. Mean(samples, part) \in Int /\ n * Mean(samples, part) <= 10 * total
  BY <1>1, <1>4, <1>6, QuotientBelow
<1>9. ASSUME NEW m \in Int, m <= Mean(samples, part) PROVE 10 * total >= n * m
  <2>1. n * m <= n * Mean(samples, part)
    BY <1>1, <1>8, <1>9, TimesMonotone
  <2>2. n * m \in Int /\ n * Mean(samples, part) \in Int
    BY <1>1, <1>8
  <2> HIDE DEF n, total
  <2> QED BY <1>6, <1>8, <2>1, <2>2
<1> QED BY <1>5, <1>7, <1>8, <1>9 DEF n, total

LEMMA LeastBelow ==
  ASSUME NEW a \in Int, NEW b \in Int
  PROVE  Least(a, b) \in Int /\ Least(a, b) <= a /\ Least(a, b) <= b
BY DEF Least

LEMMA BandPays ==
  ASSUME NEW samples, Moving(samples), NEW i, ReportBand(samples, i).moveBps # 0,
         NEW half \in {Train(samples), Validation(samples)}
  PROVE  LET band == InBand(samples, half, i)
         IN /\ band # {}
            /\ 10 * Total(samples, band) >= Cardinality(band) * RequiredMoveBps
            /\ 10 * Total(samples, band) >= Cardinality(band) * ReportBand(samples, i).moveBps
<1> DEFINE train == InBand(samples, Train(samples), i)
           validation == InBand(samples, Validation(samples), i)
           moveBps == ReportBand(samples, i).moveBps
<1>1. moveBps = IF Qualified(samples, train, validation)
                THEN Least(Mean(samples, train), Mean(samples, validation)) ELSE 0
  BY DEF ReportBand
<1>2. Cardinality(train) \in Nat /\ Cardinality(validation) \in Nat
  BY BandFinite
<1> HIDE DEF train, validation, moveBps
<1>3. Qualified(samples, train, validation)
      /\ moveBps = Least(Mean(samples, train), Mean(samples, validation))
  BY <1>1 DEF moveBps
<1>4. Cardinality(train) >= 1 /\ Cardinality(validation) >= 1
      /\ LowerBoundMet(samples, train) /\ LowerBoundMet(samples, validation)
  <2>1. Cardinality(train) >= TrainMin /\ Cardinality(validation) >= ValidationMin
        /\ LowerBoundMet(samples, train) /\ LowerBoundMet(samples, validation)
    BY <1>3, Zenon DEF Qualified
  <2>2. TrainMin \in Nat \ {0} /\ ValidationMin \in Nat \ {0}
    BY HistoryAssumption
  <2> QED BY <1>2, <2>1, <2>2
<1>5. Mean(samples, train) \in Int /\ Mean(samples, validation) \in Int
  BY <1>2, <1>4, HalfPays
<1>6. moveBps \in Int /\ moveBps <= Mean(samples, train) /\ moveBps <= Mean(samples, validation)
  BY <1>3, <1>5, LeastBelow
<1>7. /\ train # {} /\ 10 * Total(samples, train) >= Cardinality(train) * RequiredMoveBps
      /\ 10 * Total(samples, train) >= Cardinality(train) * moveBps
  BY <1>2, <1>4, <1>6, HalfPays
<1>8. /\ validation # {} /\ 10 * Total(samples, validation) >= Cardinality(validation) * RequiredMoveBps
      /\ 10 * Total(samples, validation) >= Cardinality(validation) * moveBps
  BY <1>2, <1>4, <1>6, HalfPays
<1> QED BY <1>7, <1>8 DEF train, validation, moveBps

(* A band that reports a move has earned it, after the cost of a scored      *)
(* round trip, in the days it was fitted to and in the days that were held   *)
(* out (validatedReport of calibrate-history.ts), whatever the history, the  *)
(* scores and the thresholds are.                                            *)
THEOREM BandsAreEarned == HistorySpec => []BandsPayInBothHalves
<1>1. HInv => BandsPayInBothHalves
  <2> SUFFICES ASSUME HInv PROVE BandsPayInBothHalves
    OBVIOUS
  <2> DEFINE samples == SamplesOf(token, bnb)
  <2>1. token \in Seq(Bars)
    BY DEF HInv, Series
  <2>2. samples \in Seq(Scored(token, bnb)) /\ \A i \in 1..Len(samples) : samples[i].move \in Int
    BY <2>1, SamplesTyped
  <2> HIDE DEF samples
  <2>3. Moving(samples)
    BY <2>2 DEF Moving
  <2>4. ASSUME NEW i \in 1..Len(Thresholds), ValidatedReport(samples)[i].moveBps # 0,
               NEW half \in {Train(samples), Validation(samples)}
        PROVE  LET band == InBand(samples, half, i)
               IN /\ band # {}
                  /\ 10 * Total(samples, band) >= Cardinality(band) * RequiredMoveBps
                  /\ 10 * Total(samples, band) >= Cardinality(band) * ValidatedReport(samples)[i].moveBps
    <3>1. ValidatedReport(samples)[i] = ReportBand(samples, i)
      BY Zenon DEF ValidatedReport
    <3>2. ReportBand(samples, i).moveBps # 0
      BY <2>4, <3>1
    <3> QED BY <2>3, <3>1, <3>2, BandPays
  <2> QED BY <2>4, Zenon DEF BandsPayInBothHalves, samples
<1> QED BY <1>1, HistoryInvariant, PTL
-----------------------------------------------------------------------------
(* The sleeve: what a book may be.                                           *)

Reasons == {"stop", "end_of_data"}
Rejections == {"REJECT_STOP_COHERENCE", "REJECT_NET_EDGE", "none"}

Positions == [entry : Nat, price : Nat \ {0}, notional : Nat, stop : Int, frictionBps : Nat]
Trades == [entry : Nat, exit : Nat, stop : Int, pnl : Int, moveBps : Int, reason : Reasons]
BookShapes ==
  [equity : Nat, position : SUBSET Positions, trades : Seq(Trades), curve : Seq(Nat),
   rejected : Seq(Rejections)]

PnlOf(trades) == SumOf([i \in 1..Len(trades) |-> trades[i].pnl])

(* A position is one, of a size the capital covers and a friction within the *)
(* budget; the capital is what the trades have made of it.                   *)
Covered(book) ==
  /\ \A p, q \in book.position : p = q
  /\ \A p \in book.position : /\ 100 * p.notional <= Sleeve.maxPositionPct * book.equity
                              /\ p.frictionBps <= Sleeve.frictionBudgetBps
Accounted(book) == book.equity = Sleeve.startingCapital + PnlOf(book.trades)

(* The curve starts at the capital, and stays there until a position is taken. *)
Flat(book) ==
  /\ book.curve # <<>> => book.curve[1] = Sleeve.startingCapital
  /\ book.position = {} /\ book.trades = <<>> =>
       \A i \in 1..Len(book.curve) : book.curve[i] = Sleeve.startingCapital

Sound(book) == book \in BookShapes /\ Covered(book) /\ Accounted(book) /\ Flat(book)

(* None is taken on the first bar, which is in the warm-up; without one the  *)
(* last point is the capital.                                                *)
BooksAt(n) ==
  {book \in BookShapes :
     /\ Sound(book) /\ Len(book.curve) = n
     /\ n <= 1 => book.position = {} /\ book.trades = <<>>
     /\ n > 0 /\ book.position = {} => book.curve[n] = book.equity}
-----------------------------------------------------------------------------
(* Arithmetic of a position. *)

LEMMA QuotientAbove ==
  ASSUME NEW x \in Int, NEW k \in Int, NEW n \in Nat \ {0}, x >= n * k
  PROVE  x \div n >= k
<1>1. x \div n \in Int /\ x < n * (x \div n) + n
  OBVIOUS
<1>2. ASSUME x \div n < k PROVE FALSE
  <2> DEFINE q == x \div n
  <2>1. q \in Int /\ q + 1 <= k /\ x < n * q + n
    BY <1>1, <1>2
  <2> HIDE DEF q
  <2>2. n * (q + 1) <= n * k
    BY <2>1, TimesMonotone
  <2>3. n * (q + 1) = n * q + n
    BY <2>1
  <2>4. n * q \in Int /\ n * k \in Int /\ n * (q + 1) \in Int
    BY <2>1
  <2> QED BY <2>1, <2>2, <2>3, <2>4
<1> QED BY <1>1, <1>2

LEMMA ProductsTyped == ASSUME NEW a \in Nat, NEW b \in Nat PROVE a * b \in Nat
OBVIOUS

LEMMA GrossIs ==
  ASSUME NEW p \in Positions, NEW bar \in Bars
  PROVE  Gross(p, bar) \in Int /\ Gross(p, bar) >= -p.notional
<1> DEFINE a == bar.price
           b == p.price
           n == p.notional
<1>1. a \in Nat /\ b \in Nat \ {0} /\ n \in Nat
  BY DEF Bars, Positions
<1>2. Gross(p, bar) = ((a - b) * n) \div b
  BY DEF Gross
<1> HIDE DEF a, b, n
<1>3. (a - b) * n = a * n - b * n /\ a * n \in Nat /\ b * n \in Nat /\ b * (-n) = -(b * n)
  BY <1>1
<1>4. (a - b) * n \in Int /\ (a - b) * n >= b * (-n)
  BY <1>3
<1>5. ((a - b) * n) \div b >= -n /\ ((a - b) * n) \div b \in Int
  BY <1>1, <1>4, QuotientAbove, RatioTyped
<1> QED BY <1>2, <1>5 DEF n

(* A share of the capital, and the friction of it, is no more than there is. *)
LEMMA CoversTheFriction ==
  ASSUME NEW n \in Nat, NEW pct \in Nat, NEW E \in Nat, NEW f \in Nat, NEW B \in Nat,
         100 * n <= pct * E, f <= B, pct * (10000 + B) <= 1000000
  PROVE  n * (10000 + f) <= 10000 * E
<1>1. (10000 + f) * (100 * n) <= (10000 + f) * (pct * E)
  <2>1. 100 * n \in Int /\ pct * E \in Int /\ 10000 + f \in Nat
    OBVIOUS
  <2> QED BY <2>1, TimesMonotone
<1>2. (pct * E) * (10000 + f) <= (pct * E) * (10000 + B)
  <2>1. pct * E \in Nat /\ 10000 + f \in Int /\ 10000 + B \in Int /\ 10000 + f <= 10000 + B
    OBVIOUS
  <2> QED BY <2>1, TimesMonotone
<1>3. E * (pct * (10000 + B)) <= E * 1000000
  <2>1. pct * (10000 + B) \in Int
    OBVIOUS
  <2> QED BY <2>1, TimesMonotone
<1>4. (pct * E) * (10000 + B) = E * (pct * (10000 + B)) /\ (pct * E) * (10000 + f) = (10000 + f) * (pct * E)
      /\ (10000 + f) * (100 * n) = 100 * (n * (10000 + f))
  OBVIOUS
<1> DEFINE w == n * (10000 + f)
           y == (pct * E) * (10000 + f)
           z == (pct * E) * (10000 + B)
<1>5. w \in Int /\ y \in Int /\ z \in Int
  OBVIOUS
<1>6. 100 * w <= y /\ y <= z /\ z <= E * 1000000
  BY <1>1, <1>2, <1>3, <1>4
<1> HIDE DEF w, y, z
<1>7. w <= 10000 * E
  BY <1>5, <1>6
<1> QED BY <1>7 DEF w

LEMMA NeverInDebt ==
  ASSUME NEW p \in Positions, NEW bar \in Bars, NEW E \in Nat,
         100 * p.notional <= Sleeve.maxPositionPct * E, p.frictionBps <= Sleeve.frictionBudgetBps
  PROVE  /\ (p.frictionBps * p.notional) \div 10000 \in Int
         /\ E + Gross(p, bar) - (p.frictionBps * p.notional) \div 10000 \in Nat
         /\ E + Gross(p, bar) \in Nat
<1> DEFINE n == p.notional
           f == p.frictionBps
           g == Gross(p, bar)
           c == (f * n) \div 10000
<1>1. n \in Nat /\ f \in Nat
  BY DEF Positions
<1>2. g \in Int /\ g >= -n
  BY GrossIs
<1>3. Sleeve.maxPositionPct \in Nat /\ Sleeve.frictionBudgetBps \in Nat
      /\ Sleeve.maxPositionPct * (10000 + Sleeve.frictionBudgetBps) <= 1000000
  BY HistoryAssumption DEF SleeveParameters
<1>4. n * (10000 + f) <= 10000 * E
  BY <1>1, <1>3, CoversTheFriction
<1>5. f * n \in Nat /\ n * (10000 + f) = 10000 * n + f * n
  BY <1>1
<1>6. c \in Int /\ 10000 * c <= f * n /\ c >= 0
  BY <1>5
<1> DEFINE fn == f * n
<1> HIDE DEF n, f, g, c, fn
<1>7. fn \in Nat /\ 10000 * n + fn <= 10000 * E /\ 10000 * c <= fn
  BY <1>4, <1>5, <1>6 DEF fn
<1>8. E + g - c \in Nat /\ E + g \in Nat
  BY <1>1, <1>2, <1>6, <1>7
<1> QED BY <1>6, <1>8 DEF n, f, g, c
-----------------------------------------------------------------------------
(* Opening and closing. *)

LEMMA SizeIs ==
  ASSUME NEW book \in BookShapes, NEW bar \in Bars
  PROVE  /\ SizeOf(book, bar) \in Nat
         /\ 100 * SizeOf(book, bar) <= Sleeve.maxPositionPct * book.equity
<1> DEFINE d == StopDistanceBps(bar)
           E == book.equity
           pct == Sleeve.maxPositionPct
           risk == Sleeve.perTradeRiskPct
<1>1. d \in Nat \ {0}
  <2>1. bar.atrBps \in Nat /\ (Sleeve.stopAtrTenths * bar.atrBps) \div 10 > 0
    BY DEF Bars
  <2>2. Sleeve.stopAtrTenths \in Nat
    BY HistoryAssumption DEF SleeveParameters
  <2>3. Sleeve.stopAtrTenths * bar.atrBps \in Nat
    BY <2>1, <2>2
  <2>4. (Sleeve.stopAtrTenths * bar.atrBps) \div 10 \in Nat \ {0}
    BY <2>1, <2>3
  <2> QED BY <2>4 DEF StopDistanceBps
<1>2. E \in Nat /\ pct \in Nat /\ risk \in Nat
  BY HistoryAssumption DEF SleeveParameters, BookShapes
<1>3. SizeOf(book, bar) = Smaller((100 * risk * E) \div d, (pct * E) \div 100)
  BY DEF SizeOf
<1> HIDE DEF d, E, pct, risk
<1>4. 100 * risk * E \in Nat /\ pct * E \in Nat
  <2>1. 100 * risk \in Nat
    BY <1>2
  <2> QED BY <1>2, <2>1, ProductsTyped
<1> DEFINE a == 100 * risk * E
           b == pct * E
<1> HIDE DEF a, b
<1>5. a \in Nat /\ b \in Nat
  BY <1>4 DEF a, b
<1>6. a \div d \in Nat /\ b \div 100 \in Nat /\ 100 * (b \div 100) <= b
  <2>1. a \div d \in Int /\ a >= d * 0
    BY <1>1, <1>5
  <2>2. a \div d >= 0
    BY <1>1, <1>5, <2>1, QuotientAbove
  <2> QED BY <1>5, <2>1, <2>2
<1>7. Smaller(a \div d, b \div 100) \in Nat /\ 100 * Smaller(a \div d, b \div 100) <= b
  BY <1>5, <1>6 DEF Smaller
<1> QED BY <1>3, <1>7 DEF a, b, E, pct

LEMMA RoundTripIs == ASSUME NEW n \in Nat \ {0} PROVE RoundTripBps(n) \in Nat
<1> DEFINE g == 20000 * Sleeve.gasPerLeg
<1>1. Sleeve.gasPerLeg \in Nat /\ Sleeve.slippageBps \in Nat /\ Sleeve.lpFeeBps \in Nat
      /\ Sleeve.safetyBufferBps \in Nat /\ Sleeve.scoringSimCostBps \in Nat
  BY HistoryAssumption DEF SleeveParameters
<1>2. g \in Nat
  BY <1>1
<1>3. RoundTripBps(n) = g \div n + 2 * (Sleeve.slippageBps + Sleeve.lpFeeBps)
                        + Sleeve.safetyBufferBps + 2 * Sleeve.scoringSimCostBps
  BY DEF RoundTripBps
<1> HIDE DEF g
<1>4. g \div n \in Int /\ g \div n >= 0
  <2>1. g \in Int /\ g >= n * 0 /\ 0 \in Int
    BY <1>2
  <2> QED BY <2>1, QuotientAbove, RatioTyped
<1> QED BY <1>1, <1>3, <1>4

LEMMA OpenedIs ==
  ASSUME NEW book \in BookShapes, Sound(book), book.position = {}, NEW bar \in Bars, NEW i \in Nat,
         ~Incoherent(book, bar)
  PROVE  LET b == Opened(book, bar, i)
         IN /\ b \in BookShapes /\ Covered(b) /\ b.position # {}
            /\ b.equity = book.equity /\ b.trades = book.trades
            /\ b.curve = book.curve /\ b.rejected = book.rejected
<1> DEFINE p == [entry |-> i, price |-> bar.price, notional |-> SizeOf(book, bar),
                 stop |-> (bar.price * (10000 - StopDistanceBps(bar))) \div 10000,
                 frictionBps |-> RoundTripBps(SizeOf(book, bar))]
           b == Opened(book, bar, i)
<1>1. SizeOf(book, bar) \in Nat \ {0} /\ 100 * SizeOf(book, bar) <= Sleeve.maxPositionPct * book.equity
      /\ ~(RoundTripBps(SizeOf(book, bar)) > Sleeve.frictionBudgetBps)
  BY SizeIs DEF Incoherent
<1>2. RoundTripBps(SizeOf(book, bar)) \in Nat /\ Sleeve.frictionBudgetBps \in Nat
  BY <1>1, RoundTripIs, HistoryAssumption DEF SleeveParameters
<1>3. bar.price \in Nat \ {0} /\ bar.atrBps \in Nat /\ Sleeve.stopAtrTenths \in Nat
  BY HistoryAssumption DEF SleeveParameters, Bars
<1>4. (bar.price * (10000 - StopDistanceBps(bar))) \div 10000 \in Int
  <2>1. Sleeve.stopAtrTenths * bar.atrBps \in Int
    BY <1>3
  <2>2. StopDistanceBps(bar) \in Int
    BY <2>1 DEF StopDistanceBps
  <2>3. bar.price * (10000 - StopDistanceBps(bar)) \in Int
    BY <1>3, <2>2
  <2> QED BY <2>3
<1>5. p \in Positions
  BY <1>1, <1>2, <1>3, <1>4 DEF Positions
<1>6. b = [book EXCEPT !.position = {p}]
  BY DEF Opened
<1>7. p.notional = SizeOf(book, bar) /\ p.frictionBps = RoundTripBps(SizeOf(book, bar))
  OBVIOUS
<1> HIDE DEF p, b
<1>8. b \in BookShapes /\ b.position = {p} /\ b.equity = book.equity /\ b.trades = book.trades
      /\ b.curve = book.curve /\ b.rejected = book.rejected
  BY <1>5, <1>6 DEF BookShapes
<1>9. Covered(b)
  <2>1. \A q \in b.position : q = p
    BY <1>8
  <2>2. 100 * p.notional <= Sleeve.maxPositionPct * b.equity /\ p.frictionBps <= Sleeve.frictionBudgetBps
    BY <1>1, <1>2, <1>7, <1>8
  <2> QED BY <2>1, <2>2 DEF Covered
<1> QED BY <1>8, <1>9 DEF b

LEMMA PnlOfAppended ==
  ASSUME NEW trades \in Seq(Trades), NEW t \in Trades
  PROVE  PnlOf(Append(trades, t)) = PnlOf(trades) + t.pnl
<1> DEFINE xs == [i \in 1..Len(trades) |-> trades[i].pnl]
           more == Append(trades, t)
           ys == [i \in 1..Len(more) |-> more[i].pnl]
<1>1. Len(trades) \in Nat /\ Len(more) = Len(trades) + 1 /\ t.pnl \in Int
      /\ (\A i \in 1..Len(trades) : trades[i] \in Trades /\ more[i] = trades[i])
      /\ more[Len(trades) + 1] = t
  <2>1. t.pnl \in Int
    BY DEF Trades
  <2> QED BY <2>1
<1> HIDE DEF more
<1>2. \A i \in 1..Len(trades) : trades[i].pnl \in Int
  BY <1>1 DEF Trades
<1>3. xs \in Seq(Int) /\ Len(xs) = Len(trades)
  <2>1. xs \in [1..Len(trades) -> Int]
    BY <1>2
  <2> HIDE DEF xs
  <2> QED BY <1>1, <2>1, RowOf
<1>4. ys \in Seq(Int) /\ Len(ys) = Len(trades) + 1
  <2>1. \A i \in 1..Len(more) : more[i].pnl \in Int
    <3>1. \A i \in 1..Len(more) : i \in 1..Len(trades) \/ i = Len(trades) + 1
      BY <1>1
    <3> QED BY <1>1, <1>2, <3>1
  <2>2. ys \in [1..Len(more) -> Int] /\ Len(more) \in Nat
    BY <1>1, <2>1
  <2> HIDE DEF ys
  <2> QED BY <1>1, <2>2, RowOf
<1>5. Append(xs, t.pnl) \in Seq(Int) /\ Len(Append(xs, t.pnl)) = Len(trades) + 1
  BY <1>1, <1>3
<1>6. ASSUME NEW i \in 1..Len(ys) PROVE ys[i] = Append(xs, t.pnl)[i]
  <2>1. i \in 1..Len(more) /\ ys[i] = more[i].pnl
    BY <1>1, <1>4
  <2>2. CASE i = Len(trades) + 1
    <3>1. Append(xs, t.pnl)[i] = t.pnl
      BY <1>1, <1>3, <2>2
    <3> QED BY <1>1, <2>1, <2>2, <3>1
  <2>3. CASE i # Len(trades) + 1
    <3>1. i \in 1..Len(trades)
      BY <1>1, <1>4, <2>3
    <3>2. Append(xs, t.pnl)[i] = xs[i] /\ xs[i] = trades[i].pnl
      <4>1. xs[i] = trades[i].pnl /\ i \in 1..Len(xs)
        BY <1>3, <3>1
      <4> HIDE DEF xs
      <4> QED BY <1>1, <1>3, <4>1
    <3> QED BY <1>1, <2>1, <3>1, <3>2
  <2> QED BY <2>2, <2>3
<1> HIDE DEF xs, ys
<1>7. ys = Append(xs, t.pnl)
  BY <1>4, <1>5, <1>6, SeqEqual
<1>8. SumOf(ys) = SumOf(xs) + t.pnl
  BY <1>1, <1>3, <1>7, SumOfAppended
<1> QED BY <1>8, Zenon DEF PnlOf, xs, ys, more

LEMMA ClosedIs ==
  ASSUME NEW book \in BookShapes, Sound(book), book.position # {}, NEW bar \in Bars, NEW i \in Nat,
         NEW reason \in Reasons
  PROVE  LET b == ClosePosition(book, bar, i, reason)
         IN /\ b \in BookShapes /\ Accounted(b) /\ b.position = {}
            /\ b.curve = book.curve /\ b.rejected = book.rejected
            /\ \E t \in Trades : b.trades = Append(book.trades, t) /\ t.exit = i
<1> DEFINE p == PositionOf(book)
           pnl == Gross(p, bar) - (p.frictionBps * p.notional) \div 10000
           t == [entry |-> p.entry, exit |-> i, stop |-> p.stop, pnl |-> pnl,
                 moveBps |-> (10000 * (bar.price - p.price)) \div p.price, reason |-> reason]
           b == ClosePosition(book, bar, i, reason)
<1>1. p \in book.position /\ p \in Positions
  <2>1. book.position \subseteq Positions
    BY DEF BookShapes
  <2> QED BY <2>1, Zenon DEF PositionOf
<1>2. b = [book EXCEPT !.equity = @ + pnl, !.position = {}, !.trades = Append(@, t)]
  BY DEF ClosePosition
<1> HIDE DEF p, b
<1>3. Gross(p, bar) \in Int /\ (p.frictionBps * p.notional) \div 10000 \in Int
      /\ book.equity + Gross(p, bar) - (p.frictionBps * p.notional) \div 10000 \in Nat
      /\ book.equity \in Nat
  <2>1. 100 * p.notional <= Sleeve.maxPositionPct * book.equity /\ p.frictionBps <= Sleeve.frictionBudgetBps
    BY <1>1 DEF Sound, Covered
  <2>2. book.equity \in Nat
    BY DEF BookShapes
  <2> QED BY <1>1, <2>1, <2>2, GrossIs, NeverInDebt
<1>4. pnl \in Int /\ book.equity + pnl \in Nat
  BY <1>3
<1>5. t \in Trades
  <2>1. p.entry \in Nat /\ p.stop \in Int /\ p.price \in Nat \ {0} /\ bar.price \in Int
    BY <1>1 DEF Positions, Bars
  <2>2. (10000 * (bar.price - p.price)) \div p.price \in Int
    BY <2>1, RatioTyped
  <2> HIDE DEF pnl
  <2> QED BY <1>4, <2>1, <2>2 DEF Trades
<1>6. t.pnl = pnl /\ t.exit = i
  OBVIOUS
<1> HIDE DEF pnl, t
<1>7. b \in BookShapes /\ b.position = {} /\ b.equity = book.equity + pnl
      /\ b.trades = Append(book.trades, t) /\ b.curve = book.curve /\ b.rejected = book.rejected
  <2>1. /\ b.position = {} /\ b.equity = book.equity + pnl /\ b.trades = Append(book.trades, t)
        /\ b.curve = book.curve /\ b.rejected = book.rejected
    BY <1>2 DEF BookShapes
  <2>2. book.trades \in Seq(Trades)
    BY DEF BookShapes
  <2>3. Append(book.trades, t) \in Seq(Trades)
    BY <1>5, <2>2
  <2>4. b \in BookShapes
    BY <1>2, <1>4, <2>3 DEF BookShapes
  <2> QED BY <2>1, <2>4
<1>8. Accounted(b)
  <2>1. book.trades \in Seq(Trades) /\ book.equity = Sleeve.startingCapital + PnlOf(book.trades)
    BY DEF BookShapes, Sound, Accounted
  <2>2. PnlOf(b.trades) = PnlOf(book.trades) + pnl
    BY <1>5, <1>6, <1>7, <2>1, PnlOfAppended
  <2>3. Sleeve.startingCapital \in Nat /\ PnlOf(book.trades) \in Int
    <3>1. \A n \in 1..Len(book.trades) : book.trades[n].pnl \in Int
      <4>1. \A n \in 1..Len(book.trades) : book.trades[n] \in Trades
        BY <2>1
      <4> QED BY <4>1 DEF Trades
    <3> DEFINE xs == [n \in 1..Len(book.trades) |-> book.trades[n].pnl]
    <3>2. xs \in [1..Len(book.trades) -> Int] /\ Len(book.trades) \in Nat
      BY <2>1, <3>1
    <3> HIDE DEF xs
    <3>3. SumOf(xs) \in Int
      BY <3>2, RowOf, SumTyped
    <3>4. PnlOf(book.trades) \in Int
      BY <3>3, Zenon DEF PnlOf, xs
    <3> QED BY <3>4, HistoryAssumption DEF SleeveParameters
  <2> QED BY <1>4, <1>7, <2>1, <2>2, <2>3 DEF Accounted
<1> QED BY <1>5, <1>6, <1>7, <1>8 DEF b
-----------------------------------------------------------------------------
(* A bar. *)

LEMMA RejectionIs ==
  ASSUME NEW book, NEW bar, NEW move
  PROVE  /\ Rejection(book, bar, move) \in Rejections
         /\ Rejection(book, bar, move) = "none" => ~Incoherent(book, bar)
<1>1. CASE Incoherent(book, bar)
  <2>1. Rejection(book, bar, move) = "REJECT_STOP_COHERENCE"
    BY <1>1 DEF Rejection
  <2> QED BY <1>1, <2>1 DEF Rejections
<1>2. CASE ~Incoherent(book, bar)
  <2>1. Rejection(book, bar, move) \in {"REJECT_NET_EDGE", "none"}
    BY <1>2 DEF Rejection
  <2> QED BY <1>2, <2>1 DEF Rejections
<1> QED BY <1>1, <1>2

(* What a bar may do to the book: close the position, open one, reject a     *)
(* signal or nothing.                                                        *)
Grew(book, b, i) ==
  /\ \/ b.trades = book.trades
     \/ \E t \in Trades : b.trades = Append(book.trades, t) /\ t.exit = i
  /\ \/ b.rejected = book.rejected
     \/ \E r \in Rejections : b.rejected = Append(book.rejected, r)
  /\ book.position # {} => \/ b.position = book.position
                           \/ \E t \in Trades : b.trades = Append(book.trades, t) /\ t.exit = i

LEMMA StillFlat ==
  ASSUME NEW book, Flat(book), NEW b, b.curve = book.curve,
         b.position = {} /\ b.trades = <<>> => book.position = {} /\ book.trades = <<>>
  PROVE  Flat(b)
BY DEF Flat

LEMMA SignalledIs ==
  ASSUME NEW book \in BookShapes, Sound(book), book.position = {}, NEW bar \in Bars, NEW i \in Nat, NEW m
  PROVE  LET b == Signalled(book, bar, i, m)
         IN Sound(b) /\ b.curve = book.curve /\ Grew(book, b, i)
<1> DEFINE b == Signalled(book, bar, i, m)
<1>1. CASE Rejection(book, bar, m) = "none"
  <2>1. b = Opened(book, bar, i)
    BY <1>1 DEF Signalled
  <2>2. ~Incoherent(book, bar)
    BY <1>1, RejectionIs
  <2> HIDE DEF b
  <2>3. /\ b \in BookShapes /\ Covered(b) /\ b.position # {}
        /\ b.equity = book.equity /\ b.trades = book.trades
        /\ b.curve = book.curve /\ b.rejected = book.rejected
    BY <2>1, <2>2, OpenedIs
  <2>4. Accounted(b)
    BY <2>3 DEF Sound, Accounted
  <2>5. Flat(b)
    BY <2>3, StillFlat DEF Sound
  <2>6. Grew(book, b, i)
    BY <2>3 DEF Grew
  <2> QED BY <2>3, <2>4, <2>5, <2>6 DEF Sound, b
<1>2. CASE Rejection(book, bar, m) # "none"
  <2> DEFINE r == Rejection(book, bar, m)
  <2>1. b = [book EXCEPT !.rejected = Append(@, r)]
    BY <1>2 DEF Signalled
  <2>2. r \in Rejections
    BY RejectionIs
  <2> HIDE DEF b, r
  <2>3. /\ b.position = book.position /\ b.equity = book.equity /\ b.trades = book.trades
        /\ b.curve = book.curve /\ b.rejected = Append(book.rejected, r)
    BY <2>1 DEF BookShapes
  <2>4. b \in BookShapes
    <3>1. Append(book.rejected, r) \in Seq(Rejections)
      BY <2>2 DEF BookShapes
    <3> QED BY <2>1, <3>1 DEF BookShapes
  <2>5. Sound(b)
    BY <2>3, <2>4 DEF Sound, Covered, Accounted, Flat
  <2>6. Grew(book, b, i)
    BY <2>2, <2>3 DEF Grew
  <2> QED BY <2>3, <2>5, <2>6 DEF b
<1> QED BY <1>1, <1>2

LEMMA TradedIs ==
  ASSUME NEW book \in BookShapes, Sound(book), NEW bar \in Bars, NEW i \in Nat, NEW move
  PROVE  LET b == Traded(book, bar, i, move)
         IN /\ Sound(b) /\ b.curve = book.curve /\ Grew(book, b, i)
            /\ book.position = {} /\ move = {} => b = book
<1> DEFINE b == Traded(book, bar, i, move)
<1>1. CASE Stopped(book, bar)
  <2>2. book.position # {}
    BY <1>1 DEF Stopped
  <2>1. b = ClosePosition(book, bar, i, "stop") /\ "stop" \in Reasons
    BY <1>1, <2>2 DEF Traded, Reasons
  <2> HIDE DEF b
  <2>3. /\ b \in BookShapes /\ Accounted(b) /\ b.position = {}
        /\ b.curve = book.curve /\ b.rejected = book.rejected
        /\ \E t \in Trades : b.trades = Append(book.trades, t) /\ t.exit = i
    BY <2>1, <2>2, ClosedIs
  <2>4. Covered(b)
    BY <2>3 DEF Covered
  <2>5. b.trades # <<>>
    <3>1. book.trades \in Seq(Trades)
      BY DEF BookShapes
    <3> QED BY <2>3, <3>1
  <2>6. Flat(b)
    BY <2>3, <2>5, StillFlat DEF Sound
  <2>7. Grew(book, b, i)
    BY <2>3 DEF Grew
  <2> QED BY <2>2, <2>3, <2>4, <2>6, <2>7 DEF Sound, b
<1>2. CASE ~Stopped(book, bar) /\ book.position = {} /\ move # {}
  <2>1. b = Signalled(book, bar, i, CHOOSE m \in move : TRUE)
    BY <1>2 DEF Traded
  <2> QED BY <1>2, <2>1, SignalledIs
<1>3. CASE ~Stopped(book, bar) /\ ~(book.position = {} /\ move # {})
  <2>1. b = book
    BY <1>3 DEF Traded
  <2>2. Grew(book, b, i)
    BY <2>1 DEF Grew
  <2> QED BY <2>1, <2>2
<1> QED BY <1>1, <1>2, <1>3

LEMMA PnlOfNone == PnlOf(<<>>) = 0
<1>1. [i \in 1..Len(<<>>) |-> (<<>>)[i].pnl] = <<>>
  OBVIOUS
<1> QED BY <1>1, SumOfNone DEF PnlOf

LEMMA UntouchedCapital ==
  ASSUME NEW book, Accounted(book), book.trades = <<>>
  PROVE  book.equity = Sleeve.startingCapital
<1>1. Sleeve.startingCapital \in Nat
  BY HistoryAssumption DEF SleeveParameters
<1> QED BY <1>1, PnlOfNone DEF Accounted

LEMMA UnrealizedIs ==
  ASSUME NEW book \in BookShapes, Sound(book), NEW bar \in Bars
  PROVE  /\ book.equity + Unrealized(book, bar) \in Nat
         /\ book.position = {} => book.equity + Unrealized(book, bar) = book.equity
<1>1. book.equity \in Nat
  BY DEF BookShapes
<1>2. CASE book.position = {}
  BY <1>1, <1>2 DEF Unrealized
<1>3. CASE book.position # {}
  <2> DEFINE p == PositionOf(book)
  <2>1. p \in book.position
    BY <1>3, Zenon DEF PositionOf
  <2>2. p \in Positions /\ 100 * p.notional <= Sleeve.maxPositionPct * book.equity
        /\ p.frictionBps <= Sleeve.frictionBudgetBps
    BY <2>1 DEF Sound, Covered, BookShapes
  <2>3. Unrealized(book, bar) = Gross(p, bar)
    BY <1>3 DEF Unrealized
  <2> HIDE DEF p
  <2> QED BY <1>1, <1>3, <2>2, <2>3, NeverInDebt
<1> QED BY <1>2, <1>3

LEMMA MarkedIs ==
  ASSUME NEW book \in BookShapes, Sound(book), NEW bar \in Bars,
         book.curve = <<>> => book.position = {} /\ book.trades = <<>>
  PROVE  LET b == Marked(book, bar)
         IN /\ Sound(b) /\ b.position = book.position /\ b.trades = book.trades
            /\ b.rejected = book.rejected
            /\ \E x \in Nat : b.curve = Append(book.curve, x) /\ (b.position = {} => x = b.equity)
<1> DEFINE b == Marked(book, bar)
           x == book.equity + Unrealized(book, bar)
           C == Sleeve.startingCapital
<1>1. x \in Nat /\ (book.position = {} => x = book.equity)
  BY UnrealizedIs
<1>2. b = [book EXCEPT !.curve = Append(@, x)]
  BY DEF Marked
<1>3. book.position = {} /\ book.trades = <<>> => x = C
  BY <1>1, UntouchedCapital DEF Sound
<1> HIDE DEF b, x, C
<1>4. book.curve \in Seq(Nat) /\ Len(book.curve) \in Nat
  <2>1. book.curve \in Seq(Nat)
    BY DEF BookShapes
  <2> QED BY <2>1
<1>5. /\ b.position = book.position /\ b.equity = book.equity /\ b.trades = book.trades
      /\ b.curve = Append(book.curve, x) /\ b.rejected = book.rejected
  BY <1>2 DEF BookShapes
<1>6. b \in BookShapes
  <2>1. Append(book.curve, x) \in Seq(Nat)
    BY <1>1, <1>4
  <2> QED BY <1>2, <2>1 DEF BookShapes
<1>7. Len(b.curve) = Len(book.curve) + 1 /\ b.curve[Len(book.curve) + 1] = x
      /\ \A i \in 1..Len(book.curve) : b.curve[i] = book.curve[i]
  BY <1>1, <1>4, <1>5
<1>8. Flat(b)
  <2>1. b.curve[1] = C
    <3>1. CASE book.curve = <<>>
      BY <1>3, <1>4, <1>7, <3>1
    <3>2. CASE book.curve # <<>>
      <4>1. 1 \in 1..Len(book.curve)
        BY <1>4, <3>2
      <4>2. book.curve[1] = C
        BY <3>2 DEF Sound, Flat, C
      <4> QED BY <1>7, <4>1, <4>2
    <3> QED BY <3>1, <3>2
  <2>2. ASSUME b.position = {}, b.trades = <<>>, NEW i \in 1..Len(b.curve) PROVE b.curve[i] = C
    <3>1. i = Len(book.curve) + 1 \/ i \in 1..Len(book.curve)
      BY <1>4, <1>7
    <3>2. CASE i = Len(book.curve) + 1
      BY <1>3, <1>5, <1>7, <2>2, <3>2
    <3>3. CASE i \in 1..Len(book.curve)
      <4>1. book.curve[i] = C
        BY <1>5, <2>2, <3>3 DEF Sound, Flat, C
      <4> QED BY <1>7, <3>3, <4>1
    <3> QED BY <3>1, <3>2, <3>3
  <2> QED BY <2>1, <2>2 DEF Flat, C
<1>9. Covered(b) /\ Accounted(b)
  BY <1>5 DEF Sound, Covered, Accounted
<1> QED BY <1>1, <1>5, <1>6, <1>8, <1>9 DEF Sound, b
-----------------------------------------------------------------------------
(* The run over the bars. *)

NextBook(f, bars, moves, n) ==
  IF n = 0 THEN NoBook ELSE Marked(Traded(f[n - 1], bars[n], n, moves[n]), bars[n])
AreBooks(f, bars, moves) == f = [n \in 0..Len(bars) |-> NextBook(f, bars, moves, n)]

(* A run takes no position on its first bar. *)
WarmsUp(bars, moves) == bars # <<>> => moves[1] = {}

LEMMA FirstBook == NoBook \in BooksAt(0)
<1> DEFINE b == NoBook
<1>1. /\ b.equity = Sleeve.startingCapital /\ b.position = {} /\ b.trades = <<>> /\ b.curve = <<>>
      /\ b.rejected = <<>>
  BY DEF NoBook
<1>2. Sleeve.startingCapital \in Nat
  BY HistoryAssumption DEF SleeveParameters
<1>3. b \in BookShapes
  <2>1. <<>> \in Seq(Trades) /\ <<>> \in Seq(Nat) /\ <<>> \in Seq(Rejections) /\ {} \in SUBSET Positions
    OBVIOUS
  <2> QED BY <1>2, <2>1 DEF NoBook, BookShapes
<1> HIDE DEF b
<1>4. Accounted(b)
  BY <1>1, <1>2, PnlOfNone DEF Accounted
<1>5. Covered(b) /\ Flat(b) /\ Len(b.curve) = 0
  BY <1>1 DEF Covered, Flat
<1> QED BY <1>1, <1>3, <1>4, <1>5 DEF BooksAt, Sound, b

LEMMA NextBookIs ==
  ASSUME NEW n \in Nat \ {0}, NEW book \in BooksAt(n - 1), NEW bar \in Bars, NEW move, n = 1 => move = {}
  PROVE  LET b == Marked(Traded(book, bar, n, move), bar)
         IN /\ b \in BooksAt(n) /\ Grew(book, b, n)
            /\ \E x \in Nat : b.curve = Append(book.curve, x)
<1> DEFINE t == Traded(book, bar, n, move)
           b == Marked(t, bar)
<1>1. book \in BookShapes /\ Sound(book) /\ Len(book.curve) = n - 1
      /\ (n - 1 <= 1 => book.position = {} /\ book.trades = <<>>)
  BY DEF BooksAt
<1>2. /\ Sound(t) /\ t.curve = book.curve /\ Grew(book, t, n)
      /\ (book.position = {} /\ move = {} => t = book)
  BY <1>1, TradedIs
<1>3. t \in BookShapes
  BY <1>2 DEF Sound
<1>4. book.curve \in Seq(Nat)
  BY <1>1 DEF BookShapes
<1>5. n = 1 => t.position = {} /\ t.trades = <<>>
  BY <1>1, <1>2
<1>6. t.curve = <<>> => n = 1
  <2>1. book.curve = <<>> => Len(book.curve) = 0
    BY <1>4
  <2> QED BY <1>1, <1>2, <2>1
<1> HIDE DEF t
<1>7. /\ Sound(b) /\ b.position = t.position /\ b.trades = t.trades /\ b.rejected = t.rejected
      /\ \E x \in Nat : b.curve = Append(t.curve, x) /\ (b.position = {} => x = b.equity)
  BY <1>2, <1>3, <1>5, <1>6, MarkedIs
<1> HIDE DEF b
<1>8. PICK x \in Nat : b.curve = Append(book.curve, x) /\ (b.position = {} => x = b.equity)
  BY <1>2, <1>7
<1>9. Len(b.curve) = n /\ b.curve[n] = x
  BY <1>1, <1>4, <1>8
<1>10. Grew(book, b, n)
  BY <1>2, <1>7 DEF Grew
<1>11. n <= 1 => b.position = {} /\ b.trades = <<>>
  BY <1>5, <1>7
<1>12. b \in BooksAt(n)
  BY <1>7, <1>8, <1>9, <1>11 DEF BooksAt, Sound
<1> QED BY <1>8, <1>10, <1>12 DEF b, t

LEMMA BooksExist ==
  ASSUME NEW bars \in Seq(Bars), NEW moves, WarmsUp(bars, moves)
  PROVE  \E f : AreBooks(f, bars, moves) /\ \A n \in 0..Len(bars) : f[n] \in BooksAt(n)
<1> DEFINE step == [q \in (1..Len(bars)) \X BookShapes |->
                      Marked(Traded(q[2], bars[q[1]], q[1], moves[q[1]]), bars[q[1]])]
           X == [n \in 0..Len(bars) |-> BooksAt(n)]
<1>1. Len(bars) \in Nat /\ 0 \in Nat /\ 0 <= Len(bars) /\ 0 + 1 = 1
      /\ \A n \in 1..Len(bars) : bars[n] \in Bars /\ n - 1 \in 0..Len(bars) /\ n \in 0..Len(bars)
  OBVIOUS
<1>2. \A n \in 1..Len(bars) : \A x \in BookShapes :
        step[<<n, x>>] = Marked(Traded(x, bars[n], n, moves[n]), bars[n])
  OBVIOUS
<1>3. \A n \in 0..Len(bars) : X[n] = BooksAt(n)
  OBVIOUS
<1>4. \A n : BooksAt(n) \subseteq BookShapes
  BY DEF BooksAt
<1> HIDE DEF step, X
<1>5. NoBook \in X[0]
  BY <1>1, <1>3, FirstBook
<1>6. ASSUME NEW n \in (0 + 1)..Len(bars), NEW x \in X[n - 1] PROVE step[<<n, x>>] \in X[n]
  <2>1. n \in 1..Len(bars) /\ n \in Nat \ {0}
    OBVIOUS
  <2>2. x \in BooksAt(n - 1) /\ X[n] = BooksAt(n) /\ bars[n] \in Bars
    BY <1>1, <1>3, <1>6, <2>1
  <2>3. x \in BookShapes
    BY <1>4, <2>2
  <2>4. n = 1 => moves[n] = {}
    <3>1. bars # <<>>
      BY <2>1
    <3> QED BY <3>1 DEF WarmsUp
  <2>5. step[<<n, x>>] = Marked(Traded(x, bars[n], n, moves[n]), bars[n])
    BY <1>2, <2>1, <2>3
  <2>6. Marked(Traded(x, bars[n], n, moves[n]), bars[n]) \in BooksAt(n)
    BY <2>1, <2>2, <2>4, NextBookIs
  <2> QED BY <2>2, <2>5, <2>6
<1>7. PICK f : Iterates(f, 0, Len(bars), NoBook, step) /\ Within(f, 0, Len(bars), X)
  BY <1>1, <1>5, <1>6, IterationExists
<1>8. \A n \in 0..Len(bars) : f[n] \in BooksAt(n)
  BY <1>3, <1>7 DEF Within
<1>9. \A n \in 0..Len(bars) : f[n] = NextBook(f, bars, moves, n)
  <2> SUFFICES ASSUME NEW n \in 0..Len(bars) PROVE f[n] = NextBook(f, bars, moves, n)
    OBVIOUS
  <2>1. CASE n = 0
    BY <1>7, <2>1 DEF Iterates, NextBook
  <2>2. CASE n # 0
    <3>1. n \in 1..Len(bars) /\ n \in (0 + 1)..Len(bars)
      BY <2>2
    <3>2. f[n] = step[<<n, f[n - 1]>>]
      BY <1>7, <3>1 DEF Iterates
    <3>3. f[n - 1] \in BookShapes
      BY <1>1, <1>4, <1>8, <3>1
    <3>4. f[n] = Marked(Traded(f[n - 1], bars[n], n, moves[n]), bars[n])
      BY <1>2, <3>1, <3>2, <3>3
    <3> QED BY <2>2, <3>4 DEF NextBook
  <2> QED BY <2>1, <2>2
<1>10. f = [n \in 0..Len(bars) |-> f[n]]
  BY <1>7 DEF Iterates
<1>11. f = [n \in 0..Len(bars) |-> NextBook(f, bars, moves, n)]
  BY <1>9, <1>10
<1> QED BY <1>8, <1>11 DEF AreBooks

(* Runs over the same bars with the same signals have made the same books.   *)
LEMMA BooksAgree ==
  ASSUME NEW bars, NEW more, NEW moves, NEW moved, NEW f, NEW g,
         AreBooks(f, bars, moves), AreBooks(g, more, moved),
         Len(bars) \in Nat, Len(more) \in Nat, Len(bars) <= Len(more),
         \A n \in 1..Len(bars) : bars[n] = more[n] /\ moves[n] = moved[n]
  PROVE  \A n \in 0..Len(bars) : f[n] = g[n]
<1> DEFINE T == {n \in 0..Len(bars) : f[n] = g[n]}
<1>1. \A n \in 0..Len(bars) : f[n] = NextBook(f, bars, moves, n)
  BY DEF AreBooks
<1>2. \A n \in 0..Len(more) : g[n] = NextBook(g, more, moved, n)
  BY DEF AreBooks
<1>3. \A n \in 0..Len(bars) : n \in 0..Len(more)
  OBVIOUS
<1>4. 0 \in T
  BY <1>1, <1>2, <1>3 DEF NextBook
<1>5. ASSUME NEW n \in (0 + 1)..Len(bars), n - 1 \in T PROVE n \in T
  <2>1. n \in 0..Len(bars) /\ n \in 1..Len(bars) /\ n # 0 /\ f[n - 1] = g[n - 1]
    BY <1>5
  <2>2. /\ f[n] = Marked(Traded(f[n - 1], bars[n], n, moves[n]), bars[n])
        /\ g[n] = Marked(Traded(g[n - 1], more[n], n, moved[n]), more[n])
    BY <1>1, <1>2, <1>3, <2>1 DEF NextBook
  <2> QED BY <2>1, <2>2
<1> HIDE DEF T
<1>6. \A n \in 0..Len(bars) : n \in T
  BY <1>4, <1>5, Climbs
<1> QED BY <1>6 DEF T

LEMMA BooksAre ==
  ASSUME NEW bars \in Seq(Bars), NEW moves, WarmsUp(bars, moves)
  PROVE  \E f : /\ AreBooks(f, bars, moves) /\ Books(bars, moves) = f[Len(bars)]
                /\ \A n \in 0..Len(bars) : f[n] \in BooksAt(n)
<1> DEFINE it == CHOOSE it : it = [i \in 0..Len(bars) |->
                   IF i = 0 THEN NoBook ELSE Marked(Traded(it[i - 1], bars[i], i, moves[i]), bars[i])]
<1>1. Books(bars, moves) = it[Len(bars)]
  BY Zenon DEF Books
<1>2. PICK f : AreBooks(f, bars, moves) /\ \A n \in 0..Len(bars) : f[n] \in BooksAt(n)
  BY BooksExist
<1>3. AreBooks(it, bars, moves)
  <2>1. f = [i \in 0..Len(bars) |->
               IF i = 0 THEN NoBook ELSE Marked(Traded(f[i - 1], bars[i], i, moves[i]), bars[i])]
    BY <1>2, Zenon DEF AreBooks, NextBook
  <2>2. it = [i \in 0..Len(bars) |->
                IF i = 0 THEN NoBook ELSE Marked(Traded(it[i - 1], bars[i], i, moves[i]), bars[i])]
    BY <2>1, Zenon
  <2> HIDE DEF it
  <2> QED BY <2>2, Zenon DEF AreBooks, NextBook
<1> HIDE DEF it
<1>4. Len(bars) \in Nat
  OBVIOUS
<1>5. \A n \in 0..Len(bars) : it[n] = f[n]
  BY <1>2, <1>3, <1>4, BooksAgree
<1> QED BY <1>1, <1>2, <1>3, <1>5

LEMMA BookTyped ==
  ASSUME NEW bars \in Seq(Bars), NEW moves, WarmsUp(bars, moves)
  PROVE  Books(bars, moves) \in BooksAt(Len(bars))
<1>1. Len(bars) \in 0..Len(bars)
  OBVIOUS
<1> QED BY <1>1, BooksAre

LEMMA BooksGrow ==
  ASSUME NEW bars \in Seq(Bars), NEW bar \in Bars, NEW moves, NEW moved,
         WarmsUp(bars, moves), WarmsUp(Append(bars, bar), moved),
         \A n \in 1..Len(bars) : moves[n] = moved[n]
  PROVE  Books(Append(bars, bar), moved) =
           Marked(Traded(Books(bars, moves), bar, Len(bars) + 1, moved[Len(bars) + 1]), bar)
<1> DEFINE more == Append(bars, bar)
           N == Len(bars)
<1>1. /\ more \in Seq(Bars) /\ Len(more) = N + 1 /\ N \in Nat /\ more[N + 1] = bar
      /\ \A n \in 1..N : bars[n] = more[n]
  OBVIOUS
<1>9. WarmsUp(more, moved)
  OBVIOUS
<1> HIDE DEF more
<1>2. PICK f : AreBooks(f, bars, moves) /\ Books(bars, moves) = f[Len(bars)]
  BY BooksAre
<1>3. PICK g : AreBooks(g, more, moved) /\ Books(more, moved) = g[Len(more)]
  BY <1>1, <1>9, BooksAre
<1>4. Len(more) \in Nat /\ Len(bars) <= Len(more) /\ Len(bars) \in 0..Len(bars)
      /\ N + 1 \in 0..Len(more) /\ N + 1 # 0 /\ (N + 1) - 1 = N
  BY <1>1
<1>5. \A n \in 1..Len(bars) : bars[n] = more[n] /\ moves[n] = moved[n]
  BY <1>1
<1>6. f[N] = g[N]
  BY <1>1, <1>2, <1>3, <1>4, <1>5, BooksAgree
<1>7. g[N + 1] = NextBook(g, more, moved, N + 1)
  BY <1>3, <1>4 DEF AreBooks
<1>8. g[N + 1] = Marked(Traded(g[N], more[N + 1], N + 1, moved[N + 1]), more[N + 1])
  BY <1>4, <1>7, Zenon DEF NextBook
<1> QED BY <1>1, <1>2, <1>3, <1>6, <1>8 DEF more
-----------------------------------------------------------------------------
(* Peaks and drawdowns. *)

(* The highest of a row of naturals, as the maximum of the set of them.      *)
LEMMA MaxOfRow ==
  ASSUME NEW n \in Nat \ {0}, NEW f \in [1..n -> Nat]
  PROVE  LET s == {f[k] : k \in 1..n}
         IN Max(s) \in s /\ \A k \in 1..n : f[k] <= Max(s)
<1> DEFINE s == {f[k] : k \in 1..n}
<1>1. PICK p \in 1..n : \A k \in 1..n : f[k] <= f[p]
  BY RowHasAPeak
<1>2. \A k \in 1..n : f[k] \in s
  OBVIOUS
<1>3. \E x \in s : \A y \in s : x >= y
  <2>1. f[p] \in s
    BY <1>2
  <2>2. \A y \in s : f[p] >= y
    <3> SUFFICES ASSUME NEW k \in 1..n PROVE f[p] >= f[k]
      OBVIOUS
    <3>1. f[p] \in Nat /\ f[k] \in Nat /\ f[k] <= f[p]
      BY <1>1
    <3> QED BY <3>1
  <2> QED BY <2>1, <2>2
<1>4. s \subseteq Nat
  OBVIOUS
<1> HIDE DEF s
<1>5. Max(s) \in s /\ \A y \in s : Max(s) >= y
  BY <1>3, Zenon DEF Max
<1>6. ASSUME NEW k \in 1..n PROVE f[k] <= Max(s)
  <2>1. f[k] \in s /\ f[k] \in Nat /\ Max(s) \in Nat
    BY <1>2, <1>4, <1>5
  <2> QED BY <1>5, <2>1
<1> QED BY <1>5, <1>6 DEF s

LEMMA PeakIs ==
  ASSUME NEW curve \in Seq(Nat), NEW i \in 1..Len(curve)
  PROVE  /\ Peak(curve, i) \in {curve[k] : k \in 1..i}
         /\ Peak(curve, i) \in Nat /\ \A k \in 1..i : curve[k] <= Peak(curve, i)
<1> DEFINE f == [k \in 1..i |-> curve[k]]
<1>1. \A k \in 1..i : k \in 1..Len(curve) /\ curve[k] \in Nat
  OBVIOUS
<1>2. i \in Nat \ {0} /\ f \in [1..i -> Nat]
  BY <1>1
<1>3. {f[k] : k \in 1..i} = {curve[k] : k \in 1..i}
  OBVIOUS
<1>4. \A k \in 1..i : f[k] = curve[k]
  OBVIOUS
<1> HIDE DEF f
<1> DEFINE s == {f[k] : k \in 1..i}
<1>5. Max(s) \in s /\ \A k \in 1..i : f[k] <= Max(s)
  BY <1>2, MaxOfRow
<1>6. Peak(curve, i) = Max(s)
  BY <1>3, Zenon DEF Peak
<1>7. s \subseteq Nat
  BY <1>2
<1> QED BY <1>3, <1>4, <1>5, <1>6, <1>7

(* What the last point of a curve has lost since its peak.                   *)
Fall(curve, i) == (1000 * (Peak(curve, i) - curve[i])) \div Peak(curve, i)

LEMMA FallIs ==
  ASSUME NEW curve \in Seq(Nat), NEW i \in 1..Len(curve), Peak(curve, i) > 0
  PROVE  Fall(curve, i) \in Nat
<1> DEFINE p == Peak(curve, i)
           x == 1000 * (p - curve[i])
<1>1. p \in Nat \ {0} /\ curve[i] \in Nat /\ curve[i] <= p
  <2>1. i \in 1..i /\ curve[i] \in Nat
    OBVIOUS
  <2> QED BY <2>1, PeakIs
<1>2. Fall(curve, i) = x \div p
  BY DEF Fall
<1>3. x \in Int /\ x >= p * 0 /\ 0 \in Int
  BY <1>1
<1> HIDE DEF p, x
<1>4. x \div p >= 0 /\ x \div p \in Int
  BY <1>1, <1>3, QuotientAbove, RatioTyped
<1> QED BY <1>2, <1>4

LEMMA DrawdownIs ==
  ASSUME NEW curve \in Seq(Nat)
  PROVE  /\ MaxDrawdown(curve) \in Nat
         /\ \A i \in 1..Len(curve) : Peak(curve, i) > 0 => Fall(curve, i) <= MaxDrawdown(curve)
         /\ \/ MaxDrawdown(curve) = 0
            \/ \E i \in 1..Len(curve) : Peak(curve, i) > 0 /\ MaxDrawdown(curve) = Fall(curve, i)
<1> DEFINE n == Len(curve) + 1
           D == {k \in 1..Len(curve) : Peak(curve, k) > 0}
           f == [k \in 1..n |-> IF k \in D THEN Fall(curve, k) ELSE 0]
           s == {f[k] : k \in 1..n}
<1>1. Len(curve) \in Nat /\ n \in Nat \ {0} /\ n \in 1..n /\ n \notin D /\ D \subseteq 1..n
  OBVIOUS
<1>2. \A k \in D : Fall(curve, k) \in Nat
  BY FallIs
<1>3. f \in [1..n -> Nat]
  BY <1>2
<1>4. (\A k \in D : f[k] = Fall(curve, k)) /\ f[n] = 0 /\ \A k \in 1..n : k \notin D => f[k] = 0
  BY <1>1
<1>5. MaxDrawdown(curve) = Max({0} \cup {Fall(curve, i) : i \in D})
  BY Zenon DEF MaxDrawdown, Fall
<1> HIDE DEF f, D, n
<1>6. s = {0} \cup {Fall(curve, i) : i \in D}
  <2>1. ASSUME NEW x \in s PROVE x \in {0} \cup {Fall(curve, i) : i \in D}
    <3>1. PICK k \in 1..n : x = f[k]
      OBVIOUS
    <3> QED BY <1>4, <3>1
  <2>2. ASSUME NEW x \in {0} \cup {Fall(curve, i) : i \in D} PROVE x \in s
    <3>1. CASE x = 0
      BY <1>1, <1>4, <3>1
    <3>2. CASE \E i \in D : x = Fall(curve, i)
      BY <1>1, <1>4, <3>2
    <3> QED BY <3>1, <3>2
  <2> HIDE DEF s
  <2> QED BY <2>1, <2>2
<1>7. Max(s) \in s /\ \A k \in 1..n : f[k] <= Max(s)
  BY <1>1, <1>3, MaxOfRow
<1>8. s \subseteq Nat
  BY <1>3
<1> HIDE DEF s
<1>9. MaxDrawdown(curve) = Max(s)
  BY <1>5, <1>6
<1>10. \A i \in D : Fall(curve, i) <= MaxDrawdown(curve)
  BY <1>1, <1>4, <1>7, <1>9
<1>11. MaxDrawdown(curve) = 0 \/ \E i \in D : MaxDrawdown(curve) = Fall(curve, i)
  BY <1>6, <1>7, <1>9
<1>12. MaxDrawdown(curve) \in Nat
  BY <1>7, <1>8, <1>9
<1> QED BY <1>10, <1>11, <1>12 DEF D

PerMille(x, whole) == (1000 * x) \div whole

(* A curve that starts at c and ends at e has fallen by the share of c that  *)
(* is missing, or further.                                                   *)
LEMMA FallCoversTheLoss ==
  ASSUME NEW c \in Nat \ {0}, NEW e \in Nat, NEW p \in Nat, c <= p, e <= p
  PROVE  PerMille(p - e, p) >= -(PerMille(e - c, c) + 1)
<1> DEFINE r == (1000 * (e - c)) \div c
           k == -(r + 1)
<1>1. 1000 * (e - c) \in Int
  OBVIOUS
<1>2. r \in Int /\ 1000 * (e - c) < c * r + c
  <2> DEFINE x == 1000 * (e - c)
  <2> HIDE DEF x
  <2>1. x \in Int => x \div c \in Int /\ x < c * (x \div c) + c
    OBVIOUS
  <2> QED BY <1>1, <2>1 DEF x
<1> HIDE DEF r
<1>3. k \in Int /\ c * k = -(c * r + c) /\ c * r \in Int
  BY <1>2
<1>4. c * k <= 1000 * (c - e)
  BY <1>2, <1>3
<1> HIDE DEF k
<1>5. 1000 * (p - e) >= p * k
  <2>1. CASE k <= 0
    <3>1. p * k <= p * 0 /\ p * k \in Int
      BY <1>3, <2>1, TimesMonotone
    <3> QED BY <3>1
  <2>2. CASE k > 0
    <3>1. k <= 1000
      <4>1. ASSUME k > 1000 PROVE FALSE
        <5>1. c * 1001 <= c * k
          BY <1>3, <4>1, TimesMonotone
        <5>2. c * k \in Int
          BY <1>3
        <5> QED BY <1>4, <5>1, <5>2
      <4> QED BY <1>3, <4>1
    <3>2. (p - c) * k <= (p - c) * 1000
      <4>1. p - c \in Nat
        OBVIOUS
      <4> QED BY <1>3, <3>1, <4>1, TimesMonotone
    <3>3. p * k = c * k + (p - c) * k /\ c * k \in Int /\ (p - c) * k \in Int
      BY <1>3
    <3> QED BY <1>4, <3>2, <3>3
  <2> QED BY <1>3, <2>1, <2>2
<1>6. p \in Nat \ {0} /\ 1000 * (p - e) \in Int
  OBVIOUS
<1>7. (1000 * (p - e)) \div p >= k
  BY <1>3, <1>5, <1>6, QuotientAbove
<1>8. PerMille(p - e, p) >= k
  BY <1>7 DEF PerMille
<1> QED BY <1>8 DEF k, r, PerMille
-----------------------------------------------------------------------------
(* The end of a run. *)

LEMMA ClosedAtTheEnd ==
  ASSUME NEW n \in Nat \ {0}, NEW book \in BooksAt(n), NEW bars \in Seq(Bars), Len(bars) = n
  PROVE  LET run == EndOfData(book, bars)
         IN /\ run.position = {} /\ run.equity \in Nat /\ Accounted(run)
            /\ run.trades \in Seq(Trades) /\ run.curve \in Seq(Nat) /\ Len(run.curve) = n
            /\ run.curve[n] = run.equity /\ run.curve[1] = Sleeve.startingCapital
            /\ run.trades = <<>> => \A i \in 1..n : run.curve[i] = Sleeve.startingCapital
<1> DEFINE run == EndOfData(book, bars)
<1>1. /\ book \in BookShapes /\ Sound(book) /\ Len(book.curve) = n
      /\ (n <= 1 => book.position = {}) /\ (book.position = {} => book.curve[n] = book.equity)
  BY DEF BooksAt
<1>2. book.curve \in Seq(Nat) /\ book.trades \in Seq(Trades) /\ book.equity \in Nat
  BY <1>1 DEF BookShapes
<1>3. book.curve # <<>>
  BY <1>1, <1>2
<1>4. book.curve[1] = Sleeve.startingCapital
  BY <1>1, <1>3 DEF Sound, Flat
<1>5. CASE book.position = {}
  <2>1. run = book
    BY <1>5 DEF EndOfData
  <2>2. book.trades = <<>> => \A i \in 1..n : book.curve[i] = Sleeve.startingCapital
    BY <1>1, <1>5 DEF Sound, Flat
  <2> HIDE DEF run
  <2> QED BY <1>1, <1>2, <1>4, <1>5, <2>1, <2>2 DEF Sound, run
<1>6. CASE book.position # {}
  <2> DEFINE bar == Last(bars)
             closed == ClosePosition(book, bar, Len(bars), "end_of_data")
             curve == Append(Front(book.curve), closed.equity)
  <2>1. bar \in Bars /\ Len(bars) \in Nat /\ "end_of_data" \in Reasons
    BY DEF Last, Reasons
  <2>2. run = [closed EXCEPT !.curve = Append(Front(@), closed.equity)]
    BY <1>6 DEF EndOfData
  <2> HIDE DEF bar
  <2>3. /\ closed \in BookShapes /\ Accounted(closed) /\ closed.position = {}
        /\ closed.curve = book.curve
        /\ \E t \in Trades : closed.trades = Append(book.trades, t)
    BY <1>1, <1>6, <2>1, ClosedIs
  <2> HIDE DEF closed
  <2>4. n > 1
    BY <1>1, <1>6
  <2>5. closed.equity \in Nat /\ closed.trades \in Seq(Trades) /\ closed.trades # <<>>
    <3>1. PICK t \in Trades : closed.trades = Append(book.trades, t)
      BY <2>3
    <3>2. closed.trades \in Seq(Trades) /\ closed.trades # <<>>
      <4>1. book.trades \in Seq(Trades)
        BY <1>2
      <4>2. Len(closed.trades) = Len(book.trades) + 1 /\ Len(book.trades) \in Nat
        BY <3>1, <4>1
      <4>3. closed.trades \in Seq(Trades)
        BY <3>1, <4>1
      <4> QED BY <4>2, <4>3
    <3>3. closed.equity \in Nat
      BY <2>3 DEF BookShapes
    <3> QED BY <3>2, <3>3
  <2> DEFINE front == SubSeq(book.curve, 1, n - 1)
  <2>6. front \in Seq(Nat) /\ Len(front) = n - 1 /\ front[1] = book.curve[1]
    <3>1. \A i \in 1..(n - 1) : book.curve[i] \in Nat
      BY <1>1, <1>2
    <3>2. 1 <= n - 1 /\ n - 1 - 1 + 1 = n - 1 /\ 1 \in 1..(n - 1 - 1 + 1) /\ n - 1 \in Int
      BY <2>4
    <3> QED BY <3>1, <3>2, SubSeqProperties
  <2>7. curve = Append(front, closed.equity)
    BY <1>1 DEF Front
  <2> HIDE DEF front, curve
  <2>8. curve \in Seq(Nat) /\ Len(curve) = n /\ curve[n] = closed.equity /\ curve[1] = book.curve[1]
    BY <2>4, <2>5, <2>6, <2>7
  <2>9. run = [closed EXCEPT !.curve = curve]
    BY <2>2, <2>3 DEF curve
  <2> HIDE DEF run
  <2>10. run.position = {} /\ run.equity = closed.equity /\ run.trades = closed.trades /\ run.curve = curve
    BY <2>3, <2>9 DEF BookShapes
  <2>11. Accounted(run)
    BY <2>3, <2>10 DEF Accounted
  <2> QED BY <1>4, <2>5, <2>8, <2>10, <2>11 DEF run
<1> QED BY <1>5, <1>6

LEMMA OneRun == ASSUME NEW r PROVE Len(<<r>>) = 1 /\ (<<r>>)[1] = r
OBVIOUS

LEMMA SumOverOneRun ==
  ASSUME NEW xs, NEW x \in Int, xs = [k \in 1..1 |-> x]
  PROVE  SumOf(xs) = x
<1>1. xs = <<x>>
  OBVIOUS
<1> QED BY <1>1, SumOfOne

(* The line of one run. *)
LEMMA LineIs ==
  ASSUME NEW run, TotalReturn(run) \in Int, MaxDrawdown(run.curve) \in Nat, Len(run.trades) \in Nat
  PROVE  LET line == SummarizeMany(<<run>>)
         IN /\ line.numTrades = Len(run.trades)
            /\ line.totalReturn = TotalReturn(run)
            /\ line.maxDrawdown = MaxDrawdown(run.curve)
<1> DEFINE runs == <<run>>
           line == SummarizeMany(runs)
<1>1. Len(runs) = 1 /\ runs[1] = run
  OBVIOUS
<1> HIDE DEF runs
<1>2. line.numTrades = SumOf([k \in 1..Len(runs) |-> Len(runs[k].trades)])
  BY DEF SummarizeMany
<1>3. line.totalReturn = SumOf([k \in 1..Len(runs) |-> TotalReturn(runs[k])]) \div Larger(1, Len(runs))
  BY DEF SummarizeMany
<1>4. line.maxDrawdown = Max({0} \cup {MaxDrawdown(runs[k].curve) : k \in 1..Len(runs)})
  BY DEF SummarizeMany
<1> HIDE DEF line
<1>5. line.numTrades = Len(run.trades)
  <2>1. [k \in 1..Len(runs) |-> Len(runs[k].trades)] = [k \in 1..1 |-> Len(run.trades)]
    BY <1>1
  <2>2. Len(run.trades) \in Int
    OBVIOUS
  <2>3. SumOf([k \in 1..1 |-> Len(run.trades)]) = Len(run.trades)
    BY <2>2, SumOverOneRun
  <2> QED BY <1>2, <2>1, <2>3
<1>6. line.totalReturn = TotalReturn(run)
  <2>1. [k \in 1..Len(runs) |-> TotalReturn(runs[k])] = [k \in 1..1 |-> TotalReturn(run)]
    BY <1>1
  <2>2. SumOf([k \in 1..Len(runs) |-> TotalReturn(runs[k])]) = TotalReturn(run)
    BY <2>1, SumOverOneRun
  <2>3. Larger(1, Len(runs)) = 1
    BY <1>1 DEF Larger
  <2>4. line.totalReturn = TotalReturn(run) \div 1
    BY <1>3, <2>2, <2>3
  <2> QED BY <2>4
<1>7. line.maxDrawdown = MaxDrawdown(run.curve)
  <2> DEFINE d == MaxDrawdown(run.curve)
  <2>1. {0} \cup {MaxDrawdown(runs[k].curve) : k \in 1..Len(runs)} = {0, d}
    BY <1>1
  <2> HIDE DEF d
  <2>2. d \in Nat
    BY DEF d
  <2>3. \A x \in {0, d} : (\A y \in {0, d} : x >= y) => x = d
    BY <2>2
  <2>4. d \in {0, d} /\ \A y \in {0, d} : d >= y
    BY <2>2
  <2>5. Max({0, d}) = d
    <3>1. Max({0, d}) \in {0, d} /\ \A y \in {0, d} : Max({0, d}) >= y
      BY <2>4, Zenon DEF Max
    <3> QED BY <2>3, <3>1
  <2> QED BY <1>4, <2>1, <2>5 DEF d
<1> QED BY <1>5, <1>6, <1>7 DEF line, runs

LEMMA FlatHasNoFall ==
  ASSUME NEW curve \in Seq(Nat), NEW c \in Nat \ {0}, \A i \in 1..Len(curve) : curve[i] = c
  PROVE  MaxDrawdown(curve) = 0
<1>1. ASSUME NEW i \in 1..Len(curve) PROVE Fall(curve, i) = 0
  <2>1. \A k \in 1..i : curve[k] = c
    OBVIOUS
  <2>2. Peak(curve, i) = c /\ curve[i] = c
    BY <2>1, PeakIs
  <2>3. Fall(curve, i) = 0 \div c
    BY <2>2 DEF Fall
  <2>4. 0 \div c = 0
    OBVIOUS
  <2> QED BY <2>3, <2>4
<1> QED BY <1>1, DrawdownIs

(* What is reported of a run that is over. *)
LEMMA RunReported ==
  ASSUME NEW n \in Nat \ {0}, NEW run, run.position = {}, run.equity \in Nat, Accounted(run),
         run.trades \in Seq(Trades), run.curve \in Seq(Nat), Len(run.curve) = n,
         run.curve[n] = run.equity, run.curve[1] = Sleeve.startingCapital,
         run.trades = <<>> => \A i \in 1..n : run.curve[i] = Sleeve.startingCapital
  PROVE  LET line == SummarizeMany(<<run>>)
         IN /\ Last(run.curve) = Sleeve.startingCapital
                                 + SumOf([i \in 1..Len(run.trades) |-> run.trades[i].pnl])
            /\ \A i \in 1..Len(run.curve) : run.curve[i] >= 0
            /\ line.maxDrawdown >= -(line.totalReturn + 1)
            /\ line.numTrades = 0 => line.totalReturn = 0 /\ line.maxDrawdown = 0
<1> DEFINE c == Sleeve.startingCapital
           e == run.equity
           curve == run.curve
           line == SummarizeMany(<<run>>)
<1>1. c \in Nat \ {0} /\ e \in Nat
  BY HistoryAssumption DEF SleeveParameters
<1>2. Last(curve) = c + SumOf([i \in 1..Len(run.trades) |-> run.trades[i].pnl])
  <2>1. Last(curve) = e
    BY DEF Last
  <2>2. e = c + PnlOf(run.trades)
    BY DEF Accounted
  <2> QED BY <2>1, <2>2 DEF PnlOf
<1>3. \A i \in 1..Len(curve) : curve[i] >= 0
  <2>1. \A i \in 1..Len(curve) : curve[i] \in Nat
    OBVIOUS
  <2> QED BY <2>1
<1>4. TotalReturn(run) = PerMille(e - c, c) /\ TotalReturn(run) \in Int
  <2>1. TotalReturn(run) = (1000 * (e - c)) \div c
    BY DEF TotalReturn
  <2> HIDE DEF e, c
  <2>2. 1000 * (e - c) \in Int
    BY <1>1
  <2>3. TotalReturn(run) \in Int
    BY <1>1, <2>1, <2>2, RatioTyped
  <2> QED BY <2>1, <2>3 DEF PerMille
<1>5. /\ line.numTrades = Len(run.trades) /\ line.totalReturn = TotalReturn(run)
      /\ line.maxDrawdown = MaxDrawdown(curve)
  <2>1. MaxDrawdown(curve) \in Nat /\ Len(run.trades) \in Nat
    BY DrawdownIs
  <2> QED BY <1>4, <2>1, LineIs
<1> HIDE DEF line
<1>6. line.maxDrawdown >= -(line.totalReturn + 1)
  <2> DEFINE p == Peak(curve, n)
  <2>1. n \in 1..Len(curve) /\ 1 \in 1..n /\ n \in 1..n /\ curve[n] = e /\ curve[1] = c
    OBVIOUS
  <2> HIDE DEF e, c, curve
  <2>2. curve \in Seq(Nat)
    BY DEF curve
  <2>3. p \in Nat /\ c <= p /\ e <= p
    BY <2>1, <2>2, PeakIs
  <2>4. Fall(curve, n) = PerMille(p - e, p)
    BY <2>1 DEF Fall, PerMille
  <2>5. Fall(curve, n) <= MaxDrawdown(curve) /\ Fall(curve, n) \in Nat /\ MaxDrawdown(curve) \in Nat
    <3>1. Peak(curve, n) > 0
      BY <1>1, <2>3
    <3>2. n \in 1..Len(curve)
      BY <2>1
    <3> HIDE DEF p
    <3>3. Fall(curve, n) \in Nat
      BY <2>2, <3>1, <3>2, FallIs
    <3>4. MaxDrawdown(curve) \in Nat /\ Fall(curve, n) <= MaxDrawdown(curve)
      BY <2>2, <3>1, <3>2, DrawdownIs
    <3> QED BY <3>3, <3>4
  <2> HIDE DEF p
  <2>6. PerMille(p - e, p) >= -(PerMille(e - c, c) + 1)
    BY <1>1, <2>3, FallCoversTheLoss
  <2>7. Fall(curve, n) >= -(TotalReturn(run) + 1)
    BY <1>4, <2>4, <2>6
  <2>8. MaxDrawdown(curve) >= -(TotalReturn(run) + 1)
    BY <1>4, <2>5, <2>7
  <2> QED BY <1>5, <2>8
<1>7. ASSUME line.numTrades = 0 PROVE line.totalReturn = 0 /\ line.maxDrawdown = 0
  <2>1. run.trades = <<>>
    <3>1. Len(run.trades) = 0
      BY <1>5, <1>7
    <3> QED BY <3>1
  <2>2. (\A i \in 1..Len(curve) : curve[i] = c) /\ e = c
    BY <2>1
  <2>3. MaxDrawdown(curve) = 0
    BY <1>1, <2>2, FlatHasNoFall
  <2> HIDE DEF e, c, curve
  <2>4. (1000 * (e - c)) \div c = 0
    <3>1. 1000 * (e - c) = 0
      BY <1>1, <2>2
    <3>2. 0 \div c = 0
      BY <1>1
    <3> QED BY <3>1, <3>2
  <2>5. TotalReturn(run) = 0
    BY <1>4, <2>4 DEF PerMille
  <2> QED BY <1>5, <2>3, <2>5 DEF curve
<1> QED BY <1>2, <1>3, <1>6, <1>7 DEF line
-----------------------------------------------------------------------------
(* The signals. *)

Signals(family, t, b) ==
  MovesOf(IF family = "momentum" THEN SmaScores(AlignedBars(t, b)) ELSE RsScores(t, b))

(* The last bars of a series, as many as the other has at most.              *)
LEMMA AlignedIs ==
  ASSUME NEW s \in Seq(Bars), NEW r \in Seq(Bars)
  PROVE  LET n == Smaller(Len(s), Len(r))
             d == Len(s) - n
             aligned == AlignedBars(s, r)
         IN /\ n \in Nat /\ n <= Len(s) /\ n <= Len(r) /\ d \in Nat
            /\ aligned \in Seq(Bars) /\ Len(aligned) = n
            /\ \A i \in 1..n : aligned[i] = s[i + d]
<1> DEFINE m == Len(s)
           n == Smaller(Len(s), Len(r))
           aligned == AlignedBars(s, r)
<1>1. n \in Nat /\ m \in Nat /\ n <= m /\ n <= Len(r)
  BY DEF Smaller
<1>2. aligned = SubSeq(s, m - n + 1, m)
  BY DEF AlignedBars, LastBars
<1> HIDE DEF n
<1>3. \A i \in (m - n + 1)..m : s[i] \in Bars
  BY <1>1
<1>4. m - n + 1 \in Int /\ m \in Int /\ m - (m - n + 1) + 1 = n /\ m - n \in Nat
  BY <1>1
<1>5. /\ aligned \in Seq(Bars) /\ Len(aligned) = IF m - n + 1 <= m THEN n ELSE 0
      /\ \A i \in 1..n : aligned[i] = s[m - n + 1 + i - 1]
  BY <1>2, <1>3, <1>4, SubSeqProperties
<1> HIDE DEF m, aligned
<1>6. Len(aligned) = n
  BY <1>1, <1>5
<1>7. \A i \in 1..n : m - n + 1 + i - 1 = i + (m - n)
  BY <1>1
<1> QED BY <1>1, <1>4, <1>5, <1>6, <1>7 DEF m, n, aligned

(* Two series of one length: a pair of bars at each position.                *)
Paired(t, b) == t \in Seq(Bars) /\ b \in Seq(Bars) /\ Len(t) = Len(b)

LEMMA AlignedArePaired ==
  ASSUME NEW s \in Seq(Bars), NEW r \in Seq(Bars)
  PROVE  Paired(AlignedBars(s, r), AlignedBars(r, s))
<1>1. Smaller(Len(s), Len(r)) = Smaller(Len(r), Len(s))
  BY DEF Smaller
<1> QED BY <1>1, AlignedIs DEF Paired

LEMMA PairsAreAligned ==
  ASSUME NEW t, NEW b, Paired(t, b)
  PROVE  AlignedBars(t, b) = t /\ AlignedBars(b, t) = b
<1> DEFINE n == Len(t)
<1>1. t \in Seq(Bars) /\ b \in Seq(Bars) /\ n \in Nat /\ Len(b) = n
  BY DEF Paired
<1>2. Smaller(n, n) = n /\ n - n + 1 = 1
  BY <1>1 DEF Smaller
<1>3. AlignedBars(t, b) = SubSeq(t, 1, n) /\ AlignedBars(b, t) = SubSeq(b, 1, n)
  <2> HIDE DEF n
  <2>1. AlignedBars(t, b) = LastBars(t, Smaller(n, n)) /\ AlignedBars(b, t) = LastBars(b, Smaller(n, n))
    BY <1>1 DEF AlignedBars, n
  <2> QED BY <1>1, <1>2, <2>1 DEF LastBars, n
<1> QED BY <1>1, <1>3, SubSeqFull

Seen == [volume : Nat, lead : Int]

LEMMA ObservationsAre ==
  ASSUME NEW t, NEW b, Paired(t, b)
  PROVE  LET obs == RsObservations(t, b)
         IN /\ obs \in Seq(Seen) /\ Len(obs) = Len(t)
            /\ \A i \in 1..Len(t) :
                 obs[i] = [volume |-> t[i].volume, lead |-> 100 * (t[i].change - b[i].change)]
<1> DEFINE n == Len(t)
           obs == RsObservations(t, b)
           At(i) == [volume |-> t[i].volume, lead |-> 100 * (t[i].change - b[i].change)]
<1>1. n \in Nat /\ \A i \in 1..n : t[i] \in Bars /\ b[i] \in Bars
  BY DEF Paired
<1>2. obs = [i \in 1..n |-> At(i)]
  <2>1. AlignedBars(t, b) = t /\ AlignedBars(b, t) = b
    BY PairsAreAligned
  <2> QED BY <2>1, Zenon DEF RsObservations
<1> HIDE DEF obs
<1>3. \A i \in 1..n : At(i) \in Seen
  <2> SUFFICES ASSUME NEW i \in 1..n PROVE At(i) \in Seen
    OBVIOUS
  <2>1. t[i].volume \in Nat /\ t[i].change \in Int /\ b[i].change \in Int
    BY <1>1 DEF Bars
  <2>2. 100 * (t[i].change - b[i].change) \in Int
    BY <2>1
  <2> QED BY <2>1, <2>2 DEF Seen
<1>4. obs \in [1..n -> Seen] /\ \A i \in 1..n : obs[i] = At(i)
  BY <1>2, <1>3
<1>5. obs \in Seq(Seen) /\ Len(obs) = n
  BY <1>1, <1>4, RowOf
<1> QED BY <1>4, <1>5 DEF obs

LEMMA ScoresAre ==
  ASSUME NEW t, NEW b, Paired(t, b), NEW family
  PROVE  LET scores == IF family = "momentum" THEN SmaScores(AlignedBars(t, b)) ELSE RsScores(t, b)
         IN DOMAIN scores = 1..Len(t) /\ Len(scores) = Len(t)
<1> DEFINE sma == SmaScores(t)
           rs == RsScores(t, b)
<1>1. Len(t) \in Nat
  BY DEF Paired
<1>2. DOMAIN sma = 1..Len(t)
  BY DEF SmaScores
<1>3. Len(RsObservations(t, b)) = Len(t)
  BY ObservationsAre
<1>4. DOMAIN rs = 1..Len(t)
  BY <1>3 DEF RsScores
<1>5. sma = [i \in 1..Len(t) |-> sma[i]] /\ rs = [i \in 1..Len(t) |-> rs[i]]
  <2>1. sma = [i \in 1..Len(t) |-> sma[i]]
    BY DEF SmaScores
  <2>2. rs = [i \in 1..Len(t) |-> rs[i]]
    BY <1>3 DEF RsScores
  <2> QED BY <2>1, <2>2
<1> HIDE DEF sma, rs
<1>6. Len(sma) = Len(t) /\ Len(rs) = Len(t)
  BY <1>1, <1>5
<1>7. CASE family = "momentum"
  BY <1>2, <1>6, <1>7, PairsAreAligned DEF sma
<1>8. CASE family # "momentum"
  BY <1>4, <1>6, <1>8 DEF rs
<1> QED BY <1>7, <1>8

LEMMA SignalsWarmUp ==
  ASSUME NEW t, NEW b, Paired(t, b), NEW family
  PROVE  WarmsUp(t, Signals(family, t, b))
<1> DEFINE scores == IF family = "momentum" THEN SmaScores(AlignedBars(t, b)) ELSE RsScores(t, b)
<1> SUFFICES ASSUME t # <<>> PROVE Signals(family, t, b)[1] = {}
  BY DEF WarmsUp
<1>1. Len(scores) = Len(t)
  BY ScoresAre
<1>2. Signals(family, t, b) = MovesOf(scores)
  BY DEF Signals
<1> HIDE DEF scores
<1>3. 1 \in 1..Len(scores) /\ 1 <= WarmUp
  BY <1>1, HistoryAssumption DEF Paired
<1> QED BY <1>2, <1>3 DEF MovesOf

LEMMA BookIs ==
  ASSUME NEW t, NEW b, Paired(t, b), NEW family
  PROVE  /\ Book(family, t, b) = Books(t, Signals(family, t, b))
         /\ Book(family, t, b) \in BooksAt(Len(t))
<1>1. Book(family, t, b) = Books(t, Signals(family, t, b))
  BY PairsAreAligned DEF Book, Signals
<1>2. t \in Seq(Bars) /\ WarmsUp(t, Signals(family, t, b))
  BY SignalsWarmUp DEF Paired
<1>3. Books(t, Signals(family, t, b)) \in BooksAt(Len(t))
  BY <1>2, BookTyped
<1> QED BY <1>1, <1>3

(* The runner aligns first: what is run is the pairs.                        *)
LEMMA RunsThePairs ==
  ASSUME NEW s \in Seq(Bars), NEW r \in Seq(Bars), NEW family
  PROVE  LET t == AlignedBars(s, r)
             b == AlignedBars(r, s)
         IN Book(family, s, r) = Book(family, t, b) /\ RunOf(family, s, r) = RunOf(family, t, b)
<1> DEFINE t == AlignedBars(s, r)
           b == AlignedBars(r, s)
<1>1. Paired(t, b)
  BY AlignedArePaired
<1>2. AlignedBars(t, b) = t /\ AlignedBars(b, t) = b
  BY <1>1, PairsAreAligned
<1>3. RsObservations(s, r) = RsObservations(t, b)
  BY <1>2, Zenon DEF RsObservations
<1>4. RsScores(s, r) = RsScores(t, b)
  BY <1>3, Zenon DEF RsScores
<1> QED BY <1>2, <1>4, Zenon DEF Book, RunOf

(* The run of pairs is the end of their book.                                *)
LEMMA RunIs ==
  ASSUME NEW t, NEW b, Paired(t, b), NEW family \in Families
  PROVE  RunOf(family, t, b) = EndOfData(Book(family, t, b), t)
<1>1. AlignedBars(t, b) = t
  BY PairsAreAligned
<1>2. CASE family = "momentum"
  BY <1>1, <1>2 DEF RunOf, Book, RunBacktest
<1>3. CASE family = "rs_continuation"
  BY <1>1, <1>3 DEF RunOf, Book, RunBacktest
<1> QED BY <1>2, <1>3 DEF Families
-----------------------------------------------------------------------------
(* What a family's line reports (runBacktest of backtester.ts and            *)
(* summarizeMany of run-skill-backtest.ts) is what its trades made: the      *)
(* curve ends at the capital and the profits of the trades, its drawdown is  *)
(* no smaller than the loss, the sleeve is never in debt, and without a      *)
(* trade there is neither.  For every history, and every sleeve whose        *)
(* largest position leaves room for its friction.                            *)
THEOREM ReportIsOfTheTrades == HistorySpec => []ReportTellsTheLoss
<1>1. HInv => ReportTellsTheLoss
  <2> SUFFICES ASSUME HInv, AlignedToken # <<>>, NEW family \in Families
               PROVE  LET run == RunOf(family, token, bnb)
                          line == SummarizeMany(<<run>>)
                      IN /\ run.position = {}
                         /\ Last(run.curve) = Sleeve.startingCapital
                                              + SumOf([i \in 1..Len(run.trades) |-> run.trades[i].pnl])
                         /\ \A i \in 1..Len(run.curve) : run.curve[i] >= 0
                         /\ line.maxDrawdown >= -(line.totalReturn + 1)
                         /\ line.numTrades = 0 => line.totalReturn = 0 /\ line.maxDrawdown = 0
    BY Zenon DEF ReportTellsTheLoss
  <2> DEFINE run == RunOf(family, token, bnb)
             book == Book(family, AlignedToken, AlignedBnb)
             n == Len(AlignedToken)
  <2>0. Paired(AlignedToken, AlignedBnb)
    BY AlignedArePaired DEF HInv, Series, AlignedToken, AlignedBnb
  <2>1. run = EndOfData(book, AlignedToken)
    <3>1. run = RunOf(family, AlignedToken, AlignedBnb)
      BY RunsThePairs DEF HInv, Series, AlignedToken, AlignedBnb
    <3> QED BY <2>0, <3>1, RunIs
  <2>2. AlignedToken \in Seq(Bars) /\ n \in Nat \ {0} /\ book \in BooksAt(n)
    <3>1. book \in BooksAt(n)
      BY <2>0, BookIs
    <3> QED BY <2>0, <3>1 DEF Paired
  <2> HIDE DEF run, book
  <2>3. /\ run.position = {} /\ run.equity \in Nat /\ Accounted(run)
        /\ run.trades \in Seq(Trades) /\ run.curve \in Seq(Nat) /\ Len(run.curve) = n
        /\ run.curve[n] = run.equity /\ run.curve[1] = Sleeve.startingCapital
        /\ run.trades = <<>> => \A i \in 1..n : run.curve[i] = Sleeve.startingCapital
    BY <2>1, <2>2, ClosedAtTheEnd
  <2> HIDE DEF n
  <2> QED BY <2>2, <2>3, RunReported DEF run
<1> QED BY <1>1, HistoryInvariant, PTL
-----------------------------------------------------------------------------
(* A pair more. *)

LEMMA SubSeqSame ==
  ASSUME NEW S, NEW s \in Seq(S), NEW t \in Seq(S), NEW m \in Nat \ {0}, NEW n \in Nat,
         n <= Len(s), n <= Len(t), \A i \in 1..n : s[i] = t[i]
  PROVE  SubSeq(s, m, n) = SubSeq(t, m, n)
<1>1. CASE n < m
  BY <1>1, SubSeqEmpty
<1>2. CASE m <= n
  <2>1. \A i \in m..n : s[i] \in S /\ t[i] \in S
    OBVIOUS
  <2> DEFINE u == SubSeq(s, m, n)
             v == SubSeq(t, m, n)
  <2>2. u \in Seq(S) /\ Len(u) = n - m + 1 /\ \A i \in 1..(n - m + 1) : u[i] = s[m + i - 1]
    BY <1>2, <2>1, SubSeqProperties
  <2>3. v \in Seq(S) /\ Len(v) = n - m + 1 /\ \A i \in 1..(n - m + 1) : v[i] = t[m + i - 1]
    BY <1>2, <2>1, SubSeqProperties
  <2> HIDE DEF u, v
  <2>4. \A i \in 1..(n - m + 1) : m + i - 1 \in 1..n
    OBVIOUS
  <2>5. \A i \in 1..Len(u) : u[i] = v[i]
    BY <2>2, <2>3, <2>4
  <2>6. u = v
    BY <2>2, <2>3, <2>5, SeqEqual
  <2> QED BY <2>6 DEF u, v
<1> QED BY <1>1, <1>2

LEMMA PrefixSelf == ASSUME NEW s PROVE Len(s) \in Nat => IsPrefix(s, s)
BY DEF IsPrefix

LEMMA PrefixAppend == ASSUME NEW S, NEW s \in Seq(S), NEW x \in S PROVE IsPrefix(s, Append(s, x))
<1> DEFINE t == Append(s, x)
<1>1. t \in Seq(S) /\ Len(t) = Len(s) + 1 /\ Len(s) \in Nat /\ \A i \in 1..Len(s) : s[i] = t[i]
  OBVIOUS
<1> HIDE DEF t
<1>2. Len(s) <= Len(t) /\ 1 \in Nat \ {0}
  BY <1>1
<1>3. SubSeq(s, 1, Len(s)) = SubSeq(t, 1, Len(s))
  BY <1>1, <1>2, SubSeqSame
<1> QED BY <1>2, <1>3 DEF IsPrefix, t


LEMMA MomentumStands ==
  ASSUME NEW t, NEW b, Paired(t, b), NEW x \in Bars, NEW i \in 1..Len(t)
  PROVE  SmaScores(t)[i] = SmaScores(Append(t, x))[i]
<1> DEFINE u == Append(t, x)
           ScoreAt(r) == LET w == SmaBars(r, i)
                             total == SumOf([k \in 1..Len(w) |-> w[k].price])
                         IN IF 1000 * r[i].price * Len(w) > 1004 * total THEN 82 ELSE 0
<1>1. t \in Seq(Bars) /\ u \in Seq(Bars) /\ Len(u) = Len(t) + 1 /\ Len(t) \in Nat
      /\ \A k \in 1..Len(t) : t[k] = u[k]
  BY DEF Paired
<1> HIDE DEF u
<1>2. i \in Nat /\ i <= Len(t) /\ i <= Len(u) /\ i \in 1..Len(u) /\ \A k \in 1..i : t[k] = u[k]
  BY <1>1
<1>3. Larger(1, i - SmaWindow + 1) \in Nat \ {0}
  BY <1>2, HistoryAssumption DEF Larger
<1>4. SmaBars(t, i) = SmaBars(u, i)
  BY <1>1, <1>2, <1>3, SubSeqSame DEF SmaBars
<1>5. t[i] = u[i]
  BY <1>1
<1>6. SmaScores(t)[i] = ScoreAt(t) /\ SmaScores(u)[i] = ScoreAt(u)
  BY <1>2, Zenon DEF SmaScores
<1>7. ScoreAt(t) = ScoreAt(u)
  BY <1>4, <1>5
<1> QED BY <1>6, <1>7 DEF u

LEMMA LeadStands ==
  ASSUME NEW t, NEW b, Paired(t, b), NEW x \in Bars, NEW y \in Bars, NEW i \in 1..Len(t)
  PROVE  RsScores(t, b)[i] = RsScores(Append(t, x), Append(b, y))[i]
<1> DEFINE u == Append(t, x)
           v == Append(b, y)
           then == RsObservations(t, b)
           now == RsObservations(u, v)
<1>1. /\ Len(u) = Len(t) + 1 /\ Len(t) \in Nat /\ Paired(u, v)
      /\ \A k \in 1..Len(t) : k \in 1..Len(u) /\ t[k] = u[k] /\ b[k] = v[k]
  BY DEF Paired
<1> HIDE DEF u, v
<1>3. /\ then \in Seq(Seen) /\ Len(then) = Len(t)
      /\ \A k \in 1..Len(t) :
           then[k] = [volume |-> t[k].volume, lead |-> 100 * (t[k].change - b[k].change)]
  BY ObservationsAre
<1>4. /\ now \in Seq(Seen) /\ Len(now) = Len(u)
      /\ \A k \in 1..Len(u) :
           now[k] = [volume |-> u[k].volume, lead |-> 100 * (u[k].change - v[k].change)]
  BY <1>1, ObservationsAre
<1> HIDE DEF then, now
<1>6. \A k \in 1..Len(t) : then[k] = now[k]
  BY <1>1, <1>3, <1>4
<1>7. i \in Nat /\ i \in 1..Len(then) /\ i \in 1..Len(now) /\ i <= Len(then) /\ i <= Len(now)
      /\ \A k \in 1..i : then[k] = now[k]
  <2>1. i \in Nat /\ i \in 1..Len(t) /\ i \in 1..Len(u) /\ i <= Len(t) /\ i <= Len(u)
        /\ \A k \in 1..i : k \in 1..Len(t)
    BY <1>1
  <2>2. Len(then) = Len(t) /\ Len(now) = Len(u)
    BY <1>3, <1>4
  <2> QED BY <1>6, <2>1, <2>2
<1>8. 1 \in Nat \ {0}
  OBVIOUS
<1>9. SubSeq(then, 1, i) = SubSeq(now, 1, i)
  BY <1>3, <1>4, <1>7, <1>8, SubSeqSame
<1> DEFINE ScoreOf(obs) == IF EvaluateRsContinuation(obs) THEN 82 ELSE 0
<1>10. RsScores(t, b)[i] = ScoreOf(SubSeq(then, 1, i)) /\ RsScores(u, v)[i] = ScoreOf(SubSeq(now, 1, i))
  BY <1>7, Zenon DEF RsScores, then, now
<1>11. RsScores(t, b)[i] = RsScores(u, v)[i]
  <2> HIDE DEF ScoreOf
  <2> QED BY <1>9, <1>10
<1> QED BY <1>11 DEF u, v

(* The signal functions of the runners are of the bars up to theirs.         *)
LEMMA SignalsStand ==
  ASSUME NEW t, NEW b, Paired(t, b), NEW x \in Bars, NEW y \in Bars, NEW family, NEW i \in 1..Len(t)
  PROVE  Signals(family, t, b)[i] = Signals(family, Append(t, x), Append(b, y))[i]
<1> DEFINE u == Append(t, x)
           v == Append(b, y)
           then == IF family = "momentum" THEN SmaScores(AlignedBars(t, b)) ELSE RsScores(t, b)
           now == IF family = "momentum" THEN SmaScores(AlignedBars(u, v)) ELSE RsScores(u, v)
<1>1. Paired(u, v) /\ Len(u) = Len(t) + 1 /\ Len(t) \in Nat
  BY DEF Paired
<1>2. AlignedBars(t, b) = t /\ AlignedBars(u, v) = u
  BY <1>1, PairsAreAligned
<1>3. Len(then) = Len(t) /\ Len(now) = Len(u)
  BY <1>1, ScoresAre
<1>4. SmaScores(t)[i] = SmaScores(u)[i]
  BY MomentumStands
<1>5. RsScores(t, b)[i] = RsScores(u, v)[i]
  BY LeadStands
<1>6. then[i] = now[i]
  BY <1>2, <1>4, <1>5
<1>7. Signals(family, t, b) = MovesOf(then) /\ Signals(family, u, v) = MovesOf(now)
  BY DEF Signals
<1> HIDE DEF then, now, u, v
<1>8. i \in 1..Len(then) /\ i \in 1..Len(now)
  BY <1>1, <1>3
<1>9. MovesOf(then)[i] = MovesOf(now)[i]
  BY <1>6, <1>8 DEF MovesOf
<1> QED BY <1>7, <1>9 DEF u, v

LEMMA BookGrows ==
  ASSUME NEW t, NEW b, Paired(t, b), NEW x \in Bars, NEW y \in Bars, NEW family
  PROVE  LET then == Book(family, t, b)
             now == Book(family, Append(t, x), Append(b, y))
         IN /\ then \in BooksAt(Len(t)) /\ Grew(then, now, Len(t) + 1)
            /\ \E c \in Nat : now.curve = Append(then.curve, c)
<1> DEFINE u == Append(t, x)
           v == Append(b, y)
           N == Len(t)
           moves == Signals(family, t, b)
           moved == Signals(family, u, v)
           then == Book(family, t, b)
           now == Book(family, u, v)
<1>1. t \in Seq(Bars) /\ N \in Nat /\ N + 1 \in Nat \ {0} /\ (N + 1) - 1 = N /\ Paired(u, v) /\ u # <<>>
  BY DEF Paired
<1>2. then = Books(t, moves) /\ then \in BooksAt(N) /\ WarmsUp(t, moves)
  BY BookIs, SignalsWarmUp
<1>3. now = Books(u, moved) /\ WarmsUp(u, moved)
  BY <1>1, BookIs, SignalsWarmUp
<1>4. \A n \in 1..Len(t) : moves[n] = moved[n]
  BY SignalsStand
<1> HIDE DEF moves, moved, then, now
<1>5. now = Marked(Traded(then, x, N + 1, moved[N + 1]), x)
  BY <1>1, <1>2, <1>3, <1>4, BooksGrow
<1>6. N + 1 = 1 => moved[N + 1] = {}
  BY <1>1, <1>3 DEF WarmsUp
<1>7. then \in BooksAt((N + 1) - 1)
  BY <1>1, <1>2
<1>8. Grew(then, now, N + 1) /\ \E c \in Nat : now.curve = Append(then.curve, c)
  <2> DEFINE m == N + 1
             move == moved[N + 1]
  <2>1. m \in Nat \ {0} /\ then \in BooksAt(m - 1) /\ (m = 1 => move = {})
    BY <1>1, <1>6, <1>7
  <2>2. now = Marked(Traded(then, x, m, move), x)
    BY <1>5
  <2> HIDE DEF m, move
  <2>3. LET made == Marked(Traded(then, x, m, move), x)
        IN Grew(then, made, m) /\ \E c \in Nat : made.curve = Append(then.curve, c)
    <3>1. x \in Bars
      OBVIOUS
    <3> DEFINE made == Marked(Traded(then, x, m, move), x)
    <3>2. Grew(then, made, m)
      BY <2>1, <3>1, NextBookIs
    <3>3. \E c \in Nat : made.curve = Append(then.curve, c)
      BY <2>1, <3>1, NextBookIs
    <3> QED BY <3>2, <3>3
  <2>4. Grew(then, now, m) /\ \E c \in Nat : now.curve = Append(then.curve, c)
    BY <2>2, <2>3, Zenon
  <2> QED BY <2>4 DEF m
<1> QED BY <1>2, <1>8 DEF then, now

LEMMA GrownStands ==
  ASSUME NEW then \in BookShapes, NEW now, NEW n, Grew(then, now, n),
         \E c \in Nat : now.curve = Append(then.curve, c)
  PROVE  /\ IsPrefix(then.trades, now.trades) /\ IsPrefix(then.curve, now.curve)
         /\ IsPrefix(then.rejected, now.rejected)
         /\ then.position # {} => \/ now.position = then.position
                                  \/ /\ Len(now.trades) = Len(then.trades) + 1
                                     /\ Last(now.trades).exit = n
<1>1. then.trades \in Seq(Trades) /\ then.curve \in Seq(Nat) /\ then.rejected \in Seq(Rejections)
  BY DEF BookShapes
<1>2. IsPrefix(then.curve, now.curve)
  BY <1>1, PrefixAppend
<1>3. IsPrefix(then.trades, now.trades)
  <2>1. CASE now.trades = then.trades
    BY <1>1, <2>1, PrefixSelf
  <2>2. CASE \E r \in Trades : now.trades = Append(then.trades, r)
    BY <1>1, <2>2, PrefixAppend
  <2> QED BY <2>1, <2>2 DEF Grew
<1>4. IsPrefix(then.rejected, now.rejected)
  <2>1. CASE now.rejected = then.rejected
    BY <1>1, <2>1, PrefixSelf
  <2>2. CASE \E r \in Rejections : now.rejected = Append(then.rejected, r)
    BY <1>1, <2>2, PrefixAppend
  <2> QED BY <2>1, <2>2 DEF Grew
<1>5. ASSUME NEW r \in Trades, now.trades = Append(then.trades, r), r.exit = n
      PROVE  Len(now.trades) = Len(then.trades) + 1 /\ Last(now.trades).exit = n
  <2>1. Len(now.trades) = Len(then.trades) + 1 /\ now.trades[Len(then.trades) + 1] = r
    BY <1>1, <1>5
  <2> QED BY <1>5, <2>1 DEF Last
<1>6. then.position # {} =>
        \/ now.position = then.position
        \/ \E r \in Trades : now.trades = Append(then.trades, r) /\ r.exit = n
  BY DEF Grew
<1> QED BY <1>2, <1>3, <1>4, <1>5, <1>6

LEMMA FirstPairs ==
  ASSUME NEW t, NEW b, Paired(t, b), NEW n \in 1..Len(t)
  PROVE  /\ Paired(SubSeq(t, 1, n - 1), SubSeq(b, 1, n - 1)) /\ Len(SubSeq(t, 1, n - 1)) = n - 1
         /\ \E x \in Bars : SubSeq(t, 1, n) = Append(SubSeq(t, 1, n - 1), x)
         /\ \E y \in Bars : SubSeq(b, 1, n) = Append(SubSeq(b, 1, n - 1), y)
<1>1. ASSUME NEW s \in Seq(Bars), n <= Len(s)
      PROVE  /\ SubSeq(s, 1, n - 1) \in Seq(Bars) /\ Len(SubSeq(s, 1, n - 1)) = n - 1
             /\ \E x \in Bars : SubSeq(s, 1, n) = Append(SubSeq(s, 1, n - 1), x)
  <2> DEFINE k == n - 1
             then == SubSeq(s, 1, k)
             now == SubSeq(s, 1, n)
  <2>1. k \in Nat /\ n \in Nat \ {0} /\ k + 1 = n /\ 1 \in Int /\ k - 1 + 1 = k /\ n - 1 + 1 = n
    BY DEF Paired
  <2>2. \A j \in 1..n : s[j] \in Bars
    BY <1>1
  <2> HIDE DEF k
  <2>3. /\ then \in Seq(Bars) /\ Len(then) = IF 1 <= k THEN k - 1 + 1 ELSE 0
        /\ \A j \in 1..(k - 1 + 1) : then[j] = s[1 + j - 1]
    <3>1. \A j \in 1..k : s[j] \in Bars
      BY <2>1, <2>2
    <3> QED BY <2>1, <3>1, SubSeqProperties
  <2>4. /\ now \in Seq(Bars) /\ Len(now) = IF 1 <= n THEN n - 1 + 1 ELSE 0
        /\ \A j \in 1..(n - 1 + 1) : now[j] = s[1 + j - 1]
    BY <2>1, <2>2, SubSeqProperties
  <2> HIDE DEF then, now
  <2>5. Len(then) = k /\ Len(now) = n /\ \A j \in 1..n : 1 + j - 1 = j
    BY <2>1, <2>3, <2>4
  <2>6. (\A j \in 1..k : then[j] = s[j]) /\ \A j \in 1..n : now[j] = s[j]
    BY <2>1, <2>3, <2>4, <2>5
  <2>7. s[n] \in Bars
    BY <2>1, <2>2
  <2>8. now = Append(then, s[n])
    <3> DEFINE made == Append(then, s[n])
    <3>1. /\ made \in Seq(Bars) /\ Len(made) = n /\ made[n] = s[n]
          /\ \A j \in 1..k : made[j] = then[j]
      BY <2>1, <2>3, <2>5, <2>7
    <3> HIDE DEF made
    <3>2. \A j \in 1..n : j \in 1..k \/ j = n
      BY <2>1
    <3>3. \A j \in 1..n : made[j] = now[j]
      BY <2>1, <2>6, <3>1, <3>2
    <3>4. made = now
      BY <2>4, <2>5, <3>1, <3>3, SeqEqual
    <3> QED BY <3>4 DEF made
  <2> QED BY <2>3, <2>5, <2>7, <2>8 DEF then, now, k
<1>2. t \in Seq(Bars) /\ b \in Seq(Bars) /\ n <= Len(t) /\ n <= Len(b)
  BY DEF Paired
<1> QED BY <1>1, <1>2 DEF Paired
-----------------------------------------------------------------------------
(* The backtest trades on what it has paired (runBacktest of backtester.ts,  *)
(* with the signals of run-skill-backtest.ts): for every history, whatever   *)
(* days the token or BNB lacks, a pair more leaves every closed trade, every *)
(* rejection and every point of the curve before it, and an open position as *)
(* it is or closed on the new bar.                                           *)
THEOREM NothingLooksAhead == HistorySpec => []NoLookAhead
<1>1. HInv => NoLookAhead
  <2> SUFFICES ASSUME HInv PROVE NoLookAhead
    OBVIOUS
  <2> DEFINE t == AlignedToken
             b == AlignedBnb
  <2>1. token \in Seq(Bars) /\ bnb \in Seq(Bars) /\ Paired(t, b)
    BY AlignedArePaired DEF HInv, Series, AlignedToken, AlignedBnb
  <2>2. ASSUME NEW family \in Families
        PROVE  Book(family, token, bnb) = BookOfPairs(family, Len(t))
    <3>1. Book(family, token, bnb) = Book(family, t, b)
      BY <2>1, RunsThePairs DEF AlignedToken, AlignedBnb
    <3>2. SubSeq(t, 1, Len(t)) = t /\ SubSeq(b, 1, Len(t)) = b
      <4> HIDE DEF t, b
      <4> QED BY <2>1, SubSeqFull DEF Paired
    <3> QED BY <3>1, <3>2 DEF BookOfPairs
  <2>3. ASSUME NEW family \in Families, NEW n \in 1..Len(t)
        PROVE  LET then == BookOfPairs(family, n - 1)
                   now == BookOfPairs(family, n)
               IN /\ IsPrefix(then.trades, now.trades) /\ IsPrefix(then.curve, now.curve)
                  /\ IsPrefix(then.rejected, now.rejected)
                  /\ then.position # {} => \/ now.position = then.position
                                           \/ /\ Len(now.trades) = Len(then.trades) + 1
                                              /\ Last(now.trades).exit = n
    <3> DEFINE then == BookOfPairs(family, n - 1)
               now == BookOfPairs(family, n)
               s == SubSeq(t, 1, n - 1)
               r == SubSeq(b, 1, n - 1)
    <3>1. Paired(s, r) /\ Len(s) = n - 1 /\ n - 1 + 1 = n
      <4> HIDE DEF t, b
      <4> QED BY <2>1, FirstPairs DEF Paired
    <3>2. PICK x \in Bars, y \in Bars : SubSeq(t, 1, n) = Append(s, x) /\ SubSeq(b, 1, n) = Append(r, y)
      <4> HIDE DEF t, b
      <4> QED BY <2>1, FirstPairs
    <3>3. then = Book(family, s, r) /\ now = Book(family, Append(s, x), Append(r, y))
      BY <3>2, Zenon DEF BookOfPairs
    <3> HIDE DEF then, now, s, r
    <3>4. /\ then \in BooksAt(Len(s)) /\ Grew(then, now, Len(s) + 1)
          /\ \E c \in Nat : now.curve = Append(then.curve, c)
      BY <3>1, <3>3, BookGrows
    <3>5. then \in BookShapes /\ Grew(then, now, n)
      BY <3>1, <3>4 DEF BooksAt
    <3> QED BY <3>4, <3>5, GrownStands DEF then, now
  <2> QED BY <2>2, <2>3, Zenon DEF NoLookAhead
<1> QED BY <1>1, HistoryInvariant, PTL
-----------------------------------------------------------------------------
(* The days of a pair.                                                       *)

(* Of two dated series with as many bars after a position of the one as from *)
(* the next of the other on, the second has a day that the first lacks: its  *)
(* bars from there on are one more, and no two have a day.                   *)
LEMMA OneDayMore ==
  ASSUME NEW s \in Seq(Bars), NEW r \in Seq(Bars), NEW m, NEW n, Dated(s, m), Dated(r, n),
         NEW p \in 1..Len(s), NEW q \in 1..Len(r), Len(s) - p = Len(r) - q, r[q].day > s[p].day
  PROVE  MissedAfter(s, r, s[p].day)
<1> DEFINE S == (p + 1)..Len(s)
           R == q..Len(r)
<1>1. /\ p \in Nat /\ q \in Nat /\ Len(s) \in Nat /\ Len(r) \in Nat
      /\ \A i \in 1..Len(s) : s[i].day \in Nat
      /\ \A i \in 1..Len(r) : r[i].day \in Nat
  BY DaysAre
<1>2. \A k \in R : k \in 1..Len(r) /\ r[k].day > s[p].day
  BY <1>1 DEF Dated
<1> SUFFICES ASSUME \A k \in R : \E j \in 1..Len(s) : s[j].day = r[k].day PROVE FALSE
  BY <1>1, <1>2, Zenon DEF MissedAfter
<1>3. \A k \in R : \E j \in S : s[j].day = r[k].day
  BY <1>1, <1>2 DEF Dated
<1> DEFINE f == [k \in R |-> CHOOSE j \in S : s[j].day = r[k].day]
<1>4. f \in [R -> S] /\ \A k \in R : s[f[k]].day = r[k].day
  <2> HIDE DEF S, R
  <2> QED BY <1>3, Zenon
<1>5. IsFiniteSet(S) /\ IsFiniteSet(R) /\ Cardinality(S) < Cardinality(R)
  <2>1. IsFiniteSet(S) /\ Cardinality(S) = IF p + 1 > Len(s) THEN 0 ELSE Len(s) - (p + 1) + 1
    <3>1. p + 1 \in Int /\ Len(s) \in Int
      BY <1>1
    <3> QED BY <3>1, FS_Interval
  <2>2. IsFiniteSet(R) /\ Cardinality(R) = IF q > Len(r) THEN 0 ELSE Len(r) - q + 1
    BY <1>1, FS_Interval
  <2> HIDE DEF S, R
  <2> QED BY <1>1, <2>1, <2>2
<1> HIDE DEF f
<1>6. PICK x \in R, y \in R : x # y /\ f[x] = f[y]
  <2> HIDE DEF S, R
  <2> QED BY <1>4, <1>5, FS_PigeonHole
<1>7. r[x].day = r[y].day
  BY <1>4, <1>6
<1> QED BY <1>1, <1>2, <1>6, <1>7 DEF Dated

LEMMA LaterOverAGap ==
  ASSUME NEW s, NEW r, NEW n, Series(s, n), Series(r, n), NEW i \in 1..Len(AlignedBars(s, r)),
         AlignedBars(r, s)[i].day > AlignedBars(s, r)[i].day
  PROVE  MissedAfter(s, r, AlignedBars(s, r)[i].day)
<1> DEFINE k == Smaller(Len(s), Len(r))
           p == i + (Len(s) - k)
           q == i + (Len(r) - k)
<1>1. s \in Seq(Bars) /\ r \in Seq(Bars) /\ Dated(s, n) /\ Dated(r, n)
  BY DEF Series
<1>2. Smaller(Len(r), Len(s)) = k
  BY <1>1 DEF Smaller
<1>3. /\ k \in Nat /\ k <= Len(s) /\ k <= Len(r) /\ i \in 1..k
      /\ AlignedBars(s, r)[i] = s[p]
  BY <1>1, AlignedIs
<1>4. AlignedBars(r, s)[i] = r[q]
  BY <1>1, <1>2, <1>3, AlignedIs
<1> HIDE DEF k
<1>5. p \in 1..Len(s) /\ q \in 1..Len(r) /\ Len(s) - p = Len(r) - q
  BY <1>1, <1>3
<1> HIDE DEF p, q
<1> QED BY <1>1, <1>3, <1>4, <1>5, OneDayMore

(* The alignment by the ends (run-skill-backtest.ts, 561-563) pairs a bar    *)
(* with a later day of the other series only where its own lacks a day that  *)
(* the other has from there on: for every history, whatever days it lacks.   *)
THEOREM PairsPartOnlyAtGaps == HistorySpec => []AheadOnlyOverAGap
<1>1. HInv => AheadOnlyOverAGap
  <2> SUFFICES ASSUME HInv, NEW i \in 1..Len(AlignedToken)
               PROVE  LET t == AlignedToken[i].day
                          b == AlignedBnb[i].day
                      IN (b > t => MissedAfter(token, bnb, t)) /\ (t > b => MissedAfter(bnb, token, b))
    BY Zenon DEF AheadOnlyOverAGap
  <2>1. Len(AlignedToken) = Len(AlignedBnb)
    BY AlignedArePaired DEF HInv, Series, AlignedToken, AlignedBnb, Paired
  <2>2. AlignedBnb[i].day > AlignedToken[i].day => MissedAfter(token, bnb, AlignedToken[i].day)
    BY LaterOverAGap DEF HInv, AlignedToken, AlignedBnb
  <2>3. AlignedToken[i].day > AlignedBnb[i].day => MissedAfter(bnb, token, AlignedBnb[i].day)
    BY <2>1, LaterOverAGap DEF HInv, AlignedToken, AlignedBnb
  <2> QED BY <2>2, <2>3
<1> QED BY <1>1, HistoryInvariant, PTL
=============================================================================
