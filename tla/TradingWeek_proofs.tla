-------------------------- MODULE TradingWeek_proofs --------------------------
(***************************************************************************)
(* The scout reserve, for every window, configuration and number of        *)
(* trades and crashes: the file says on which side of the pair the stake   *)
(* is, up to the scouts that were lost before it was written.              *)
(***************************************************************************)
EXTENDS TradingWeek, FiniteSetTheorems, NaturalsInduction, WellFoundedInduction, TLAPS

(* What the file says, as the number of stakes it places in USDC. *)
Said == IF LoadScoutHeldStable = "USDC" THEN 1 ELSE 0

(* The property and the types of the two counts it compares. *)
ReserveInv == parked \in Int /\ strayed \in Nat /\ parked - Said \in -strayed..strayed
-----------------------------------------------------------------------------
(* The steps that move neither a stake nor the file. *)
LEMMA OthersLeaveReserve ==
  ASSUME Next, ~Fill, ~LostFill, ~CrashAfterBroadcast
  PROVE  UNCHANGED <<reserve, parked, strayed>>
<1>1. CASE Start
  BY <1>1 DEF Start, seen
<1>2. CASE StartHalts \/ OperatorResolves
  BY <1>2 DEF StartHalts, OperatorResolves, seen
<1>3. CASE BeginCycle
  BY <1>3 DEF BeginCycle, seen
<1>4. CASE DecideAttack \/ DecideScout
  BY <1>4 DEF DecideAttack, DecideScout, Sign, seen
<1>5. CASE ScoutRejected \/ NoScoutOutside \/ DecideHold
  BY <1>5 DEF ScoutRejected, NoScoutOutside, DecideHold, seen
<1>6. CASE Refused
  BY <1>6 DEF Refused, seen
<1>7. CASE CrashSafe
  BY <1>7 DEF CrashSafe, seen
<1>8. CASE Exit \/ Advance
  BY <1>8 DEF Exit, Advance, seen
<1> QED BY <1>1, <1>2, <1>3, <1>4, <1>5, <1>6, <1>7, <1>8 DEF Next

(* A trade on chain and what it makes of the file, written or not. *)
LEMMA FillKeepsReserve ==
  ASSUME ReserveInv, Swapped, NEW recorded \in BOOLEAN, ReserveTurns(recorded)
  PROVE  ReserveInv'
<1>1. CASE order.kind # "scout"
  <2>1. parked' = parked /\ reserve' = reserve /\ strayed' \in {strayed, strayed + 0}
    BY <1>1 DEF Swapped, ReserveTurns
  <2>2. strayed' = strayed
    BY <2>1 DEF ReserveInv
  <2> QED BY <2>1, <2>2 DEF ReserveInv, Said, LoadScoutHeldStable
<1>2. CASE order.kind = "scout" /\ recorded
  <2>1. strayed' = strayed
    BY <1>2 DEF ReserveTurns
  <2>2. CASE LoadScoutHeldStable = "USDC"
    <3>1. parked' = parked - 1 /\ reserve' = "USDT"
      BY <1>2, <2>2 DEF Swapped, ReserveTurns
    <3>2. Said = 1 /\ Said' = 0
      BY <2>2, <3>1 DEF Said, LoadScoutHeldStable
    <3> QED BY <2>1, <3>1, <3>2 DEF ReserveInv
  <2>3. CASE LoadScoutHeldStable # "USDC"
    <3>1. LoadScoutHeldStable = "USDT"
      BY <2>3 DEF LoadScoutHeldStable
    <3>2. parked' = parked + 1 /\ reserve' = "USDC"
      BY <1>2, <3>1 DEF Swapped, ReserveTurns
    <3>3. Said = 0 /\ Said' = 1
      BY <2>3, <3>2 DEF Said, LoadScoutHeldStable
    <3> QED BY <2>1, <3>2, <3>3 DEF ReserveInv
  <2> QED BY <2>2, <2>3
<1>3. CASE order.kind = "scout" /\ ~recorded
  <2>1. strayed' = strayed + 1 /\ reserve' = reserve
    BY <1>3 DEF ReserveTurns
  <2>2. Said' = Said /\ Said \in {0, 1}
    BY <2>1 DEF Said, LoadScoutHeldStable
  <2>3. parked' \in {parked + 1, parked - 1}
    BY <1>3 DEF Swapped
  <2>4. parked \in Int /\ strayed \in Nat /\ Said \in Int
    BY <2>2 DEF ReserveInv
  <2>5. parked - Said \in -strayed..strayed
    BY DEF ReserveInv
  <2>6. CASE parked' = parked + 1
    <3>1. parked' - Said' = (parked - Said) + 1
      BY <2>2, <2>4, <2>6
    <3>2. parked' - Said' \in -strayed'..strayed'
      BY <2>1, <2>4, <2>5, <3>1
    <3> QED BY <2>1, <2>4, <2>6, <3>2 DEF ReserveInv
  <2>7. CASE parked' = parked - 1
    <3>1. parked' - Said' = (parked - Said) - 1
      BY <2>2, <2>4, <2>7
    <3>2. parked' - Said' \in -strayed'..strayed'
      BY <2>1, <2>4, <2>5, <3>1
    <3> QED BY <2>1, <2>4, <2>7, <3>2 DEF ReserveInv
  <2> QED BY <2>3, <2>6, <2>7
<1> QED BY <1>1, <1>2, <1>3

LEMMA ReserveStep ==
  ASSUME ReserveInv, [Next]_vars
  PROVE  ReserveInv'
<1>1. CASE Fill
  BY <1>1, FillKeepsReserve DEF Fill
<1>2. CASE LostFill
  BY <1>2, FillKeepsReserve DEF LostFill
<1>3. CASE CrashAfterBroadcast
  <2>1. PICK turned \in BOOLEAN : ReserveTurns(turned)
    BY <1>3 DEF CrashAfterBroadcast
  <2>2. Swapped
    BY <1>3 DEF CrashAfterBroadcast
  <2> QED BY <2>1, <2>2, FillKeepsReserve
<1>4. CASE Next /\ ~Fill /\ ~LostFill /\ ~CrashAfterBroadcast
  BY <1>4, OthersLeaveReserve DEF ReserveInv, Said, LoadScoutHeldStable
<1>5. CASE UNCHANGED vars
  BY <1>5 DEF vars, seen, ReserveInv, Said, LoadScoutHeldStable
<1> QED BY <1>1, <1>2, <1>3, <1>4, <1>5

\* "The scout alternates direction" (worker.ts): whatever is filled, lost or
\* crashes, the side scout-reserve.json names is where the stake is, but for as
\* many stakes as scouts were lost before the file was written.
THEOREM ReserveFollowsStake == Spec => []ReserveIsWhereItSays
<1>1. Init => ReserveInv
  BY DEF Init, ReserveInv, Said, LoadScoutHeldStable
<1>2. ReserveInv /\ [Next]_vars => ReserveInv'
  BY ReserveStep
<1>3. ReserveInv => ReserveIsWhereItSays
  BY DEF ReserveInv, Said, ReserveIsWhereItSays
<1> QED BY <1>1, <1>2, <1>3, PTL DEF Spec
-----------------------------------------------------------------------------
(* The ledger. *)

Leg == [at : Int, kind : Kinds]
Ledgers == [week : Int, legs : Seq(Leg), pressTradeUsed : BOOLEAN]
InsideWindow(legs) == \A i \in 1..Len(legs) : InWindow(legs[i].at)
OutsideWindow(legs) == \A i \in 1..Len(legs) : ~InWindow(legs[i].at)

(* Every non-empty set of naturals has a least member: what takes the place  *)
(* of an induction over the legs.                                            *)
LEMMA LeastNat ==
  ASSUME NEW T \in SUBSET Nat, T # {}
  PROVE  \E m \in T : \A k \in T : m <= k
<1>1. PICK m \in T : \A y \in T : ~(<<y, m>> \in OpToRel(<, Nat))
  BY NatLessThanWellFounded, WFMin
<1>2. ASSUME NEW k \in T PROVE m <= k
  <2>1. ~(<<k, m>> \in OpToRel(<, Nat))
    BY <1>1
  <2>2. ~(k < m)
    BY <2>1 DEF OpToRel
  <2> QED BY <2>2
<1> QED BY <1>1, <1>2

(* What the filter has kept of the first n legs, when f is what it kept of   *)
(* the legs before.                                                          *)
KeptOf(legs, f, n) ==
  IF n = 0 THEN <<>>
  ELSE IF InWindow(legs[n].at) THEN Append(f[n - 1], legs[n]) ELSE f[n - 1]
IsFilter(f, legs) == f = [n \in 0..Len(legs) |-> KeptOf(legs, f, n)]

LEMMA FilterExists ==
  ASSUME NEW S, NEW legs \in Seq(S)
  PROVE  \E f : IsFilter(f, legs)
<1> DEFINE UpTo(n) == \E f : f = [k \in 0..n |-> KeptOf(legs, f, k)]
           Bad == {n \in Nat : ~UpTo(n)}
<1>1. UpTo(0)
  <2> DEFINE f == [k \in 0..0 |-> <<>>]
  <2>1. \A k \in 0..0 : KeptOf(legs, f, k) = <<>>
    BY DEF KeptOf
  <2>2. f = [k \in 0..0 |-> KeptOf(legs, f, k)]
    BY <2>1
  <2> QED BY <2>2
<1>2. ASSUME NEW n \in Nat, UpTo(n) PROVE UpTo(n + 1)
  <2>1. PICK f : f = [k \in 0..n |-> KeptOf(legs, f, k)]
    BY <1>2
  <2> DEFINE g == [k \in 0..(n + 1) |-> KeptOf(legs, f, k)]
  <2>2. \A k \in 0..n : k \in 0..(n + 1) /\ g[k] = f[k]
    <3> SUFFICES ASSUME NEW k \in 0..n PROVE k \in 0..(n + 1) /\ g[k] = f[k]
      OBVIOUS
    <3>1. k \in 0..(n + 1)
      OBVIOUS
    <3>2. g[k] = KeptOf(legs, f, k)
      BY <3>1
    <3>3. f[k] = KeptOf(legs, f, k)
      BY <2>1
    <3> QED BY <3>1, <3>2, <3>3
  <2> HIDE DEF g
  <2>3. \A k \in 0..(n + 1) : KeptOf(legs, g, k) = KeptOf(legs, f, k)
    <3> SUFFICES ASSUME NEW k \in 0..(n + 1) PROVE KeptOf(legs, g, k) = KeptOf(legs, f, k)
      OBVIOUS
    <3>1. CASE k = 0
      BY <3>1 DEF KeptOf
    <3>2. CASE k # 0
      <4>1. k - 1 \in 0..n
        BY <3>2
      <4>2. g[k - 1] = f[k - 1]
        BY <2>2, <4>1
      <4> QED BY <4>2 DEF KeptOf
    <3> QED BY <3>1, <3>2
  <2>4. g = [k \in 0..(n + 1) |-> KeptOf(legs, g, k)]
    BY <2>3 DEF g
  <2> QED BY <2>4
<1> HIDE DEF UpTo
<1>3. Bad = {}
  <2> SUFFICES ASSUME Bad # {} PROVE FALSE
    OBVIOUS
  <2>1. Bad \in SUBSET Nat
    OBVIOUS
  <2>2. PICK m \in Bad : \A k \in Bad : m <= k
    BY <2>1, LeastNat
  <2>3. m \in Nat /\ ~UpTo(m)
    OBVIOUS
  <2>4. m # 0 /\ m - 1 \in Nat /\ ~(m <= m - 1) /\ (m - 1) + 1 = m
    BY <1>1, <2>3
  <2>5. UpTo(m - 1)
    BY <2>2, <2>4
  <2> QED BY <1>2, <2>3, <2>4, <2>5
<1>4. UpTo(Len(legs))
  BY <1>3
<1> QED BY <1>4 DEF UpTo, IsFilter

LEMMA FilterIs ==
  ASSUME NEW S, NEW legs \in Seq(S)
  PROVE  \E f : IsFilter(f, legs) /\ LegsInWindow(legs) = f[Len(legs)]
<1> DEFINE it == CHOOSE it : it = [n \in 0..Len(legs) |->
                   IF n = 0 THEN <<>>
                   ELSE IF InWindow(legs[n].at) THEN Append(it[n - 1], legs[n]) ELSE it[n - 1]]
<1>1. LegsInWindow(legs) = it[Len(legs)]
  BY Zenon DEF LegsInWindow
<1>2. PICK f : IsFilter(f, legs)
  BY FilterExists
<1>3. IsFilter(it, legs)
  <2>1. f = [n \in 0..Len(legs) |->
               IF n = 0 THEN <<>>
               ELSE IF InWindow(legs[n].at) THEN Append(f[n - 1], legs[n]) ELSE f[n - 1]]
    BY <1>2, Zenon DEF IsFilter, KeptOf
  <2>2. it = [n \in 0..Len(legs) |->
                IF n = 0 THEN <<>>
                ELSE IF InWindow(legs[n].at) THEN Append(it[n - 1], legs[n]) ELSE it[n - 1]]
    BY <2>1, Zenon
  <2> HIDE DEF it
  <2> QED BY <2>2, Zenon DEF IsFilter, KeptOf
<1> HIDE DEF it
<1> QED BY <1>1, <1>3

(* The filter keeps legs of the window, all of them when there are no others *)
(* and none when there are only others.                                      *)
FilterRight(legs, kept, n) ==
  /\ kept \in Seq(Leg) /\ InsideWindow(kept)
  /\ (\A i \in 1..n : InWindow(legs[i].at)) => Len(kept) = n /\ \A i \in 1..n : kept[i] = legs[i]
  /\ (\A i \in 1..n : ~InWindow(legs[i].at)) => kept = <<>>

LEMMA FilterStep ==
  ASSUME NEW legs \in Seq(Leg), NEW n \in 1..Len(legs), NEW kept, FilterRight(legs, kept, n - 1)
  PROVE  FilterRight(legs, IF InWindow(legs[n].at) THEN Append(kept, legs[n]) ELSE kept, n)
<1>1. legs[n] \in Leg /\ n - 1 \in Nat /\ n \in Nat
  OBVIOUS
<1>2. \A i \in 1..(n - 1) : i \in 1..n
  OBVIOUS
<1>3. \A i \in 1..n : i \in 1..(n - 1) \/ i = n
  OBVIOUS
<1>4. CASE InWindow(legs[n].at)
  <2> DEFINE more == Append(kept, legs[n])
  <2>1. kept \in Seq(Leg)
    BY DEF FilterRight
  <2>2. /\ more \in Seq(Leg) /\ Len(more) = Len(kept) + 1 /\ Len(kept) \in Nat
        /\ more[Len(kept) + 1] = legs[n]
        /\ \A i \in 1..Len(kept) : more[i] = kept[i]
    BY <1>1, <2>1
  <2> HIDE DEF more
  <2>3. InsideWindow(more)
    <3> SUFFICES ASSUME NEW i \in 1..Len(more) PROVE InWindow(more[i].at)
      BY DEF InsideWindow
    <3>1. i \in 1..Len(kept) \/ i = Len(kept) + 1
      BY <2>2
    <3> QED BY <1>4, <2>2, <3>1 DEF FilterRight, InsideWindow
  <2>4. (\A i \in 1..n : InWindow(legs[i].at)) => Len(more) = n /\ \A i \in 1..n : more[i] = legs[i]
    <3> SUFFICES ASSUME \A i \in 1..n : InWindow(legs[i].at)
                 PROVE  Len(more) = n /\ \A i \in 1..n : more[i] = legs[i]
      OBVIOUS
    <3>1. Len(kept) = n - 1 /\ \A i \in 1..(n - 1) : kept[i] = legs[i]
      BY <1>2 DEF FilterRight
    <3>2. Len(more) = n
      BY <1>1, <2>2, <3>1
    <3>3. more[n] = legs[n]
      BY <1>1, <2>2, <3>1
    <3>4. \A i \in 1..(n - 1) : more[i] = legs[i]
      BY <2>2, <3>1
    <3> QED BY <1>3, <3>2, <3>3, <3>4
  <2>5. ~ \A i \in 1..n : ~InWindow(legs[i].at)
    BY <1>4
  <2> QED BY <1>4, <2>2, <2>3, <2>4, <2>5 DEF FilterRight, more
<1>5. CASE ~InWindow(legs[n].at)
  <2>1. ~ \A i \in 1..n : InWindow(legs[i].at)
    BY <1>5
  <2> QED BY <1>2, <1>5, <2>1 DEF FilterRight
<1> QED BY <1>4, <1>5

LEMMA FilterFacts ==
  ASSUME NEW legs \in Seq(Leg)
  PROVE  FilterRight(legs, LegsInWindow(legs), Len(legs))
<1>1. PICK f : IsFilter(f, legs) /\ LegsInWindow(legs) = f[Len(legs)]
  BY FilterIs
<1>2. \A n \in 0..Len(legs) : f[n] = KeptOf(legs, f, n)
  BY <1>1 DEF IsFilter
<1> DEFINE Bad == {n \in 0..Len(legs) : ~FilterRight(legs, f[n], n)}
<1>3. Bad = {}
  <2> SUFFICES ASSUME Bad # {} PROVE FALSE
    OBVIOUS
  <2>1. Bad \in SUBSET Nat
    OBVIOUS
  <2>2. PICK m \in Bad : \A k \in Bad : m <= k
    BY <2>1, LeastNat
  <2>3. m \in 0..Len(legs) /\ ~FilterRight(legs, f[m], m)
    OBVIOUS
  <2>4. m # 0
    <3>1. f[0] = <<>>
      BY <1>2 DEF KeptOf
    <3>2. FilterRight(legs, <<>>, 0)
      BY DEF FilterRight, InsideWindow
    <3> QED BY <2>3, <3>1, <3>2
  <2>5. m \in 1..Len(legs) /\ m - 1 \in 0..Len(legs) /\ ~(m <= m - 1)
    BY <2>3, <2>4
  <2>6. FilterRight(legs, f[m - 1], m - 1)
    BY <2>2, <2>5
  <2>7. f[m] = IF InWindow(legs[m].at) THEN Append(f[m - 1], legs[m]) ELSE f[m - 1]
    BY <1>2, <2>3, <2>4 DEF KeptOf
  <2> QED BY <2>3, <2>5, <2>6, <2>7, FilterStep
<1> QED BY <1>1, <1>3

LEMMA SanitizeFacts ==
  ASSUME NEW l \in Ledgers
  PROVE  /\ Sanitize(l) \in Ledgers /\ Sanitize(l).week = l.week
         /\ InsideWindow(Sanitize(l).legs)
         /\ InsideWindow(l.legs) => Sanitize(l) = l
         /\ OutsideWindow(l.legs) => Sanitize(l).legs = <<>>
<1> DEFINE kept == LegsInWindow(l.legs)
<1>1. l.legs \in Seq(Leg)
  BY DEF Ledgers
<1>2. FilterRight(l.legs, kept, Len(l.legs))
  BY <1>1, FilterFacts
<1>3. kept \in Seq(Leg) /\ InsideWindow(kept)
  BY <1>2 DEF FilterRight
<1>4. InsideWindow(l.legs) => kept = l.legs
  BY <1>1, <1>2 DEF FilterRight, InsideWindow
<1>5. OutsideWindow(l.legs) => kept = <<>>
  BY <1>1, <1>2 DEF FilterRight, OutsideWindow
<1>6. Sanitize(l) = IF kept = l.legs THEN l ELSE [l EXCEPT !.legs = kept, !.pressTradeUsed = FALSE]
  BY DEF Sanitize
<1> HIDE DEF kept
<1>7. Sanitize(l).legs = kept /\ Sanitize(l) \in Ledgers /\ Sanitize(l).week = l.week
  BY <1>3, <1>6 DEF Ledgers
<1> QED BY <1>3, <1>4, <1>5, <1>6, <1>7

(* A leg more is counted on its day, when its kind is.                       *)
LEMMA LegsCounted ==
  ASSUME NEW l \in Ledgers, NEW d, NEW K
  PROVE  LegsOf(l, d, K) \in Nat
<1>1. l.legs \in Seq(Leg) /\ Len(l.legs) \in Nat /\ DOMAIN l.legs = 1..Len(l.legs)
  BY DEF Ledgers
<1> DEFINE at == {i \in DOMAIN l.legs : DayOf(l.legs[i].at) = d /\ l.legs[i].kind \in K}
<1>2. IsFiniteSet(1..Len(l.legs)) /\ at \subseteq 1..Len(l.legs)
  BY <1>1, FS_Interval
<1>3. Cardinality(at) \in Nat
  BY <1>2, FS_Subset, FS_CardinalityType
<1> QED BY <1>3 DEF LegsOf

LEMMA NoLegsCounted ==
  ASSUME NEW l \in Ledgers, NEW d, NEW K,
         \A i \in 1..Len(l.legs) : DayOf(l.legs[i].at) # d
  PROVE  LegsOf(l, d, K) = 0
<1>1. DOMAIN l.legs = 1..Len(l.legs)
  BY DEF Ledgers
<1>2. {i \in DOMAIN l.legs : DayOf(l.legs[i].at) = d /\ l.legs[i].kind \in K} = {}
  BY <1>1
<1> QED BY <1>2, FS_EmptySet DEF LegsOf

LEMMA LegRecorded ==
  ASSUME NEW l \in Ledgers, NEW kind \in Kinds, NEW at \in Int
  PROVE  /\ RecordLeg(l, kind, at) \in Ledgers
         /\ RecordLeg(l, kind, at).week = l.week
         /\ RecordLeg(l, kind, at).pressTradeUsed = l.pressTradeUsed
         /\ InsideWindow(l.legs) /\ InWindow(at) => InsideWindow(RecordLeg(l, kind, at).legs)
         /\ \A T \in Int : (\A i \in 1..Len(l.legs) : l.legs[i].at <= T) /\ at <= T
              => \A i \in 1..Len(RecordLeg(l, kind, at).legs) : RecordLeg(l, kind, at).legs[i].at <= T
         /\ \A d, K : LegsOf(RecordLeg(l, kind, at), d, K) =
              IF DayOf(at) = d /\ kind \in K THEN LegsOf(l, d, K) + 1 ELSE LegsOf(l, d, K)
<1> DEFINE leg == [at |-> at, kind |-> kind]
           more == Append(l.legs, leg)
           n == Len(l.legs)
           r == RecordLeg(l, kind, at)
<1>1. l.legs \in Seq(Leg) /\ n \in Nat /\ DOMAIN l.legs = 1..n /\ leg \in Leg
  BY DEF Ledgers, Leg
<1>2. leg.at = at /\ leg.kind = kind
  OBVIOUS
<1> HIDE DEF leg
<1>3. /\ more \in Seq(Leg) /\ Len(more) = n + 1 /\ DOMAIN more = 1..(n + 1)
      /\ more[n + 1] = leg /\ \A i \in 1..n : more[i] = l.legs[i]
  BY <1>1
<1>4. r = [l EXCEPT !.legs = more]
  BY DEF RecordLeg, leg
<1>5. \A i \in 1..(n + 1) : i \in 1..n \/ i = n + 1
  BY <1>1
<1>5a. (\A i \in 1..n : i \in 1..(n + 1)) /\ n + 1 \in 1..(n + 1) /\ n + 1 \notin 1..n
  BY <1>1
<1> HIDE DEF more, r
<1>6. r \in Ledgers /\ r.legs = more /\ r.week = l.week /\ r.pressTradeUsed = l.pressTradeUsed
  BY <1>3, <1>4 DEF Ledgers
<1>7. InsideWindow(l.legs) /\ InWindow(at) => InsideWindow(more)
  BY <1>2, <1>3, <1>5 DEF InsideWindow
<1>8. ASSUME NEW T \in Int, \A i \in 1..n : l.legs[i].at <= T, at <= T
      PROVE  \A i \in 1..(n + 1) : more[i].at <= T
  BY <1>2, <1>3, <1>5, <1>8
<1>9. ASSUME NEW d, NEW K
      PROVE  LegsOf(r, d, K) = IF DayOf(at) = d /\ kind \in K THEN LegsOf(l, d, K) + 1 ELSE LegsOf(l, d, K)
  <2> DEFINE was == {i \in DOMAIN l.legs : DayOf(l.legs[i].at) = d /\ l.legs[i].kind \in K}
             is == {i \in DOMAIN more : DayOf(more[i].at) = d /\ more[i].kind \in K}
  <2>1. LegsOf(l, d, K) = Cardinality(was) /\ LegsOf(r, d, K) = Cardinality(is)
    BY <1>6 DEF LegsOf
  <2>2. IsFiniteSet(was) /\ n + 1 \notin was
    <3>1. was \subseteq 1..n /\ IsFiniteSet(1..n)
      BY <1>1, FS_Interval
    <3> QED BY <1>5a, <3>1, FS_Subset
  <2>3. is = IF DayOf(at) = d /\ kind \in K THEN was \cup {n + 1} ELSE was
    BY <1>1, <1>2, <1>3, <1>5, <1>5a
  <2> HIDE DEF was, is
  <2> QED BY <2>1, <2>2, <2>3, FS_AddElement
<1> QED BY <1>3, <1>6, <1>7, <1>8, <1>9 DEF r

LEMMA PressConsumed ==
  ASSUME NEW l \in Ledgers
  PROVE  /\ ConsumePress(l) \in Ledgers /\ ConsumePress(l).legs = l.legs
         /\ ConsumePress(l).week = l.week /\ ConsumePress(l).pressTradeUsed = TRUE
         /\ \A d, K : LegsOf(ConsumePress(l), d, K) = LegsOf(l, d, K)
<1> DEFINE c == ConsumePress(l)
<1>1. c \in Ledgers /\ c.legs = l.legs /\ c.week = l.week /\ c.pressTradeUsed = TRUE
  BY DEF ConsumePress, Ledgers
<1> HIDE DEF c
<1>2. \A d, K : LegsOf(c, d, K) = LegsOf(l, d, K)
  BY <1>1 DEF LegsOf
<1> QED BY <1>1, <1>2 DEF c
-----------------------------------------------------------------------------
(* The inductive invariant.  Before the first start the file is whatever was *)
(* left there and nothing has happened; from then on the ledger is the file, *)
(* its legs are of the window and the past, and it has counted every fill    *)
(* that was not lost.                                                        *)
Entries(l, d) == LegsOf(l, d, {"entry", "scout"})
FullDay(d) == \A at \in (d * UnitsPerDay)..((d + 1) * UnitsPerDay - 1) : InWindow(at)
Past(legs, T) == \A i \in 1..Len(legs) : legs[i].at <= T

WType ==
  /\ now \in Int /\ (now <= Horizon \/ now = WindowStart - 1)
  /\ up \in BOOLEAN /\ ledger \in Ledgers /\ disk \in Ledgers
  /\ filled \in [Days -> Nat] /\ lost \in [Days -> Nat]
  /\ pressFills \in Nat /\ pressLost \in Nat /\ open \in Nat

WPlace ==
  /\ place \in {"sleep", "evaluate", "sign"} /\ (~up => place = "sleep")
  /\ place = "sleep" => budget = NoBudget
  /\ place # "sleep" => budget.tradesToday \in Nat
  /\ place # "sign" => order = NoOrder
  /\ place = "sign" => /\ order.kind \in {"entry", "scout"}
                       /\ budget.tradesToday < Config.maxTradesPerDay

Untouched ==
  /\ ~up /\ disk \in OnDisk /\ pressFills = 0 /\ pressLost = 0
  /\ \A d \in Days : filled[d] = 0 /\ lost[d] = 0

InStep ==
  /\ ledger = disk /\ disk.week = WindowStart
  /\ InsideWindow(disk.legs) /\ Past(disk.legs, now)
  /\ \A d \in Days : /\ filled[d] <= Entries(disk, d) + lost[d]
                     /\ Entries(disk, d) <= Config.maxTradesPerDay
  /\ place # "sleep" => Entries(disk, DayOf(now)) \in {0, budget.tradesToday}

WPress ==
  /\ budget.press => ~ledger.pressTradeUsed
  /\ order.press => ~ledger.pressTradeUsed
  /\ pressFills <= pressLost + 1
  /\ pressFills > pressLost => ledger.pressTradeUsed

Ended(d) == (d + 1) * UnitsPerDay <= now
LastUnit(d) == (d + 1) * UnitsPerDay = now + 1

WMinimum ==
  \A d \in Days : FullDay(d) /\ (Ended(d) \/ (LastUnit(d) /\ cycled))
                    => LegsOf(disk, d, Kinds) >= Config.minTradesPerDay \/ d \in excused

WInv == WType /\ WPlace /\ (Untouched \/ InStep) /\ WPress /\ WMinimum
-----------------------------------------------------------------------------
LEMMA WeekConfig ==
  /\ Config.maxTradesPerDay \in Nat /\ Config.minTradesPerDay \in Nat
  /\ Config.microScoutDeadlineHours \in 1..23
BY ConfigAssumption DEF ConfigLoads, PositiveFields

LEMMA DayTyped == \A at \in Int : DayOf(at) \in Int
BY WindowAssumption DEF DayOf

LEMMA DaysInOrder ==
  ASSUME NEW a \in Int, NEW b \in Int, a <= b
  PROVE  DayOf(a) <= DayOf(b)
BY WindowAssumption DEF DayOf

LEMMA DaysAreInts == \A d \in Days : d \in Int
BY DayTyped, TradingWeekAssumption DEF Days

LEMMA DayOfTheWindow ==
  ASSUME WType, InWindow(now)
  PROVE  DayOf(now) \in Days
<1>1. now \in Int /\ now >= 0 /\ now <= Horizon
  BY WindowAssumption DEF WType, InWindow
<1>2. DayOf(0) = 0 /\ DayOf(0) <= DayOf(now) /\ DayOf(now) <= DayOf(Horizon)
  BY <1>1, WindowAssumption, TradingWeekAssumption DEF DayOf
<1> QED BY <1>1, <1>2, DayTyped, TradingWeekAssumption DEF Days

(* The last unit of a day is one of its closing ones. *)
LEMMA LastUnitCloses ==
  ASSUME now \in Int, NEW d \in Int, LastUnit(d)
  PROVE  DayOf(now) = d /\ Closing
<1>1. now = UnitsPerDay * d + (UnitsPerDay - 1)
  BY WindowAssumption DEF LastUnit
<1>2. now \div UnitsPerDay = d /\ now % UnitsPerDay = UnitsPerDay - 1
  BY <1>1, WindowAssumption
<1>3. UnitsLeftInDay(now) = 1
  BY <1>2, WindowAssumption DEF UnitsLeftInDay
<1> QED BY <1>2, <1>3, WeekConfig DEF DayOf, Closing

LEMMA MinimumKept ==
  ASSUME WMinimum, now' = now, excused \subseteq excused', disk \in Ledgers, disk' \in Ledgers,
         \A d \in Days : FullDay(d) => LegsOf(disk', d, Kinds) >= LegsOf(disk, d, Kinds),
         cycled' => \/ cycled
                    \/ \A d \in Days : FullDay(d) /\ LastUnit(d) =>
                         LegsOf(disk, d, Kinds) >= Config.minTradesPerDay \/ d \in excused'
  PROVE  WMinimum'
<1> SUFFICES ASSUME NEW d \in Days, FullDay(d), Ended(d) \/ (LastUnit(d) /\ cycled')
             PROVE  LegsOf(disk', d, Kinds) >= Config.minTradesPerDay \/ d \in excused'
  BY DEF WMinimum, Ended, LastUnit, FullDay, InWindow
<1>1. LegsOf(disk, d, Kinds) \in Nat /\ LegsOf(disk', d, Kinds) \in Nat
  BY LegsCounted
<1>2. LegsOf(disk, d, Kinds) >= Config.minTradesPerDay \/ d \in excused'
  BY DEF WMinimum
<1>3. LegsOf(disk', d, Kinds) >= LegsOf(disk, d, Kinds)
  OBVIOUS
<1> QED BY <1>1, <1>2, <1>3, WeekConfig

(* A step that leaves the ledger and the counts alone. *)
LEMMA BooksAtRest ==
  ASSUME WInv, UNCHANGED <<now, up, ledger, disk, filled, lost, pressFills, pressLost, open>>
  PROVE  WType' /\ (Untouched => Untouched')
<1>1. WType'
  BY DEF WInv, WType
<1>2. Untouched => Untouched'
  BY DEF Untouched
<1> QED BY <1>1, <1>2

(* The main loop comes to rest: what it had decided on is gone. *)
LEMMA IdlePlace ==
  ASSUME WInv, Idle, up' \in {up, FALSE}
  PROVE  /\ WPlace'
         /\ budget'.press = FALSE /\ order'.press = FALSE /\ place' = "sleep"
BY DEF Idle, WPlace, NoBudget, NoOrder

(* The steps of the flag and the marker. *)
LEMMA MarkersKeep == ASSUME WInv, StartHalts \/ OperatorResolves PROVE WInv'
<1>1. UNCHANGED <<now, up, ledger, disk, filled, lost, pressFills, pressLost, open, place, budget, order,
                  cycled, excused>>
  BY DEF StartHalts, OperatorResolves, books, seen
<1>2. WType' /\ (Untouched => Untouched')
  BY <1>1, BooksAtRest
<1>3. WPlace' /\ WPress' /\ (InStep => InStep')
  BY <1>1 DEF WInv, WPlace, WPress, InStep
<1>4. WMinimum'
  BY <1>1 DEF WInv, WMinimum, Ended, LastUnit
<1> QED BY <1>2, <1>3, <1>4 DEF WInv

LEMMA StutterKeeps == ASSUME WInv, UNCHANGED vars PROVE WInv'
<1>1. UNCHANGED <<now, up, ledger, disk, filled, lost, pressFills, pressLost, open, place, budget, order,
                  cycled, excused>>
  BY DEF vars, worker, books, seen, count
<1>2. WType' /\ (Untouched => Untouched')
  BY <1>1, BooksAtRest
<1>3. WPlace' /\ WPress' /\ (InStep => InStep')
  BY <1>1 DEF WInv, WPlace, WPress, InStep
<1>4. WMinimum'
  BY <1>1 DEF WInv, WMinimum, Ended, LastUnit
<1> QED BY <1>2, <1>3, <1>4 DEF WInv

LEMMA PressAsksTheFlag ==
  ASSUME NEW l \in Ledgers, NEW r, NEW at
  PROVE  EvaluateWeekBudget(l, r, at).pressTrade => ~l.pressTradeUsed
BY DEF EvaluateWeekBudget, Budget

LEMMA BeginKeeps == ASSUME WInv, BeginCycle PROVE WInv'
<1>1. /\ up /\ place = "sleep" /\ InStep
      /\ UNCHANGED <<now, up, filled, lost, pressFills, pressLost, open, order, cycled, excused>>
      /\ ledger' = ledger /\ disk' = ledger /\ place' = "evaluate"
      /\ budget'.press = EvaluateWeekBudget(ledger, weekReturn, now).pressTrade
      /\ budget'.tradesToday = EntriesOnUtcDay(ledger, now)
  BY DEF BeginCycle, Saved, seen, WInv, Untouched
<1>2. disk' = disk
  BY <1>1 DEF InStep
<1>3. WType'
  BY <1>1, <1>2, BooksAtRest DEF WInv
<1>4. ledger \in Ledgers
  BY DEF WInv, WType
<1>5. budget'.tradesToday \in Nat /\ budget'.tradesToday = Entries(disk, DayOf(now))
  BY <1>1, <1>4, LegsCounted DEF EntriesOnUtcDay, Entries, InStep
<1>6. order' = NoOrder
  BY <1>1 DEF WInv, WPlace
<1>7. WPlace'
  BY <1>1, <1>5, <1>6 DEF WPlace
<1>8. InStep'
  BY <1>1, <1>2, <1>5 DEF InStep
<1>9. WPress'
  BY <1>1, <1>4, <1>6, PressAsksTheFlag DEF WInv, WPress, NoOrder
<1>10. WMinimum'
  BY <1>1, <1>2 DEF WInv, WMinimum, Ended, LastUnit
<1> QED BY <1>3, <1>7, <1>8, <1>9, <1>10 DEF WInv

LEMMA DecideKeeps == ASSUME WInv, DecideAttack \/ DecideScout PROVE WInv'
<1>1. /\ up /\ place = "evaluate" /\ place' = "sign"
      /\ UNCHANGED <<now, up, ledger, disk, filled, lost, pressFills, pressLost, open, budget, cycled, excused>>
      /\ order'.kind \in {"entry", "scout"} /\ (order'.press => budget.press)
      /\ budget.tradesToday < Config.maxTradesPerDay
  <2>1. CASE DecideAttack
    <3>1. PICK cash \in BOOLEAN : Deciding("attack", TRUE, cash)
      BY <2>1 DEF DecideAttack
    <3>2. up /\ place = "evaluate" /\ budget.tradesToday < Config.maxTradesPerDay
      BY <3>1 DEF Deciding, Approvable
    <3>3. Sign("entry", budget.press)
      BY <2>1 DEF DecideAttack
    <3> QED BY <3>2, <3>3 DEF Sign, books, seen
  <2>2. CASE DecideScout
    <3>1. up /\ place = "evaluate" /\ budget.tradesToday < Config.maxTradesPerDay
      BY <2>2 DEF DecideScout, Deciding
    <3>2. Sign("scout", FALSE)
      BY <2>2 DEF DecideScout
    <3> QED BY <3>1, <3>2 DEF Sign, books, seen
  <2> QED BY <2>1, <2>2
<1>2. WType' /\ (Untouched => Untouched')
  BY <1>1, BooksAtRest
<1>3. WPlace'
  BY <1>1 DEF WInv, WPlace
<1>4. WPress'
  BY <1>1 DEF WInv, WPress
<1>5. InStep => InStep'
  BY <1>1 DEF InStep
<1>6. WMinimum'
  BY <1>1 DEF WInv, WMinimum, Ended, LastUnit
<1> QED BY <1>2, <1>3, <1>4, <1>5, <1>6 DEF WInv

(* A cycle that ends without a fill. *)
LEMMA RestKeeps ==
  ASSUME WInv, Rest, excused \subseteq excused',
         UNCHANGED <<now, up, ledger, disk, filled, lost, pressFills, pressLost, open>>,
         \A d \in Days : FullDay(d) /\ LastUnit(d) =>
            LegsOf(disk, d, Kinds) >= Config.minTradesPerDay \/ d \in excused'
  PROVE  WInv'
<1>1. WType' /\ (Untouched => Untouched')
  BY BooksAtRest
<1>2. WPlace' /\ budget'.press = FALSE /\ order'.press = FALSE /\ place' = "sleep"
  BY IdlePlace DEF Rest
<1>3. WPress'
  BY <1>2 DEF WInv, WPress
<1>4. InStep => InStep'
  BY <1>2 DEF InStep
<1>5. WMinimum'
  <2>1. disk \in Ledgers /\ disk' \in Ledgers
    BY <1>1 DEF WInv, WType
  <2>2. \A d \in Days : LegsOf(disk', d, Kinds) = LegsOf(disk, d, Kinds) /\ LegsOf(disk, d, Kinds) \in Nat
    BY <2>1, LegsCounted
  <2> QED BY <2>1, <2>2, MinimumKept DEF WInv
<1> QED BY <1>1, <1>2, <1>3, <1>4, <1>5 DEF WInv

LEMMA BelatedExcuses ==
  ASSUME WInv, Belated
  PROVE  /\ excused \subseteq excused'
         /\ \A d \in Days : LastUnit(d) => d \in excused'
<1>1. excused \subseteq excused'
  BY DEF Belated
<1>2. ASSUME NEW d \in Days, LastUnit(d) PROVE d \in excused'
  <2>1. DayOf(now) = d /\ Closing
    BY <1>2, LastUnitCloses, DaysAreInts DEF WInv, WType
  <2> QED BY <2>1 DEF Belated
<1> QED BY <1>1, <1>2

LEMMA BelatedKeeps == ASSUME WInv, ScoutRejected \/ NoScoutOutside \/ Refused PROVE WInv'
<1>1. /\ Belated /\ Rest
      /\ UNCHANGED <<now, up, ledger, disk, filled, lost, pressFills, pressLost, open>>
  BY DEF ScoutRejected, NoScoutOutside, Refused, books, seen
<1> QED BY <1>1, BelatedExcuses, RestKeeps

(* The scheduler holds in a last unit with the minimum unmet only for want of *)
(* an empty book and of cash.                                                *)
LEMMA HoldKeeps == ASSUME WInv, DecideHold PROVE WInv'
<1>1. /\ up /\ Rest
      /\ UNCHANGED <<now, up, ledger, disk, filled, lost, pressFills, pressLost, open>>
  BY DEF DecideHold, Deciding, books, seen
<1>2. PICK edge \in BOOLEAN, cash \in BOOLEAN :
        /\ DecideTradePlan(ledger, now, edge, open = 0 /\ cash) = "hold"
        /\ IF open > 0 \/ ~cash THEN Belated ELSE UNCHANGED excused
  BY DEF DecideHold, Deciding
<1>3. CASE Belated
  BY <1>1, <1>3, BelatedExcuses, RestKeeps
<1>4. CASE ~Belated
  <2>1. open = 0 /\ cash /\ excused' = excused
    BY <1>2, <1>4 DEF WInv, WType
  <2>2. ASSUME NEW d \in Days, LastUnit(d) PROVE LegsOf(disk, d, Kinds) >= Config.minTradesPerDay
    <3>1. DayOf(now) = d /\ UnitsLeftInDay(now) <= Config.microScoutDeadlineHours
      BY <2>2, LastUnitCloses, DaysAreInts DEF WInv, WType, Closing
    <3>2. ~(LegsOnUtcDay(ledger, now) < Config.minTradesPerDay)
      BY <1>2, <2>1, <3>1 DEF DecideTradePlan
    <3>3. LegsOnUtcDay(ledger, now) = LegsOf(disk, d, Kinds)
      BY <1>1, <3>1 DEF LegsOnUtcDay, WInv, Untouched, InStep
    <3>4. LegsOf(disk, d, Kinds) \in Nat
      BY LegsCounted DEF WInv, WType
    <3> QED BY <3>2, <3>3, <3>4, WeekConfig
  <2> QED BY <1>1, <2>1, <2>2, RestKeeps
<1> QED BY <1>3, <1>4
-----------------------------------------------------------------------------
(* Fills. *)

LEMMA FoldedFacts ==
  ASSUME WType, NEW l \in Ledgers, NEW kind \in {"entry", "scout"}, NEW press \in BOOLEAN
  PROVE  /\ Folded(l, kind, press) \in Ledgers
         /\ Folded(l, kind, press).week = l.week
         /\ InsideWindow(l.legs) => InsideWindow(Folded(l, kind, press).legs)
         /\ Past(l.legs, now) => Past(Folded(l, kind, press).legs, now)
         /\ Folded(l, kind, press).pressTradeUsed = (l.pressTradeUsed \/ (press /\ InWindow(now)))
         /\ \A d, K : LegsOf(Folded(l, kind, press), d, K) =
              IF InWindow(now) /\ DayOf(now) = d /\ kind \in K
              THEN LegsOf(l, d, K) + 1 ELSE LegsOf(l, d, K)
<1>0. kind \in Kinds /\ now \in Int
  BY DEF Kinds, WType
<1> DEFINE r == RecordLeg(l, kind, now)
<1>1. /\ r \in Ledgers /\ r.week = l.week /\ r.pressTradeUsed = l.pressTradeUsed
      /\ InsideWindow(l.legs) /\ InWindow(now) => InsideWindow(r.legs)
      /\ Past(l.legs, now) => Past(r.legs, now)
      /\ \A d, K : LegsOf(r, d, K) =
           IF DayOf(now) = d /\ kind \in K THEN LegsOf(l, d, K) + 1 ELSE LegsOf(l, d, K)
  <2>1. /\ r \in Ledgers /\ r.week = l.week /\ r.pressTradeUsed = l.pressTradeUsed
        /\ InsideWindow(l.legs) /\ InWindow(now) => InsideWindow(r.legs)
        /\ \A d, K : LegsOf(r, d, K) =
             IF DayOf(now) = d /\ kind \in K THEN LegsOf(l, d, K) + 1 ELSE LegsOf(l, d, K)
    BY <1>0, LegRecorded
  <2>2. \A T \in Int : (\A i \in 1..Len(l.legs) : l.legs[i].at <= T) /\ now <= T
                        => \A i \in 1..Len(r.legs) : r.legs[i].at <= T
    BY <1>0, LegRecorded
  <2> HIDE DEF r
  <2>3. Past(l.legs, now) => Past(r.legs, now)
    BY <1>0, <2>2 DEF Past
  <2> QED BY <2>1, <2>3
<1> DEFINE c == ConsumePress(r)
<1>2. /\ c \in Ledgers /\ c.legs = r.legs /\ c.week = r.week /\ c.pressTradeUsed = TRUE
      /\ \A d, K : LegsOf(c, d, K) = LegsOf(r, d, K)
  BY <1>1, PressConsumed
<1>3. Folded(l, kind, press) = IF ~InWindow(now) THEN l ELSE IF press THEN c ELSE r
  BY DEF Folded
<1>4. l.pressTradeUsed \in BOOLEAN
  BY DEF Ledgers
<1> HIDE DEF r, c
<1>5. CASE ~InWindow(now)
  BY <1>3, <1>4, <1>5
<1>6. CASE InWindow(now) /\ press
  <2>1. Folded(l, kind, press) = c
    BY <1>3, <1>6
  <2>2. Past(c.legs, now) <=> Past(r.legs, now)
    BY <1>2
  <2>3. InsideWindow(c.legs) <=> InsideWindow(r.legs)
    BY <1>2
  <2>4. c.pressTradeUsed = (l.pressTradeUsed \/ (press /\ InWindow(now)))
    BY <1>2, <1>6
  <2>5. \A d, K : LegsOf(c, d, K) = IF InWindow(now) /\ DayOf(now) = d /\ kind \in K
                                    THEN LegsOf(l, d, K) + 1 ELSE LegsOf(l, d, K)
    BY <1>1, <1>2, <1>6
  <2> QED BY <1>1, <1>2, <1>6, <2>1, <2>2, <2>3, <2>4, <2>5
<1>7. CASE InWindow(now) /\ ~press
  BY <1>1, <1>3, <1>4, <1>7
<1> QED BY <1>5, <1>6, <1>7

(* What a fill adds to the counts, recorded or not. *)
LEMMA CountedFacts ==
  ASSUME WType, NEW recorded \in BOOLEAN, Counted(recorded)
  PROVE  /\ filled' \in [Days -> Nat] /\ lost' \in [Days -> Nat]
         /\ \A d \in Days :
              /\ filled'[d] = IF InWindow(now) /\ d = DayOf(now) THEN filled[d] + 1 ELSE filled[d]
              /\ lost'[d] = IF InWindow(now) /\ d = DayOf(now) /\ ~recorded THEN lost[d] + 1 ELSE lost[d]
         /\ pressFills' = IF order.press /\ InWindow(now) THEN pressFills + 1 ELSE pressFills
         /\ pressLost' = IF order.press /\ InWindow(now) /\ ~recorded THEN pressLost + 1 ELSE pressLost
         /\ pressFills' \in Nat /\ pressLost' \in Nat
<1>1. InWindow(now) => DayOf(now) \in Days
  BY DayOfTheWindow
<1>2. filled \in [Days -> Nat] /\ lost \in [Days -> Nat] /\ pressFills \in Nat /\ pressLost \in Nat
  BY DEF WType
<1>3. /\ filled' = IF InWindow(now) THEN [filled EXCEPT ![DayOf(now)] = @ + 1] ELSE filled
      /\ lost' = IF recorded THEN lost
                 ELSE IF InWindow(now) THEN [lost EXCEPT ![DayOf(now)] = @ + 1] ELSE lost
      /\ pressFills' = pressFills + (IF order.press /\ InWindow(now) THEN 1 ELSE 0)
      /\ pressLost' = pressLost + (IF (order.press /\ InWindow(now)) /\ ~recorded THEN 1 ELSE 0)
  BY DEF Counted
<1>4. pressFills' = IF order.press /\ InWindow(now) THEN pressFills + 1 ELSE pressFills
  BY <1>2, <1>3
<1>5. pressLost' = IF order.press /\ InWindow(now) /\ ~recorded THEN pressLost + 1 ELSE pressLost
  BY <1>2, <1>3
<1>6. filled' \in [Days -> Nat] /\ lost' \in [Days -> Nat]
  BY <1>1, <1>2, <1>3
<1>7. \A d \in Days :
        filled'[d] = IF InWindow(now) /\ d = DayOf(now) THEN filled[d] + 1 ELSE filled[d]
  BY <1>1, <1>2, <1>3
<1>8. \A d \in Days :
        lost'[d] = IF InWindow(now) /\ d = DayOf(now) /\ ~recorded THEN lost[d] + 1 ELSE lost[d]
  BY <1>1, <1>2, <1>3
<1> QED BY <1>2, <1>4, <1>5, <1>6, <1>7, <1>8

LEMMA FillKeeps == ASSUME WInv, Fill PROVE WInv'
<1> DEFINE new == Folded(ledger, order.kind, order.press)
<1>1. /\ up /\ place = "sign" /\ ledger' = new /\ disk' = new /\ Idle /\ Counted(TRUE)
      /\ up' = up /\ now' = now /\ cycled' = cycled /\ excused' = excused
      /\ open' = IF order.kind = "entry" THEN open + 1 ELSE open
  BY DEF Fill, Saved
<1>2. /\ WType /\ WPlace /\ InStep /\ WPress /\ WMinimum
      /\ order.kind \in {"entry", "scout"} /\ budget.tradesToday < Config.maxTradesPerDay
      /\ budget.tradesToday \in Nat
  BY <1>1 DEF WInv, WPlace, Untouched
<1>3. ledger \in Ledgers /\ disk = ledger
  BY <1>2 DEF WType, InStep
<1>4. PICK press \in BOOLEAN : (press <=> order.press) /\ new = Folded(ledger, order.kind, press)
  <2>1. CASE order.press
    <3>1. Folded(ledger, order.kind, order.press) = Folded(ledger, order.kind, TRUE)
      BY <2>1 DEF Folded
    <3> QED BY <2>1, <3>1
  <2>2. CASE ~order.press
    <3>1. Folded(ledger, order.kind, order.press) = Folded(ledger, order.kind, FALSE)
      BY <2>2 DEF Folded
    <3> QED BY <2>2, <3>1
  <2> QED BY <2>1, <2>2
<1>5. /\ new \in Ledgers /\ new.week = ledger.week
      /\ InsideWindow(new.legs) /\ Past(new.legs, now)
      /\ new.pressTradeUsed = (ledger.pressTradeUsed \/ (press /\ InWindow(now)))
      /\ \A d, K : LegsOf(new, d, K) =
           IF InWindow(now) /\ DayOf(now) = d /\ order.kind \in K
           THEN LegsOf(ledger, d, K) + 1 ELSE LegsOf(ledger, d, K)
  <2> DEFINE f == Folded(ledger, order.kind, press)
  <2>1. /\ f \in Ledgers /\ f.week = ledger.week
        /\ InsideWindow(ledger.legs) => InsideWindow(f.legs)
        /\ Past(ledger.legs, now) => Past(f.legs, now)
        /\ f.pressTradeUsed = (ledger.pressTradeUsed \/ (press /\ InWindow(now)))
        /\ \A d, K : LegsOf(f, d, K) =
             IF InWindow(now) /\ DayOf(now) = d /\ order.kind \in K
             THEN LegsOf(ledger, d, K) + 1 ELSE LegsOf(ledger, d, K)
    BY <1>2, <1>3, FoldedFacts
  <2>2. InsideWindow(ledger.legs) /\ Past(ledger.legs, now)
    BY <1>2, <1>3 DEF InStep
  <2>3. new = f
    BY <1>4
  <2> HIDE DEF f, new
  <2> QED BY <2>1, <2>2, <2>3
<1> HIDE DEF new
<1>6. /\ filled' \in [Days -> Nat] /\ lost' \in [Days -> Nat]
      /\ \A d \in Days :
           /\ filled'[d] = IF InWindow(now) /\ d = DayOf(now) THEN filled[d] + 1 ELSE filled[d]
           /\ lost'[d] = lost[d]
      /\ pressFills' = IF order.press /\ InWindow(now) THEN pressFills + 1 ELSE pressFills
      /\ pressLost' = pressLost
      /\ pressFills' \in Nat /\ pressLost' \in Nat
  BY <1>1, <1>2, CountedFacts
<1>7. WType'
  BY <1>1, <1>2, <1>5, <1>6 DEF WType
<1>8. WPlace' /\ budget'.press = FALSE /\ order'.press = FALSE /\ place' = "sleep"
  BY <1>1, IdlePlace
<1>9. WPress'
  <2>1. pressFills \in Nat /\ pressLost \in Nat /\ (order.press => pressFills <= pressLost)
    BY <1>2 DEF WType, WPress
  <2>2. pressFills' <= pressLost' + 1
    BY <1>2, <1>6, <2>1 DEF WPress
  <2>3. pressFills' > pressLost' => ledger'.pressTradeUsed
    BY <1>1, <1>2, <1>4, <1>5, <1>6 DEF WPress
  <2> QED BY <1>8, <2>2, <2>3 DEF WPress
<1>10. InStep'
  <2>1. ASSUME NEW d \in Days
        PROVE  /\ filled'[d] <= Entries(disk', d) + lost'[d]
               /\ Entries(disk', d) <= Config.maxTradesPerDay
    <3>1. /\ Entries(ledger, d) \in Nat /\ filled[d] \in Nat /\ lost[d] \in Nat
          /\ filled[d] <= Entries(ledger, d) + lost[d] /\ Entries(ledger, d) <= Config.maxTradesPerDay
      BY <1>2, <1>3, LegsCounted DEF Entries, WType, InStep
    <3>2. Entries(disk', d) = IF InWindow(now) /\ DayOf(now) = d THEN Entries(ledger, d) + 1
                              ELSE Entries(ledger, d)
      BY <1>1, <1>2, <1>5 DEF Entries
    <3>3. DayOf(now) = d => Entries(ledger, d) \in {0, budget.tradesToday}
      BY <1>1, <1>2, <1>3 DEF InStep
    <3>4. DayOf(now) = d => Entries(ledger, d) + 1 <= Config.maxTradesPerDay
      BY <1>2, <3>3, WeekConfig
    <3> QED BY <1>6, <3>1, <3>2, <3>4, WeekConfig
  <2> QED BY <1>1, <1>2, <1>3, <1>5, <1>8, <2>1 DEF InStep
<1>11. WMinimum'
  <2>1. \A d \in Days : LegsOf(disk', d, Kinds) >= LegsOf(disk, d, Kinds)
    <3> SUFFICES ASSUME NEW d \in Days PROVE LegsOf(disk', d, Kinds) >= LegsOf(disk, d, Kinds)
      OBVIOUS
    <3>1. LegsOf(ledger, d, Kinds) \in Nat
      BY <1>3, LegsCounted
    <3> QED BY <1>1, <1>3, <1>5, <3>1
  <2> QED BY <1>1, <1>2, <1>3, <1>5, <2>1, MinimumKept
<1> QED BY <1>7, <1>8, <1>9, <1>10, <1>11 DEF WInv

(* A fill the ledger does not hear of counts on both sides. *)
LEMMA LossCounts ==
  ASSUME WInv, place = "sign", Counted(FALSE), UNCHANGED <<now, ledger, disk, open>>, Idle,
         up' \in {up, FALSE}
  PROVE  WType' /\ WPlace' /\ InStep' /\ WPress'
<1>1. WType /\ WPlace /\ InStep /\ WPress
  BY DEF WInv, WPlace, Untouched
<1>2. /\ filled' \in [Days -> Nat] /\ lost' \in [Days -> Nat]
      /\ \A d \in Days :
           /\ filled'[d] = IF InWindow(now) /\ d = DayOf(now) THEN filled[d] + 1 ELSE filled[d]
           /\ lost'[d] = IF InWindow(now) /\ d = DayOf(now) THEN lost[d] + 1 ELSE lost[d]
      /\ pressFills' = IF order.press /\ InWindow(now) THEN pressFills + 1 ELSE pressFills
      /\ pressLost' = IF order.press /\ InWindow(now) THEN pressLost + 1 ELSE pressLost
      /\ pressFills' \in Nat /\ pressLost' \in Nat
  BY <1>1, CountedFacts
<1>3. WType'
  BY <1>1, <1>2 DEF WType
<1>4. WPlace' /\ budget'.press = FALSE /\ order'.press = FALSE /\ place' = "sleep"
  BY IdlePlace
<1>5. pressFills \in Nat /\ pressLost \in Nat
  BY <1>1 DEF WType
<1>6. WPress'
  BY <1>1, <1>2, <1>4, <1>5 DEF WPress
<1>7. InStep'
  <2>1. ASSUME NEW d \in Days PROVE filled'[d] <= Entries(disk, d) + lost'[d]
    <3>1. Entries(disk, d) \in Nat /\ filled[d] \in Nat /\ lost[d] \in Nat
      BY <1>1, LegsCounted DEF Entries, WType
    <3>2. filled[d] <= Entries(disk, d) + lost[d]
      BY <1>1 DEF InStep
    <3> QED BY <1>2, <3>1, <3>2
  <2> QED BY <1>1, <1>4, <2>1 DEF InStep
<1> QED BY <1>3, <1>4, <1>6, <1>7

LEMMA LostFillKeeps == ASSUME WInv, LostFill PROVE WInv'
<1>1. /\ place = "sign" /\ Counted(FALSE) /\ Rest /\ Belated
      /\ UNCHANGED <<now, up, ledger, disk, open>>
  BY DEF LostFill, books
<1>2. WType' /\ WPlace' /\ InStep' /\ WPress'
  BY <1>1, LossCounts DEF Rest
<1>3. WMinimum'
  <2>1. disk \in Ledgers
    BY DEF WInv, WType
  <2>2. \A d \in Days : LegsOf(disk', d, Kinds) >= LegsOf(disk, d, Kinds)
    BY <1>1, <2>1, LegsCounted
  <2> QED BY <1>1, <2>1, <2>2, BelatedExcuses, MinimumKept DEF WInv
<1> QED BY <1>2, <1>3 DEF WInv

LEMMA CrashKeeps == ASSUME WInv, CrashSafe \/ CrashAfterBroadcast PROVE WInv'
<1>1. /\ Idle /\ up' = FALSE /\ UNCHANGED <<now, ledger, disk, open, cycled>> /\ excused \subseteq excused'
  BY BelatedExcuses DEF CrashSafe, CrashAfterBroadcast, Crash, books
<1>2. WMinimum'
  <2>1. disk \in Ledgers
    BY DEF WInv, WType
  <2>2. \A d \in Days : LegsOf(disk', d, Kinds) >= LegsOf(disk, d, Kinds)
    BY <1>1, <2>1, LegsCounted
  <2> QED BY <1>1, <2>1, <2>2, MinimumKept DEF WInv
<1>3. CASE CrashAfterBroadcast
  <2>1. place = "sign" /\ Counted(FALSE)
    BY <1>3 DEF CrashAfterBroadcast, Crash
  <2>2. WType' /\ WPlace' /\ InStep' /\ WPress'
    BY <1>1, <2>1, LossCounts
  <2> QED BY <1>2, <2>2 DEF WInv
<1>4. CASE CrashSafe
  <2>1. UNCHANGED <<filled, lost, pressFills, pressLost>> /\ up
    BY <1>4 DEF CrashSafe, Crash, seen
  <2>2. WType' /\ InStep
    BY <1>1, <2>1 DEF WInv, WType, Untouched
  <2>3. WPlace' /\ budget'.press = FALSE /\ order'.press = FALSE /\ place' = "sleep"
    BY <1>1, IdlePlace
  <2>4. InStep'
    BY <1>1, <2>1, <2>2, <2>3 DEF InStep
  <2>5. WPress'
    BY <1>1, <2>1, <2>3 DEF WInv, WPress
  <2> QED BY <1>2, <2>2, <2>3, <2>4, <2>5 DEF WInv
<1> QED BY <1>3, <1>4
-----------------------------------------------------------------------------
LEMMA ExitKeeps == ASSUME WInv, Exit PROVE WInv'
<1> DEFINE new == IF InWindow(now) THEN RecordLeg(ledger, "exit", now) ELSE ledger
<1>1. /\ up /\ open > 0 /\ open' = open - 1 /\ ledger' = new /\ disk' = new
      /\ UNCHANGED <<now, up, filled, lost, pressFills, pressLost, place, budget, order, cycled, excused>>
  BY DEF Exit, Saved, seen
<1>2. WType /\ WPlace /\ InStep /\ WPress /\ WMinimum
  BY <1>1 DEF WInv, Untouched
<1>3. ledger \in Ledgers /\ disk = ledger /\ now \in Int
  BY <1>2 DEF WType, InStep
<1>4. /\ new \in Ledgers /\ new.week = ledger.week /\ new.pressTradeUsed = ledger.pressTradeUsed
      /\ InsideWindow(ledger.legs) => InsideWindow(new.legs)
      /\ Past(ledger.legs, now) => Past(new.legs, now)
      /\ \A d, K : LegsOf(new, d, K) =
           IF InWindow(now) /\ DayOf(now) = d /\ "exit" \in K THEN LegsOf(ledger, d, K) + 1
           ELSE LegsOf(ledger, d, K)
  <2> DEFINE r == RecordLeg(ledger, "exit", now)
  <2>1. /\ r \in Ledgers /\ r.week = ledger.week /\ r.pressTradeUsed = ledger.pressTradeUsed
        /\ InsideWindow(ledger.legs) /\ InWindow(now) => InsideWindow(r.legs)
        /\ \A d, K : LegsOf(r, d, K) =
             IF DayOf(now) = d /\ "exit" \in K THEN LegsOf(ledger, d, K) + 1 ELSE LegsOf(ledger, d, K)
    BY <1>3, LegRecorded DEF Kinds
  <2>2. \A T \in Int : (\A i \in 1..Len(ledger.legs) : ledger.legs[i].at <= T) /\ now <= T
                        => \A i \in 1..Len(r.legs) : r.legs[i].at <= T
    BY <1>3, LegRecorded DEF Kinds
  <2>3. new = IF InWindow(now) THEN r ELSE ledger
    OBVIOUS
  <2> HIDE DEF r, new
  <2>4. Past(ledger.legs, now) => Past(r.legs, now)
    BY <1>3, <2>2 DEF Past
  <2>5. CASE InWindow(now)
    BY <2>1, <2>3, <2>4, <2>5
  <2>6. CASE ~InWindow(now)
    BY <1>3, <2>3, <2>6
  <2> QED BY <2>5, <2>6
<1> HIDE DEF new
<1>5. WType'
  BY <1>1, <1>2, <1>4 DEF WType
<1>6. WPlace'
  BY <1>1, <1>2 DEF WPlace
<1>7. WPress'
  BY <1>1, <1>2, <1>4 DEF WPress
<1>8. InStep'
  <2>1. \A d : Entries(disk', d) = Entries(disk, d)
    BY <1>1, <1>3, <1>4 DEF Entries
  <2> QED BY <1>1, <1>2, <1>3, <1>4, <2>1 DEF InStep
<1>9. WMinimum'
  <2>1. \A d \in Days : LegsOf(disk', d, Kinds) >= LegsOf(disk, d, Kinds)
    <3> SUFFICES ASSUME NEW d \in Days PROVE LegsOf(disk', d, Kinds) >= LegsOf(disk, d, Kinds)
      OBVIOUS
    <3>1. LegsOf(ledger, d, Kinds) \in Nat
      BY <1>3, LegsCounted
    <3> QED BY <1>1, <1>3, <1>4, <3>1
  <2> QED BY <1>1, <1>2, <1>3, <1>4, <2>1, MinimumKept
<1> QED BY <1>5, <1>6, <1>7, <1>8, <1>9 DEF WInv

(* Midnight: the day that begins has no legs yet, and the one that ends has  *)
(* its minimum, or its last unit passed without a cycle.                     *)
LEMMA AdvanceKeeps == ASSUME WInv, Advance PROVE WInv'
<1>1. /\ now < Horizon /\ now' = now + 1 /\ cycled' = FALSE
      /\ excused' = (IF Closing /\ ~cycled THEN excused \cup {DayOf(now)} ELSE excused)
      /\ UNCHANGED <<up, ledger, disk, open, filled, lost, pressFills, pressLost, place, budget, order>>
  BY DEF Advance, worker, books, seen
<1>2. WType /\ WPlace /\ WPress /\ WMinimum
  BY DEF WInv
<1>3. now \in Int /\ Horizon \in Nat /\ disk \in Ledgers
  BY <1>2, TradingWeekAssumption DEF WType
<1>4. WType' /\ WPlace' /\ WPress' /\ (Untouched => Untouched')
  BY <1>1, <1>2, <1>3 DEF WType, WPlace, WPress, Untouched
<1>5. ASSUME InStep PROVE InStep'
  <2>1. /\ ledger = disk /\ disk.week = WindowStart /\ InsideWindow(disk.legs) /\ Past(disk.legs, now)
        /\ \A d \in Days : /\ filled[d] <= Entries(disk, d) + lost[d]
                           /\ Entries(disk, d) <= Config.maxTradesPerDay
        /\ place # "sleep" => Entries(disk, DayOf(now)) \in {0, budget.tradesToday}
    BY <1>5 DEF InStep
  <2>2. disk.legs \in Seq(Leg) /\ \A i \in 1..Len(disk.legs) : disk.legs[i].at \in Int
    <3>1. disk.legs \in Seq(Leg)
      BY <1>3 DEF Ledgers
    <3>2. ASSUME NEW i \in 1..Len(disk.legs) PROVE disk.legs[i].at \in Int
      <4>1. disk.legs[i] \in Leg
        BY <3>1
      <4> QED BY <4>1 DEF Leg
    <3> QED BY <3>1, <3>2
  <2>3. Past(disk.legs, now + 1)
    BY <1>3, <2>1, <2>2 DEF Past
  <2>4. DayOf(now + 1) # DayOf(now) => Entries(disk, DayOf(now + 1)) = 0
    <3> SUFFICES ASSUME DayOf(now + 1) # DayOf(now) PROVE Entries(disk, DayOf(now + 1)) = 0
      OBVIOUS
    <3>1. DayOf(now) <= DayOf(now + 1) /\ DayOf(now) \in Int /\ DayOf(now + 1) \in Int
      BY <1>3, WindowAssumption DEF DayOf
    <3>2. ASSUME NEW i \in 1..Len(disk.legs) PROVE DayOf(disk.legs[i].at) # DayOf(now + 1)
      <4>1. disk.legs[i].at \in Int /\ disk.legs[i].at <= now
        BY <2>1, <2>2 DEF Past
      <4>2. DayOf(disk.legs[i].at) <= DayOf(now) /\ DayOf(disk.legs[i].at) \in Int
        BY <1>3, <4>1, DaysInOrder, DayTyped
      <4> QED BY <3>1, <4>2
    <3> QED BY <1>3, <3>2, NoLegsCounted DEF Entries
  <2>5. place # "sleep" => Entries(disk, DayOf(now + 1)) \in {0, budget.tradesToday}
    BY <2>1, <2>4
  <2> QED BY <1>1, <2>1, <2>3, <2>5 DEF InStep
<1>6. WMinimum'
  <2> SUFFICES ASSUME NEW d \in Days, FullDay(d), (d + 1) * UnitsPerDay <= now + 1
               PROVE  LegsOf(disk, d, Kinds) >= Config.minTradesPerDay \/ d \in excused'
    BY <1>1 DEF WMinimum, FullDay, InWindow, Ended
  <2>1. d \in Int /\ (d + 1) * UnitsPerDay \in Int
    BY DaysAreInts, WindowAssumption
  <2>2. Ended(d) \/ LastUnit(d)
    BY <1>3, <2>1 DEF Ended, LastUnit
  <2>3. CASE Ended(d) \/ cycled
    BY <1>1, <1>2, <2>2, <2>3 DEF WMinimum
  <2>4. CASE LastUnit(d) /\ ~cycled
    BY <1>1, <1>3, <2>1, <2>4, LastUnitCloses
  <2> QED BY <2>2, <2>3, <2>4
<1> QED BY <1>4, <1>5, <1>6 DEF WInv

(* The first start takes nothing over from a file of before the window.      *)
LEMMA OnDiskTyped ==
  ASSUME NEW l \in OnDisk
  PROVE  /\ l \in Ledgers /\ OutsideWindow(l.legs)
         /\ \A d \in Int : FullDay(d) => LegsOf(l, d, Kinds) = 0
<1>1. CASE l.legs = <<>> /\ l.week \in Int /\ l.pressTradeUsed \in BOOLEAN /\ l \in Ledgers
  <2>1. OutsideWindow(l.legs)
    BY <1>1 DEF OutsideWindow
  <2>2. \A i \in 1..Len(l.legs) : FALSE
    BY <1>1
  <2> QED BY <1>1, <2>1, <2>2, NoLegsCounted
<1>2. CASE l = [week |-> WindowStart, pressTradeUsed |-> TRUE,
                legs |-> <<[at |-> WindowStart - 1, kind |-> "entry"]>>]
  <2> DEFINE leg == [at |-> WindowStart - 1, kind |-> "entry"]
  <2>1. leg \in Leg /\ leg.at = WindowStart - 1
    BY WindowAssumption DEF Leg, Kinds
  <2> HIDE DEF leg
  <2>2. l.legs = <<leg>> /\ l.week = WindowStart /\ l \in Ledgers
    BY <1>2, <2>1, WindowAssumption DEF Ledgers, leg
  <2>3. \A i \in 1..Len(l.legs) : l.legs[i] = leg
    BY <2>2
  <2>4. ~InWindow(WindowStart - 1)
    BY WindowAssumption DEF InWindow
  <2>5. OutsideWindow(l.legs)
    BY <2>1, <2>3, <2>4 DEF OutsideWindow
  <2>6. ASSUME NEW d \in Int, FullDay(d) PROVE LegsOf(l, d, Kinds) = 0
    <3>1. DayOf(WindowStart - 1) # d
      <4> SUFFICES ASSUME DayOf(WindowStart - 1) = d PROVE FALSE
        OBVIOUS
      <4> DEFINE at == WindowStart - 1
      <4>1. /\ at \in Int /\ at % UnitsPerDay \in 0..(UnitsPerDay - 1)
            /\ at = UnitsPerDay * d + (at % UnitsPerDay)
        BY WindowAssumption DEF DayOf
      <4> HIDE DEF at
      <4>2. (d + 1) * UnitsPerDay = UnitsPerDay * d + UnitsPerDay /\ d * UnitsPerDay = UnitsPerDay * d
            /\ UnitsPerDay * d \in Int
        BY WindowAssumption
      <4>3. at \in (d * UnitsPerDay)..((d + 1) * UnitsPerDay - 1)
        BY <4>1, <4>2, WindowAssumption
      <4>4. InWindow(at)
        BY <2>6, <4>3 DEF FullDay
      <4> QED BY <2>4, <4>4 DEF at
    <3> QED BY <2>1, <2>2, <2>3, <3>1, NoLegsCounted
  <2> QED BY <2>2, <2>5, <2>6
<1>3. CASE l = NewLedger \/ l = [week |-> WindowStart + 1, legs |-> <<>>, pressTradeUsed |-> TRUE]
  <2>1. <<>> \in Seq(Leg) /\ WindowStart \in Int /\ WindowStart + 1 \in Int
    BY WindowAssumption
  <2>2. l.legs = <<>> /\ l.week \in Int /\ l.pressTradeUsed \in BOOLEAN /\ l \in Ledgers
    <3>1. CASE l = NewLedger
      BY <2>1, <3>1 DEF NewLedger, Ledgers
    <3>2. CASE l = [week |-> WindowStart + 1, legs |-> <<>>, pressTradeUsed |-> TRUE]
      BY <2>1, <3>2 DEF Ledgers
    <3> QED BY <1>3, <3>1, <3>2
  <2> QED BY <1>1, <2>2
<1> QED BY <1>2, <1>3 DEF OnDisk

LEMMA StartKeeps == ASSUME WInv, Start PROVE WInv'
<1> DEFINE new == Sanitize(Loaded)
<1>1. /\ ~up /\ up' = TRUE /\ ledger' = new /\ disk' = new
      /\ UNCHANGED <<now, open, filled, lost, pressFills, pressLost, place, budget, order, cycled, excused>>
  BY DEF Start, Saved, seen
<1>2. WType /\ WPlace /\ WPress /\ WMinimum /\ place = "sleep" /\ disk \in Ledgers
  BY <1>1 DEF WInv, WPlace, WType
<1>3. budget' = NoBudget /\ order' = NoOrder /\ place' = "sleep"
  BY <1>1, <1>2 DEF WPlace
<1>4. WPlace'
  BY <1>1, <1>2 DEF WPlace
<1>5. NewLedger \in OnDisk
  BY DEF OnDisk
<1>6. Loaded \in Ledgers /\ Loaded.week = WindowStart
  <2>1. NewLedger \in Ledgers /\ NewLedger.week = WindowStart
    BY <1>5, OnDiskTyped DEF NewLedger
  <2> QED BY <1>2, <2>1 DEF Loaded
<1>7. /\ new \in Ledgers /\ new.week = Loaded.week /\ InsideWindow(new.legs)
      /\ InsideWindow(Loaded.legs) => new = Loaded
      /\ OutsideWindow(Loaded.legs) => new.legs = <<>>
  BY <1>6, SanitizeFacts
<1> HIDE DEF new
<1>8. WType'
  BY <1>1, <1>2, <1>7 DEF WType
<1>9. CASE InStep
  <2>1. new = disk /\ ledger = disk
    <3>1. Loaded = disk
      BY <1>9 DEF Loaded, InStep
    <3> QED BY <1>7, <1>9, <3>1 DEF InStep
  <2>2. InStep'
    BY <1>1, <1>3, <1>9, <2>1 DEF InStep
  <2>3. WPress'
    BY <1>1, <1>2, <2>1 DEF WPress
  <2>4. WMinimum'
    BY <1>1, <1>2, <2>1 DEF WMinimum, Ended, LastUnit
  <2> QED BY <1>4, <1>8, <2>2, <2>3, <2>4 DEF WInv
<1>10. CASE Untouched
  <2>1. disk \in OnDisk /\ pressFills = 0 /\ pressLost = 0 /\ \A d \in Days : filled[d] = 0 /\ lost[d] = 0
    BY <1>10 DEF Untouched
  <2>2. Loaded \in OnDisk
    BY <1>5, <2>1 DEF Loaded
  <2>3. new.legs = <<>>
    BY <1>7, <2>2, OnDiskTyped
  <2>4. \A i \in 1..Len(new.legs) : FALSE
    BY <2>3
  <2>5. \A d, K : LegsOf(new, d, K) = 0
    BY <1>7, <2>4, NoLegsCounted
  <2>6. InStep'
    <3>1. Past(new.legs, now)
      BY <2>4 DEF Past
    <3>2. \A d \in Days : /\ filled'[d] <= Entries(new, d) + lost'[d]
                          /\ Entries(new, d) <= Config.maxTradesPerDay
      BY <1>1, <2>1, <2>5, WeekConfig DEF Entries
    <3> QED BY <1>1, <1>3, <1>6, <1>7, <3>1, <3>2 DEF InStep
  <2>7. WPress'
    BY <1>1, <1>3, <2>1 DEF WPress, NoBudget, NoOrder
  <2>8. WMinimum'
    <3>1. \A d \in Days : FullDay(d) => LegsOf(disk', d, Kinds) >= LegsOf(disk, d, Kinds)
      BY <1>1, <2>1, <2>5, OnDiskTyped, DaysAreInts
    <3> QED BY <1>1, <1>2, <1>7, <3>1, MinimumKept
  <2> QED BY <1>4, <1>8, <2>6, <2>7, <2>8 DEF WInv
<1> QED BY <1>9, <1>10 DEF WInv

LEMMA WeekInit == Init => WInv
<1> SUFFICES ASSUME Init PROVE WInv
  OBVIOUS
<1>1. NewLedger \in OnDisk /\ disk \in OnDisk /\ ledger = NewLedger
  BY DEF Init, OnDisk
<1>2. ledger \in Ledgers /\ disk \in Ledgers
  BY <1>1, OnDiskTyped
<1>3. filled \in [Days -> Nat] /\ lost \in [Days -> Nat]
  BY DEF Init
<1>4. now = WindowStart - 1 /\ pressFills = 0 /\ pressLost = 0 /\ open = 0 /\ up = FALSE
  BY DEF Init
<1>5. WType
  <2>1. now \in Int
    BY <1>4, WindowAssumption
  <2>2. up \in BOOLEAN
    BY <1>4
  <2> QED BY <1>2, <1>3, <1>4, <2>1, <2>2 DEF WType
<1>6. WPlace /\ Untouched
  BY <1>1, <1>4 DEF Init, WPlace, Untouched
<1>7. WPress
  BY <1>4 DEF Init, WPress, NoBudget, NoOrder
<1>8. WMinimum
  <2> SUFFICES ASSUME NEW d \in Days, FullDay(d), Ended(d) PROVE FALSE
    BY DEF Init, WMinimum
  <2>1. d \in Int
    BY DaysAreInts
  <2>2. (d + 1) * UnitsPerDay = d * UnitsPerDay + UnitsPerDay /\ d * UnitsPerDay \in Int
    BY <2>1, WindowAssumption
  <2>3. d * UnitsPerDay \in (d * UnitsPerDay)..((d + 1) * UnitsPerDay - 1)
    BY <2>2, WindowAssumption
  <2>4. InWindow(d * UnitsPerDay)
    BY <2>3 DEF FullDay
  <2> QED BY <1>4, <2>2, <2>4, WindowAssumption DEF InWindow, Ended
<1> QED BY <1>5, <1>6, <1>7, <1>8 DEF WInv

LEMMA WeekStep == WInv /\ [Next]_vars => WInv'
BY StutterKeeps, StartKeeps, MarkersKeep, BeginKeeps, DecideKeeps, BelatedKeeps, HoldKeeps, FillKeeps,
   LostFillKeeps, CrashKeeps, ExitKeeps, AdvanceKeeps DEF Next

LEMMA WeekInvariant == Spec => []WInv
BY WeekInit, WeekStep, PTL DEF Spec

\* One PRESS trade in a week: the flag weekLedger.ts sets when the fill is
\* folded is still what the next cycle of worker.ts reads, across exits that
\* save in between, restarts, sanitizing and the ends of the window.
THEOREM OnePressTrade == Spec => []PressOnce
<1>1. WInv => PressOnce
  BY DEF WInv, WType, WPress, PressOnce
<1> QED BY <1>1, WeekInvariant, PTL

\* No UTC day has more entries and scouts than maxTradesPerDay: the count of
\* weekLedger.ts the cycle of worker.ts began with is that of the day, or the
\* day is a new one and has none.
THEOREM CapEveryDay == Spec => []DailyCap
<1>1. ASSUME WInv, NEW d \in Days PROVE filled[d] <= Config.maxTradesPerDay + lost[d]
  <2>1. filled[d] \in Nat /\ lost[d] \in Nat /\ Entries(disk, d) \in Nat
    BY <1>1, LegsCounted DEF WInv, WType, Entries
  <2>2. CASE Untouched
    BY <2>1, <2>2, WeekConfig DEF Untouched
  <2>3. CASE InStep
    <3>1. filled[d] <= Entries(disk, d) + lost[d] /\ Entries(disk, d) <= Config.maxTradesPerDay
      BY <2>3 DEF InStep
    <3> QED BY <2>1, <3>1, WeekConfig
  <2> QED BY <1>1, <2>2, <2>3 DEF WInv
<1>2. WInv => DailyCap
  BY <1>1 DEF DailyCap
<1> QED BY <1>2, WeekInvariant, PTL

\* A UTC day of the window ends with minTradesPerDay legs or with an excuse:
\* in its last unit the scheduler.ts of a cycle that ends by itself holds only
\* over a full ledger, an open position or no cash.
THEOREM MinimumEveryDay == Spec => []DailyMinimum
<1>1. WInv => DailyMinimum
  BY DEF WInv, WMinimum, DailyMinimum, FullDay, Ended
<1> QED BY <1>1, WeekInvariant, PTL
=============================================================================
