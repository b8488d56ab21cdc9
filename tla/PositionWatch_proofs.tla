------------------------- MODULE PositionWatch_proofs -------------------------
(***************************************************************************)
(* The trailing stop for every set of positions and prices and every       *)
(* choice of distances: what a tick does to a trail, and what the loops    *)
(* and crashes around it keep of that in memory and on disk.               *)
(***************************************************************************)
EXTENDS PositionWatch, SequenceTheorems, TLAPS

(* What is true of one trail, whatever happened to its position. *)
Good(t) ==
  /\ t \in Trail /\ t.hwm > 0
  /\ t.armed => t.stop >= Breakeven
  /\ t.armed <=> Arms(t.hwm)
  /\ CostBps < ArmBps => t.stop < Peak(t.hwm)

PInv ==
  /\ TypeOK
  /\ \A p \in Pos : Good(trail[p]) /\ Good(diskTrail[p])
  /\ MemoryAhead
  /\ SavedBetweenPasses
-----------------------------------------------------------------------------
(* Arithmetic of distances. *)
LEMMA ProductPositive ==
  ASSUME NEW a \in Nat \ {0}, NEW b \in Nat \ {0}
  PROVE  a * b \in Nat /\ a * b > 0
OBVIOUS

LEMMA ProductGrows ==
  ASSUME NEW a \in Nat \ {0}, NEW b \in Nat, NEW c \in Nat, b < c
  PROVE  a * b < a * c
<1>1. c - b \in Nat \ {0}
  OBVIOUS
<1>2. a * (c - b) > 0
  BY <1>1, ProductPositive
<1> QED BY <1>2

(* A trail below a peak is below it, by whatever distance. *)
LEMMA BelowPeak ==
  ASSUME NEW h \in Nat \ {0}, NEW tight \in BOOLEAN
  PROVE  TrailBelow(h, tight) \in Int /\ TrailBelow(h, tight) < Peak(h)
<1> DEFINE k == IF tight THEN TightBps ELSE TrailBps
<1>1. k \in Nat \ {0}
  BY DistanceAssumption
<1>2. TrailBelow(h, tight) = h * (Unit - k)
  BY DEF TrailBelow
<1> HIDE DEF k
<1>3. h * k > 0 /\ h * k \in Nat
  BY <1>1, ProductPositive
<1>4. h * (Unit - k) = Unit * h - h * k
  BY <1>1 DEF Unit
<1> QED BY <1>2, <1>3, <1>4 DEF Peak, Unit

(* A price that arms the breakeven is above it when it exceeds the cost. *)
LEMMA BreakevenBelowPeak ==
  ASSUME NEW h \in Nat, Arms(h), CostBps < ArmBps
  PROVE  Breakeven < Peak(h)
<1>1. Entry \in Nat \ {0} /\ CostBps \in Nat /\ ArmBps \in Nat
  BY PriceAssumption, DistanceAssumption
<1>2. Entry * CostBps < Entry * ArmBps
  BY <1>1, ProductGrows
<1>3. Breakeven = Unit * Entry + Entry * CostBps
  BY <1>1 DEF Breakeven, Unit
<1>4. Unit * h - Unit * Entry >= Entry * ArmBps
  BY <1>1 DEF Arms, Unit
<1>5. Entry * CostBps \in Int /\ Entry * ArmBps \in Int
  BY <1>1
<1> QED BY <1>1, <1>2, <1>3, <1>4, <1>5 DEF Peak, Unit

LEMMA ArmsIsMonotone ==
  ASSUME NEW a \in Nat, NEW b \in Nat, a <= b, Arms(a)
  PROVE  Arms(b)
<1>1. ArmBps * Entry \in Int /\ Entry \in Int
  BY PriceAssumption, DistanceAssumption
<1> QED BY <1>1 DEF Arms, Unit

LEMMA HigherIsHigher ==
  ASSUME NEW a \in Int, NEW b \in Int
  PROVE  /\ Higher(a, b) \in {a, b} /\ Higher(a, b) \in Int
         /\ Higher(a, b) >= a /\ Higher(a, b) >= b
BY DEF Higher
-----------------------------------------------------------------------------
LEMMA InitTrailGood ==
  ASSUME NEW tight \in BOOLEAN
  PROVE  Good(InitTrailingStop(tight))
<1> DEFINE t == InitTrailingStop(tight)
<1>1. Entry \in Nat \ {0} /\ InitBps \in Nat \ {0} /\ ArmBps \in Nat \ {0}
  BY PriceAssumption, DistanceAssumption
<1>2. t.hwm = Entry /\ t.stop = Entry * (Unit - InitBps) /\ t.armed = FALSE
  BY DEF InitTrailingStop
<1>3. Entry * InitBps > 0 /\ ArmBps * Entry > 0
  BY <1>1, ProductPositive
<1>4. Entry * (Unit - InitBps) = Unit * Entry - Entry * InitBps /\ Entry * InitBps \in Int
  BY <1>1 DEF Unit
<1>5. Unit * (Entry - Entry) = 0
  BY <1>1 DEF Unit
<1>6. ~Arms(Entry)
  BY <1>1, <1>3, <1>5 DEF Arms
<1>7. Entry * (Unit - InitBps) \in Int /\ Entry * (Unit - InitBps) < Peak(Entry)
  BY <1>1, <1>3, <1>4 DEF Peak, Unit
<1>8. t \in Trail
  BY <1>1, <1>7 DEF InitTrailingStop, Trail
<1> QED BY <1>1, <1>2, <1>6, <1>7, <1>8 DEF Good

(***************************************************************************)
(* A tick (updateTrailingStop): the new trail is good and protects at      *)
(* least as well, whatever the price and the tightening.                   *)
(***************************************************************************)
LEMMA UpdateGood ==
  ASSUME NEW t, Good(t), NEW price \in Price, NEW tight \in BOOLEAN, t.tight => tight
  PROVE  /\ Good(UpdateTrailingStop(t, price, tight))
         /\ Protects(UpdateTrailingStop(t, price, tight), t)
<1> DEFINE u == UpdateTrailingStop(t, price, tight)
           h == Higher(t.hwm, price)
           below == TrailBelow(h, tight)
           stops == Higher(t.stop, Higher(Breakeven, below))
<1>1. t.hwm \in Nat \ {0} /\ t.stop \in Int /\ t.armed \in BOOLEAN /\ t.tight \in BOOLEAN
  BY DEF Good, Trail
<1>2. price \in Nat \ {0}
  BY PriceAssumption
<1>3. h \in Nat \ {0} /\ h >= t.hwm /\ h >= price /\ h \in {t.hwm, price}
  BY <1>1, <1>2 DEF Higher
<1>4. /\ u.hwm = h /\ u.armed = (t.armed \/ Arms(price)) /\ u.tight = tight
      /\ u.stop = IF t.armed \/ Arms(price) THEN stops ELSE t.stop
      /\ u = [hwm |-> u.hwm, armed |-> u.armed, tight |-> u.tight, stop |-> u.stop]
  BY DEF UpdateTrailingStop
<1> HIDE DEF u, h
<1>5. below \in Int /\ below < Peak(h)
  BY <1>3, BelowPeak
<1>6. Breakeven \in Int
  BY PriceAssumption, DistanceAssumption DEF Breakeven, Unit
<1> HIDE DEF below
<1>7. /\ stops \in Int /\ stops \in {t.stop, Breakeven, below}
      /\ stops >= t.stop /\ stops >= Breakeven
  BY <1>1, <1>5, <1>6 DEF Higher
<1> HIDE DEF stops
<1>8. u.armed <=> Arms(h)
  <2>1. CASE Arms(t.hwm)
    BY <2>1, <1>1, <1>3, <1>4, ArmsIsMonotone DEF Good
  <2>2. CASE Arms(price)
    BY <2>2, <1>2, <1>3, <1>4, ArmsIsMonotone
  <2>3. CASE ~Arms(t.hwm) /\ ~Arms(price)
    BY <2>3, <1>3, <1>4 DEF Good
  <2> QED BY <2>1, <2>2, <2>3
<1>9. u.stop \in Int /\ u.stop >= t.stop /\ u.armed \in BOOLEAN
  BY <1>1, <1>4, <1>7
<1>10. u \in Trail
  BY <1>3, <1>4, <1>9 DEF Trail
<1>11. u.armed => u.stop >= Breakeven
  BY <1>4, <1>7
<1>12. ASSUME CostBps < ArmBps PROVE u.stop < Peak(u.hwm)
  <2>1. t.stop < Peak(h)
    BY <1>1, <1>3, <1>12 DEF Good, Peak, Unit
  <2>2. CASE u.armed
    <3>1. Breakeven < Peak(h)
      BY <2>2, <1>3, <1>8, <1>12, BreakevenBelowPeak
    <3> QED BY <2>1, <2>2, <3>1, <1>4, <1>5, <1>7
  <2>3. CASE ~u.armed
    BY <2>1, <2>3, <1>4
  <2> QED BY <2>2, <2>3, <1>9
<1>13. Good(u)
  BY <1>3, <1>4, <1>8, <1>10, <1>11, <1>12 DEF Good
<1>14. Protects(u, t)
  BY <1>3, <1>4, <1>9 DEF Protects
<1> QED BY <1>13, <1>14 DEF u

LEMMA ProtectsItself ==
  ASSUME NEW t \in Trail
  PROVE  Protects(t, t)
BY DEF Protects, Trail

LEMMA ProtectsChain ==
  ASSUME NEW t \in Trail, NEW s \in Trail, NEW r \in Trail, Protects(t, s), Protects(s, r)
  PROVE  Protects(t, r)
BY DEF Protects, Trail
-----------------------------------------------------------------------------
TrailsGood == \A p \in Pos : Good(trail[p]) /\ Good(diskTrail[p])

LEMMA SpliceInSeq ==
  ASSUME NEW s \in Seq(Pos), NEW i \in 1..Len(s)
  PROVE  Splice(s, i) \in Seq(Pos)
BY DEF Splice

LEMMA InitInv == Init => PInv
<1> SUFFICES ASSUME Init PROVE PInv
  OBVIOUS
<1>1. Good(InitTrailingStop(FALSE))
  BY InitTrailGood
<1>2. trail \in [Pos -> Trail] /\ diskTrail = trail /\ \A p \in Pos : trail[p] = InitTrailingStop(FALSE)
  BY <1>1 DEF Init, Good
<1>3. TypeOK
  <2>1. open \in Seq(Pos) /\ diskOpen \in Seq(Pos) /\ todo \in Seq(Pos)
    BY DEF Init
  <2>2. entered \subseteq Pos /\ force \subseteq Pos /\ tighten \subseteq Pos
    BY DEF Init
  <2>3. /\ red \in BOOLEAN /\ diskRed \in BOOLEAN /\ defend \in BOOLEAN
        /\ danger \in BOOLEAN /\ review \in BOOLEAN
    BY Zenon DEF Init
  <2>4. /\ main = "cycle" /\ watch = "rest" /\ asked = None /\ next \in Nat \ {0}
    BY DEF Init
  <2> QED BY <1>2, <2>1, <2>2, <2>3, <2>4 DEF TypeOK
<1>4. MemoryAhead
  BY <1>2, ProtectsItself DEF MemoryAhead
<1> QED BY <1>1, <1>2, <1>3, <1>4 DEF PInv, SavedBetweenPasses, Init

(***************************************************************************)
(* The steps that leave the trails and the files as they are: only types   *)
(* are left to show, and that a pass is under way or the save is done.     *)
(***************************************************************************)
Still == UNCHANGED <<open, trail, diskOpen, diskTrail>>

LEMMA StillKeeps ==
  ASSUME PInv, Still, TypeOK', watch' = "rest" => watch = "rest"
  PROVE  PInv'
<1>1. (\A p \in Pos : Good(trail[p]) /\ Good(diskTrail[p]))'
  BY DEF PInv, Still
<1>2. MemoryAhead'
  BY DEF PInv, Still, MemoryAhead
<1>3. SavedBetweenPasses'
  BY DEF PInv, Still, SavedBetweenPasses
<1> QED BY <1>1, <1>2, <1>3 DEF PInv

LEMMA YieldTypes ==
  ASSUME TypeOK, NEW i \in Nat \ {0}, Yield(i)
  PROVE  /\ main' \in {"judging", "deciding"} /\ asked' \in Pos \cup {None} /\ next' \in Nat \ {0}
         /\ main' = "judging" => asked' \in Pos
<1>1. CASE i <= Len(open)
  <2>1. i \in 1..Len(open) /\ open[i] \in Pos
    BY <1>1 DEF TypeOK
  <2> QED BY <1>1, <2>1 DEF Yield
<1>2. CASE ~(i <= Len(open))
  BY <1>2 DEF Yield
<1> QED BY <1>1, <1>2

LEMMA MainReadsInv == PInv /\ (MainReadsWeek \/ MainReadsRegime) => PInv'
<1> SUFFICES ASSUME PInv, MainReadsWeek \/ MainReadsRegime PROVE PInv'
  OBVIOUS
<1>1. red' \in BOOLEAN /\ diskRed' \in BOOLEAN /\ defend' \in BOOLEAN
  BY Zenon DEF PInv, TypeOK, MainReadsWeek, MainReadsRegime
<1>2. TypeOK'
  BY <1>1 DEF PInv, TypeOK, MainReadsWeek, MainReadsRegime, bookVars, diskVars, watchVars
<1> QED BY <1>2, StillKeeps DEF Still, MainReadsWeek, MainReadsRegime, bookVars, diskVars, watchVars

LEMMA JudgeStartsInv == PInv /\ JudgeStarts => PInv'
<1> SUFFICES ASSUME PInv, JudgeStarts PROVE PInv'
  OBVIOUS
<1>1. danger' \in BOOLEAN
  BY Zenon DEF JudgeStarts
<1>2. /\ main' \in {"judging", "deciding"} /\ asked' \in Pos \cup {None} /\ next' \in Nat \ {0}
      /\ main' = "judging" => asked' \in Pos
  BY YieldTypes DEF JudgeStarts, PInv
<1>3. TypeOK'
  BY <1>1, <1>2 DEF PInv, TypeOK, JudgeStarts, bookVars, diskVars, watchVars
<1> QED BY <1>3, StillKeeps DEF Still, JudgeStarts, bookVars, diskVars, watchVars

LEMMA JudgeAnswersInv == PInv /\ JudgeAnswers => PInv'
<1> SUFFICES ASSUME PInv, JudgeAnswers PROVE PInv'
  OBVIOUS
<1>1. asked \in Pos /\ next \in Nat \ {0} /\ force \subseteq Pos /\ tighten \subseteq Pos
  BY DEF PInv, TypeOK, JudgeAnswers
<1>2. force' \subseteq Pos /\ tighten' \subseteq Pos
  BY <1>1 DEF JudgeAnswers
<1>3. /\ main' \in {"judging", "deciding"} /\ asked' \in Pos \cup {None} /\ next' \in Nat \ {0}
      /\ main' = "judging" => asked' \in Pos
  BY <1>1, YieldTypes DEF JudgeAnswers, PInv
<1>4. TypeOK'
  BY <1>2, <1>3 DEF PInv, TypeOK, JudgeAnswers, bookVars, diskVars, watchVars
<1> QED BY <1>4, StillKeeps DEF Still, JudgeAnswers, bookVars, diskVars, watchVars

LEMMA MainEndsInv == PInv /\ (MainFails \/ MainHolds) => PInv'
<1> SUFFICES ASSUME PInv, MainFails \/ MainHolds PROVE PInv'
  OBVIOUS
<1>1. TypeOK'
  BY DEF PInv, TypeOK, MainFails, MainHolds, bookVars, diskVars, verdictVars, watchVars
<1> QED BY <1>1, StillKeeps DEF Still, MainFails, MainHolds, bookVars, diskVars, watchVars

LEMMA WatchStillInv ==
  PInv /\ (WatchStarts \/ TickBlind \/ TickThrows \/ ExitFails \/ ExitUnconfirmed) => PInv'
<1> SUFFICES ASSUME PInv, WatchStarts \/ TickBlind \/ TickThrows \/ ExitFails \/ ExitUnconfirmed PROVE PInv'
  OBVIOUS
<1>1. todo' \in Seq(Pos) /\ watch' \in {"pass", "cut"}
  <2>1. CASE WatchStarts
    BY <2>1 DEF PInv, TypeOK, WatchStarts
  <2>2. CASE TickBlind \/ ExitFails
    <3>1. todo \in Seq(Pos) /\ todo # <<>>
      BY <2>2 DEF PInv, TypeOK, TickBlind, ExitFails, InPass
    <3>2. Tail(todo) \in Seq(Pos)
      BY <3>1, HeadTailProperties
    <3> QED BY <2>2, <3>2 DEF TickBlind, ExitFails, InPass
  <2>3. CASE TickThrows \/ ExitUnconfirmed
    BY <2>3, EmptySeq DEF TickThrows, ExitUnconfirmed
  <2> QED BY <2>1, <2>2, <2>3
<1>2. review' \in BOOLEAN
  BY DEF PInv, TypeOK, WatchStarts, TickBlind, TickThrows, ExitFails, ExitUnconfirmed
<1>3. UNCHANGED <<bookVars, diskVars, verdictVars, mainVars>>
  BY DEF WatchStarts, TickBlind, TickThrows, ExitFails, ExitUnconfirmed
<1>4. TypeOK'
  BY <1>1, <1>2, <1>3 DEF PInv, TypeOK, bookVars, diskVars, verdictVars, mainVars
<1> QED BY <1>1, <1>3, <1>4, StillKeeps DEF Still, bookVars, diskVars

(* A tick: the trail of the position at the head of the pass moves on. *)
LEMMA TickMoves ==
  ASSUME PInv, NEW price \in Price, NEW p \in Pos,
         trail' = [trail EXCEPT ![p] = Ticked(p, price)],
         UNCHANGED <<diskTrail, red, defend, tighten>>
  PROVE  /\ trail' \in [Pos -> Trail] /\ \A q \in Pos : Good(trail'[q])
         /\ MemoryAhead'
<1>1. Good(trail[p]) /\ trail \in [Pos -> Trail] /\ diskTrail \in [Pos -> Trail]
  BY DEF PInv, TypeOK
<1>2. TightMode(p) \in BOOLEAN /\ (trail[p].tight => TightMode(p))
  BY <1>1, Zenon DEF PInv, TypeOK, TightMode, Trail
<1>3. Good(Ticked(p, price)) /\ Protects(Ticked(p, price), trail[p])
  BY <1>1, <1>2, UpdateGood DEF Ticked
<1>4. Ticked(p, price) \in Trail
  BY <1>3 DEF Good
<1>5. trail' \in [Pos -> Trail] /\ \A q \in Pos : Good(trail'[q])
  BY <1>1, <1>3, <1>4 DEF PInv
<1>6. ASSUME NEW q \in Pos PROVE Protects(trail'[q], diskTrail'[q])
  <2>1. Protects(trail[q], diskTrail[q]) /\ trail[q] \in Trail /\ diskTrail[q] \in Trail
    BY <1>1 DEF PInv, MemoryAhead
  <2>2. CASE q = p
    BY <1>1, <1>3, <1>4, <2>1, <2>2, ProtectsChain
  <2>3. CASE q # p
    BY <1>1, <2>1, <2>3
  <2> QED BY <2>2, <2>3
<1> QED BY <1>5, <1>6 DEF MemoryAhead

LEMMA TickInv ==
  ASSUME PInv, NEW price \in Price, TickHolds(price) \/ TickExits(price)
  PROVE  PInv'
<1>1. todo \in Seq(Pos) /\ todo # <<>>
  BY DEF PInv, TypeOK, TickHolds, TickExits, InPass
<1>2. Head(todo) \in Pos /\ Tail(todo) \in Seq(Pos)
  BY <1>1, HeadTailProperties
<1>3. /\ trail' = [trail EXCEPT ![Head(todo)] = Ticked(Head(todo), price)]
      /\ UNCHANGED <<open, entered, diskVars, verdictVars, mainVars, review>>
  BY DEF TickHolds, TickExits
<1>4. /\ trail' \in [Pos -> Trail] /\ \A q \in Pos : Good(trail'[q])
      /\ MemoryAhead'
  BY <1>2, <1>3, TickMoves DEF diskVars, verdictVars
<1>5. todo' \in Seq(Pos) /\ watch' \in {"pass", "exiting"} /\ (watch' = "exiting" => todo' # <<>>)
  BY <1>1, <1>2 DEF TickHolds, TickExits, InPass
<1>6. TypeOK'
  BY <1>3, <1>4, <1>5 DEF PInv, TypeOK, diskVars, verdictVars, mainVars
<1>7. (\A p \in Pos : Good(trail[p]) /\ Good(diskTrail[p]))'
  BY <1>3, <1>4 DEF PInv, diskVars
<1> QED BY <1>4, <1>5, <1>6, <1>7 DEF PInv, SavedBetweenPasses
-----------------------------------------------------------------------------
(* A save, with or without a change of the list: memory and file agree. *)
LEMMA SavedInv ==
  ASSUME TypeOK', diskOpen' = open', diskTrail' = trail', \A p \in Pos : Good(trail'[p])
  PROVE  PInv'
<1>1. MemoryAhead'
  <2>1. \A p \in Pos : trail'[p] \in Trail
    BY DEF Good
  <2> QED BY <2>1, ProtectsItself DEF MemoryAhead
<1> QED BY <1>1 DEF PInv, SavedBetweenPasses

LEMMA MainEntersInv ==
  ASSUME PInv, NEW p \in Pos, MainEnters(p)
  PROVE  PInv'
<1>1. /\ open \in Seq(Pos) /\ trail \in [Pos -> Trail] /\ entered \subseteq Pos /\ defend \in BOOLEAN
      /\ \A q \in Pos : Good(trail[q])
  BY DEF PInv, TypeOK
<1>2. Good(InitTrailingStop(defend))
  BY <1>1, InitTrailGood
<1>3. InitTrailingStop(defend) \in Trail
  BY <1>2 DEF Good
<1>4. trail' \in [Pos -> Trail] /\ \A q \in Pos : Good(trail'[q])
  BY <1>1, <1>2, <1>3 DEF MainEnters
<1>5. open' \in Seq(Pos) /\ diskOpen' \in Seq(Pos) /\ entered' \subseteq Pos
  BY <1>1, AppendProperties DEF MainEnters
<1>6. TypeOK'
  BY <1>4, <1>5 DEF PInv, TypeOK, MainEnters, verdictVars, watchVars
<1> QED BY <1>4, <1>6, SavedInv DEF MainEnters

LEMMA ExitSoldInv == PInv /\ ExitSold => PInv'
<1> SUFFICES ASSUME PInv, ExitSold PROVE PInv'
  OBVIOUS
<1>1. open \in Seq(Pos) /\ todo \in Seq(Pos) /\ todo # <<>>
  BY DEF PInv, TypeOK, ExitSold
<1>2. Tail(todo) \in Seq(Pos)
  BY <1>1, HeadTailProperties
<1>3. open' \in Seq(Pos)
  BY <1>1, SpliceInSeq DEF ExitSold
<1>4. TypeOK'
  BY <1>2, <1>3 DEF PInv, TypeOK, ExitSold, verdictVars, mainVars
<1> QED BY <1>4, SavedInv DEF PInv, ExitSold

LEMMA WatchEndsInv == PInv /\ WatchEnds => PInv'
<1> SUFFICES ASSUME PInv, WatchEnds PROVE PInv'
  OBVIOUS
<1>1. TypeOK'
  BY DEF PInv, TypeOK, WatchEnds, bookVars, verdictVars, mainVars
<1> QED BY <1>1, SavedInv DEF PInv, WatchEnds, bookVars

LEMMA CrashInv == PInv /\ CrashAndRestart => PInv'
<1> SUFFICES ASSUME PInv, CrashAndRestart PROVE PInv'
  OBVIOUS
<1>1. red' \in BOOLEAN /\ diskRed' \in BOOLEAN /\ defend' \in BOOLEAN /\ danger' \in BOOLEAN
  BY Zenon DEF PInv, TypeOK, CrashAndRestart
<1>2. TypeOK'
  BY <1>1 DEF PInv, TypeOK, CrashAndRestart, diskVars
<1> QED BY <1>2, SavedInv DEF PInv, CrashAndRestart, diskVars
-----------------------------------------------------------------------------
LEMMA StepInv == PInv /\ [Next]_vars => PInv'
<1> SUFFICES ASSUME PInv, [Next]_vars PROVE PInv'
  OBVIOUS
<1>1. CASE MainNext
  BY <1>1, MainReadsInv, JudgeStartsInv, JudgeAnswersInv, MainEndsInv, MainEntersInv DEF MainNext
<1>2. CASE WatchNext
  BY <1>2, WatchStillInv, TickInv, ExitSoldInv, WatchEndsInv DEF WatchNext, Tick
<1>3. CASE CrashAndRestart
  BY <1>3, CrashInv
<1>4. CASE UNCHANGED vars
  <2>1. TypeOK'
    BY <1>4 DEF PInv, TypeOK, vars, bookVars, diskVars, verdictVars, mainVars, watchVars
  <2> QED BY <1>4, <2>1, StillKeeps DEF Still, vars, bookVars, diskVars, watchVars
<1> QED BY <1>1, <1>2, <1>3, <1>4 DEF Next

(* Every reachable state satisfies the inductive invariant. *)
THEOREM WatchInvariant == Spec => []PInv
<1> QED BY InitInv, StepInv, PTL DEF Spec

(* Type correctness of the two loops, the trails and positions.json. *)
THEOREM WatchTypeCorrect == Spec => []TypeOK
<1>1. PInv => TypeOK
  BY DEF PInv
<1> QED BY <1>1, WatchInvariant, PTL

(* An armed trail covers the entry and the round trip (trailingStop.ts:115-119). *)
THEOREM BreakevenHolds == Spec => []BreakevenCovers
<1>1. PInv => BreakevenCovers
  BY DEF PInv, Good, BreakevenCovers, Trails
<1> QED BY <1>1, WatchInvariant, PTL

(* A trail is armed exactly when its peak had gained the trigger (trailingStop.ts:110-112). *)
THEOREM ArmingFollowsPeak == Spec => []ArmedAtPeak
<1>1. PInv => ArmedAtPeak
  BY DEF PInv, Good, ArmedAtPeak, Trails
<1> QED BY <1>1, WatchInvariant, PTL

(* With a trigger above the cost no tick sells a position at its own peak. *)
THEOREM StopUnderPeak == Spec => []StopBelowPeak
<1>1. PInv => StopBelowPeak
  BY DEF PInv, Good, StopBelowPeak, Trails
<1> QED BY <1>1, WatchInvariant, PTL

(* positions.json is the live list between two passes (worker.ts:1213). *)
THEOREM SavedAtRest == Spec => []SavedBetweenPasses
<1>1. PInv => SavedBetweenPasses
  BY DEF PInv
<1> QED BY <1>1, WatchInvariant, PTL

(* The live trail is never behind the saved one, whatever crashes. *)
THEOREM MemoryStaysAhead == Spec => []MemoryAhead
<1>1. PInv => MemoryAhead
  BY DEF PInv
<1> QED BY <1>1, WatchInvariant, PTL

(***************************************************************************)
(* "Never lower or widen the stop" for the saved trails: a step leaves     *)
(* them, or saves the live ones, which are ahead; an entry begins the      *)
(* trail of a position that was not entered before.                        *)
(***************************************************************************)
THEOREM StopNeverFalls == Spec => RatchetOnly
<1> DEFINE Ratchet == \A p \in entered : Protects(diskTrail'[p], diskTrail[p])
<1>1. ASSUME PInv, [Next]_vars PROVE [Ratchet]_vars
  <2> SUFFICES ASSUME NEW p \in entered PROVE Protects(diskTrail'[p], diskTrail[p])
    OBVIOUS
  <2>1. /\ p \in Pos /\ trail \in [Pos -> Trail] /\ diskTrail \in [Pos -> Trail]
        /\ Protects(trail[p], diskTrail[p])
    BY <1>1 DEF PInv, TypeOK, MemoryAhead
  <2>2. Protects(diskTrail[p], diskTrail[p])
    BY <2>1, ProtectsItself
  <2>3. diskTrail'[p] = diskTrail[p] \/ diskTrail'[p] = trail[p]
    <3>1. CASE MainNext
      <4>1. ASSUME NEW q \in Pos, MainEnters(q) PROVE diskTrail'[p] = trail[p]
        BY <2>1, <4>1 DEF MainEnters
      <4>2. CASE UNCHANGED diskVars
        BY <4>2 DEF diskVars
      <4> QED BY <3>1, <4>1, <4>2
              DEF MainNext, MainReadsWeek, MainReadsRegime, JudgeStarts, JudgeAnswers, MainFails, MainHolds
    <3>2. CASE WatchNext
      BY <3>2 DEF WatchNext, WatchStarts, TickBlind, TickThrows, Tick, TickHolds, TickExits, ExitSold,
                  ExitFails, ExitUnconfirmed, WatchEnds, diskVars
    <3>3. CASE CrashAndRestart
      BY <3>3 DEF CrashAndRestart, diskVars
    <3>4. CASE UNCHANGED vars
      BY <3>4 DEF vars, diskVars
    <3> QED BY <1>1, <3>1, <3>2, <3>3, <3>4 DEF Next
  <2> QED BY <2>1, <2>2, <2>3
<1> QED BY <1>1, WatchInvariant, PTL DEF Spec, RatchetOnly
==============================================================================
