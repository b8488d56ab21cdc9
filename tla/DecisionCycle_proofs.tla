------------------------- MODULE DecisionCycle_proofs -------------------------
(***************************************************************************)
(* A decision cycle for every configuration that loads, every market,      *)
(* every set of bands and every number of days and restarts: what the      *)
(* chain of gates leaves of an order, and what the book, the spend cap,    *)
(* the payment and the pause still are when it is signed.                  *)
(***************************************************************************)
EXTENDS DecisionCycle, FiniteSetTheorems, NaturalsInduction, WellFoundedInduction, TLAPS

(* Every non-empty set of naturals has a least member: what takes the place  *)
(* of an induction wherever one is needed.                                   *)
LEMMA LeastNat ==
  ASSUME NEW T \in SUBSET Nat, T # {}
  PROVE  \E m \in T : \A k \in T : m <= k
<1>1. PICK m \in T : \A y \in T : ~(<<y, m>> \in OpToRel(<, Nat))
  BY NatLessThanWellFounded, WFMin
<1>2. ASSUME NEW k \in T PROVE m <= k
  <2>1. ~(<<k, m>> \in OpToRel(<, Nat))
    BY <1>1
  <2>2. ~(k < m)
    BY <2>1 DEF OpToRel
  <2> QED BY <2>2
<1> QED BY <1>1, <1>2

(* The same for finite sets: a family of them has a smallest.                *)
LEMMA SmallestSet ==
  ASSUME NEW F, F # {}, \A s \in F : IsFiniteSet(s)
  PROVE  \E s \in F : \A t \in F : Cardinality(s) <= Cardinality(t)
<1> DEFINE Sizes == {Cardinality(s) : s \in F}
<1>1. Sizes # {} /\ Sizes \in SUBSET Nat
  BY FS_CardinalityType
<1>2. PICK n \in Sizes : \A k \in Sizes : n <= k
  BY <1>1, LeastNat
<1>3. PICK s \in F : n = Cardinality(s)
  BY <1>2
<1>4. \A t \in F : Cardinality(t) \in Sizes
  OBVIOUS
<1> QED BY <1>2, <1>3, <1>4

LEMMA SmallerByOne ==
  ASSUME NEW s, IsFiniteSet(s), NEW x \in s
  PROVE  /\ IsFiniteSet(s \ {x}) /\ Cardinality(s \ {x}) = Cardinality(s) - 1
         /\ Cardinality(s) \in Nat /\ Cardinality(s \ {x}) \in Nat
BY FS_RemoveElement, FS_CardinalityType
-----------------------------------------------------------------------------
(* The worth of the book: a fold over the positions. *)

Pick(s) == CHOOSE x \in s : TRUE
Folded(w, s, it) == IF s = {} THEN 0 ELSE w[Pick(s)] + it[s \ {Pick(s)}]
IsFold(it, w, D) == it = [s \in SUBSET D |-> Folded(w, s, it)]

(* A fold is defined on sets of every size: one that is defined up to a      *)
(* size gives one that is defined for a member more.                         *)
LEMMA FoldExists ==
  ASSUME NEW D, IsFiniteSet(D), NEW w
  PROVE  \E it : IsFold(it, w, D)
<1> DEFINE Sub(n) == {s \in SUBSET D : Cardinality(s) <= n}
           UpToSize(n) == \E it : it = [s \in Sub(n) |-> Folded(w, s, it)]
           Bad == {n \in Nat : ~UpToSize(n)}
<1>0. \A s \in SUBSET D : IsFiniteSet(s) /\ Cardinality(s) \in Nat
  BY FS_Subset, FS_CardinalityType
<1>1. UpToSize(0)
  <2> DEFINE it == [s \in Sub(0) |-> 0]
  <2>1. \A s \in Sub(0) : s = {}
    BY <1>0, FS_EmptySet
  <2>2. \A s \in Sub(0) : Folded(w, s, it) = 0
    BY <2>1 DEF Folded
  <2>3. it = [s \in Sub(0) |-> Folded(w, s, it)]
    BY <2>2
  <2> QED BY <2>3
<1>2. ASSUME NEW n \in Nat, UpToSize(n) PROVE UpToSize(n + 1)
  <2>1. PICK it : it = [s \in Sub(n) |-> Folded(w, s, it)]
    BY <1>2
  <2> DEFINE next == [s \in Sub(n + 1) |-> Folded(w, s, it)]
  <2>2. \A s \in Sub(n + 1) : s # {} => s \ {Pick(s)} \in Sub(n) /\ s \ {Pick(s)} \in Sub(n + 1)
    <3> SUFFICES ASSUME NEW s \in Sub(n + 1), s # {}
                 PROVE  s \ {Pick(s)} \in Sub(n) /\ s \ {Pick(s)} \in Sub(n + 1)
      OBVIOUS
    <3>1. Pick(s) \in s
      BY DEF Pick
    <3>2. Cardinality(s \ {Pick(s)}) = Cardinality(s) - 1 /\ Cardinality(s) \in Nat
      BY <1>0, <3>1, SmallerByOne
    <3> QED BY <3>2
  <2>3. \A s \in Sub(n) : s \in Sub(n + 1)
    BY <1>0
  <2>4. \A s \in Sub(n) : next[s] = it[s]
    <3> SUFFICES ASSUME NEW s \in Sub(n) PROVE next[s] = it[s]
      OBVIOUS
    <3> DEFINE at(f) == Folded(w, s, f)
    <3>1. it[s] = Folded(w, s, it)
      BY <2>1
    <3>2. next[s] = Folded(w, s, it)
      BY <2>3
    <3> QED BY <3>1, <3>2
  <2> HIDE DEF next
  <2>5. \A s \in Sub(n + 1) : Folded(w, s, next) = Folded(w, s, it)
    <3> SUFFICES ASSUME NEW s \in Sub(n + 1) PROVE Folded(w, s, next) = Folded(w, s, it)
      OBVIOUS
    <3>1. CASE s = {}
      BY <3>1 DEF Folded
    <3>2. CASE s # {}
      <4>1. next[s \ {Pick(s)}] = it[s \ {Pick(s)}]
        BY <2>2, <2>4, <3>2
      <4> QED BY <4>1 DEF Folded
    <3> QED BY <3>1, <3>2
  <2>6. next = [s \in Sub(n + 1) |-> Folded(w, s, next)]
    BY <2>5 DEF next
  <2> QED BY <2>6
<1> HIDE DEF UpToSize
<1>3. Bad = {}
  <2> SUFFICES ASSUME Bad # {} PROVE FALSE
    OBVIOUS
  <2>1. Bad \in SUBSET Nat
    OBVIOUS
  <2>2. PICK m \in Bad : \A k \in Bad : m <= k
    BY <2>1, LeastNat
  <2>3. m \in Nat /\ ~UpToSize(m)
    OBVIOUS
  <2>4. m # 0 /\ m - 1 \in Nat /\ ~(m <= m - 1) /\ (m - 1) + 1 = m
    BY <1>1, <2>3
  <2>5. m - 1 \notin Bad
    BY <2>2, <2>4
  <2>6. UpToSize(m - 1)
    BY <2>4, <2>5
  <2> QED BY <1>2, <2>3, <2>4, <2>6
<1>4. UpToSize(Cardinality(D))
  BY <1>0, <1>3
<1>5. Sub(Cardinality(D)) = SUBSET D
  <2>1. \A s \in SUBSET D : Cardinality(s) <= Cardinality(D)
    BY FS_Subset
  <2> QED BY <2>1
<1>6. PICK it : it = [s \in Sub(Cardinality(D)) |-> Folded(w, s, it)]
  BY <1>4 DEF UpToSize
<1>7. IsFold(it, w, D)
  BY <1>5, <1>6 DEF IsFold
<1> QED BY <1>7

LEMMA FoldTyped ==
  ASSUME NEW D, IsFiniteSet(D), NEW w, \A x \in D : w[x] \in Nat, NEW it, IsFold(it, w, D)
  PROVE  it[D] \in Nat
<1> DEFINE Bad == {s \in SUBSET D : it[s] \notin Nat}
<1>0. \A s \in SUBSET D : IsFiniteSet(s)
  BY FS_Subset
<1>1. SUFFICES ASSUME Bad # {} PROVE FALSE
  OBVIOUS
<1>2. PICK s \in Bad : \A t \in Bad : Cardinality(s) <= Cardinality(t)
  BY <1>0, <1>1, SmallestSet
<1>3. it[s] = Folded(w, s, it)
  BY DEF IsFold
<1>4. CASE s = {}
  BY <1>3, <1>4 DEF Folded
<1>5. CASE s # {}
  <2>1. Pick(s) \in s
    BY <1>5 DEF Pick
  <2>2. s \ {Pick(s)} \in SUBSET D /\ ~(Cardinality(s) <= Cardinality(s \ {Pick(s)}))
    BY <1>0, <2>1, SmallerByOne
  <2>3. s \ {Pick(s)} \notin Bad
    BY <1>2, <2>2
  <2>4. it[s \ {Pick(s)}] \in Nat
    BY <2>2, <2>3
  <2>5. w[Pick(s)] \in Nat
    BY <2>1
  <2> QED BY <1>3, <1>5, <2>4, <2>5 DEF Folded
<1> QED BY <1>4, <1>5

LEMMA WorthTyped ==
  ASSUME IsFiniteSet(held), \A p \in held : p.notional \in Nat, cash \in Nat
  PROVE  Worth \in Nat
<1> DEFINE w == [p \in held |-> p.notional]
           it == CHOOSE it : it = [s \in SUBSET held |->
                   IF s = {} THEN 0
                   ELSE (CHOOSE x \in s : TRUE).notional + it[s \ {CHOOSE x \in s : TRUE}]]
<1>1. Worth = cash + it[held]
  BY Zenon DEF Worth, MapThenSumSet, MapThenFoldSet
<1>2. ASSUME NEW f, NEW s \in SUBSET held
      PROVE  Folded(w, s, f) = IF s = {} THEN 0
                               ELSE (CHOOSE x \in s : TRUE).notional + f[s \ {CHOOSE x \in s : TRUE}]
  <2>1. CASE s = {}
    BY <2>1 DEF Folded
  <2>2. CASE s # {}
    <3>1. Pick(s) \in held
      BY <2>2 DEF Pick
    <3>2. w[Pick(s)] = Pick(s).notional
      BY <3>1
    <3> HIDE DEF w
    <3> QED BY <2>2, <3>2, Zenon DEF Folded, Pick
  <2> QED BY <2>1, <2>2
<1> HIDE DEF w
<1>3. PICK f : IsFold(f, w, held)
  BY FoldExists
<1>4. IsFold(it, w, held)
  <2>1. \A g : [s \in SUBSET held |-> Folded(w, s, g)] =
               [s \in SUBSET held |-> IF s = {} THEN 0
                  ELSE (CHOOSE x \in s : TRUE).notional + g[s \ {CHOOSE x \in s : TRUE}]]
    BY <1>2
  <2>2. f = [s \in SUBSET held |-> IF s = {} THEN 0
               ELSE (CHOOSE x \in s : TRUE).notional + f[s \ {CHOOSE x \in s : TRUE}]]
    BY <1>3, <2>1 DEF IsFold
  <2>3. it = [s \in SUBSET held |-> IF s = {} THEN 0
               ELSE (CHOOSE x \in s : TRUE).notional + it[s \ {CHOOSE x \in s : TRUE}]]
    BY <2>2, Zenon
  <2> HIDE DEF it
  <2> QED BY <2>1, <2>3 DEF IsFold
<1> HIDE DEF it
<1>5. it[held] \in Nat
  <2>1. \A p \in held : w[p] \in Nat
    BY DEF w
  <2> QED BY <1>4, <2>1, FoldTyped
<1> QED BY <1>1, <1>5
-----------------------------------------------------------------------------
(* Chains of gates. *)

Gates == Seq([code : STRING, passes : BOOLEAN])
AllPass(gates) == \A i \in 1..Len(gates) : gates[i].passes
Named(gates) == \A i \in 1..Len(gates) : ~gates[i].passes => gates[i].code # "none"

(* A chain that rejects with no code has passed all of its gates, when every *)
(* failing gate has a code of its own.                                       *)
LEMMA NoRejectAllPass ==
  ASSUME NEW n \in Nat, NEW gates, Len(gates) = n, Named(gates), FirstReject(gates) = "none"
  PROVE  AllPass(gates)
<1> SUFFICES ASSUME Failing(gates) # {} PROVE FALSE
  BY DEF AllPass, Failing
<1>1. Failing(gates) \in SUBSET Nat
  BY DEF Failing
<1>2. \E i \in Failing(gates) : \A j \in Failing(gates) : i <= j
  BY <1>1, LeastNat
<1> DEFINE first == CHOOSE i \in Failing(gates) : \A j \in Failing(gates) : i <= j
<1>3. first \in Failing(gates)
  BY <1>2
<1>4. FirstReject(gates) = gates[first].code
  BY DEF FirstReject
<1> HIDE DEF first
<1> QED BY <1>3, <1>4 DEF Failing, Named

LEMMA JoinedGates ==
  ASSUME NEW S, NEW a \in Seq(S), NEW b \in Seq(S)
  PROVE  /\ a \o b \in Seq(S)
         /\ AllPass(a \o b) <=> AllPass(a) /\ AllPass(b)
         /\ Named(a) /\ Named(b) => Named(a \o b)
<1> DEFINE c == a \o b
<1>1. /\ c \in Seq(S) /\ Len(c) = Len(a) + Len(b) /\ Len(a) \in Nat /\ Len(b) \in Nat
      /\ \A i \in 1..Len(a) : c[i] = a[i]
      /\ \A i \in 1..Len(b) : c[Len(a) + i] = b[i]
  OBVIOUS
<1>2. \A i \in 1..Len(c) : i \in 1..Len(a) \/ (i - Len(a) \in 1..Len(b) /\ i = Len(a) + (i - Len(a)))
  BY <1>1
<1>3. /\ \A i \in 1..Len(a) : i \in 1..Len(c)
      /\ \A i \in 1..Len(b) : Len(a) + i \in 1..Len(c)
  BY <1>1
<1> HIDE DEF c
<1>4. AllPass(c) => AllPass(a) /\ AllPass(b)
  BY <1>1, <1>3 DEF AllPass
<1>5. AllPass(a) /\ AllPass(b) => AllPass(c)
  <2> SUFFICES ASSUME AllPass(a), AllPass(b), NEW i \in 1..Len(c) PROVE c[i].passes
    BY DEF AllPass
  <2>1. CASE i \in 1..Len(a)
    BY <1>1, <2>1 DEF AllPass
  <2>2. CASE i \notin 1..Len(a)
    <3>1. i - Len(a) \in 1..Len(b) /\ c[i] = b[i - Len(a)]
      BY <1>1, <1>2, <2>2
    <3> QED BY <3>1 DEF AllPass
  <2> QED BY <2>1, <2>2
<1>6. Named(a) /\ Named(b) => Named(c)
  <2> SUFFICES ASSUME Named(a), Named(b), NEW i \in 1..Len(c), ~c[i].passes PROVE c[i].code # "none"
    BY DEF Named
  <2>1. CASE i \in 1..Len(a)
    BY <1>1, <2>1 DEF Named
  <2>2. CASE i \notin 1..Len(a)
    <3>1. i - Len(a) \in 1..Len(b) /\ c[i] = b[i - Len(a)]
      BY <1>1, <1>2, <2>2
    <3> QED BY <3>1 DEF Named
  <2> QED BY <2>1, <2>2
<1> QED BY <1>1, <1>4, <1>5, <1>6 DEF c

(* Chains of up to six gates, whatever their conditions are made of.         *)
IsChain(g) == \E S : g \in Seq(S)
HasName(gate) == ~gate.passes => gate.code # "none"

LEMMA ChainOfOne ==
  ASSUME NEW a
  PROVE  /\ IsChain(<<a>>)
         /\ AllPass(<<a>>) <=> (a.passes)
         /\ HasName(a) => Named(<<a>>)
<1> DEFINE s == <<a>>
<1>1. s \in Seq({a}) /\ Len(s) = 1 /\ s[1] = a
  OBVIOUS
<1>2. \A i \in 1..1 : i = 1
  OBVIOUS
<1> HIDE DEF s
<1>3. IsChain(s)
  BY <1>1 DEF IsChain
<1>4. AllPass(s) <=> (a.passes)
  BY <1>1, <1>2 DEF AllPass
<1>5. HasName(a) => Named(s)
  BY <1>1, <1>2 DEF Named, HasName
<1> QED BY <1>3, <1>4, <1>5 DEF s

LEMMA ChainOfTwo ==
  ASSUME NEW a, NEW b
  PROVE  /\ IsChain(<<a, b>>)
         /\ AllPass(<<a, b>>) <=> (a.passes /\ b.passes)
         /\ HasName(a) /\ HasName(b) => Named(<<a, b>>)
<1> DEFINE s == <<a, b>>
<1>1. s \in Seq({a, b}) /\ Len(s) = 2 /\ s[1] = a /\ s[2] = b
  OBVIOUS
<1>2. \A i \in 1..2 : i = 1 \/ i = 2
  OBVIOUS
<1> HIDE DEF s
<1>3. IsChain(s)
  BY <1>1 DEF IsChain
<1>4. AllPass(s) <=> (a.passes /\ b.passes)
  BY <1>1, <1>2 DEF AllPass
<1>5. HasName(a) /\ HasName(b) => Named(s)
  BY <1>1, <1>2 DEF Named, HasName
<1> QED BY <1>3, <1>4, <1>5 DEF s

LEMMA ChainOfThree ==
  ASSUME NEW a, NEW b, NEW c
  PROVE  /\ IsChain(<<a, b, c>>)
         /\ AllPass(<<a, b, c>>) <=> (a.passes /\ b.passes /\ c.passes)
         /\ HasName(a) /\ HasName(b) /\ HasName(c) => Named(<<a, b, c>>)
<1> DEFINE s == <<a, b, c>>
<1>1. s \in Seq({a, b, c}) /\ Len(s) = 3 /\ s[1] = a /\ s[2] = b /\ s[3] = c
  OBVIOUS
<1>2. \A i \in 1..3 : i = 1 \/ i = 2 \/ i = 3
  OBVIOUS
<1> HIDE DEF s
<1>3. IsChain(s)
  BY <1>1 DEF IsChain
<1>4. AllPass(s) <=> (a.passes /\ b.passes /\ c.passes)
  BY <1>1, <1>2 DEF AllPass
<1>5. HasName(a) /\ HasName(b) /\ HasName(c) => Named(s)
  BY <1>1, <1>2 DEF Named, HasName
<1> QED BY <1>3, <1>4, <1>5 DEF s

LEMMA ChainOfFour ==
  ASSUME NEW a, NEW b, NEW c, NEW d
  PROVE  /\ IsChain(<<a, b, c, d>>)
         /\ AllPass(<<a, b, c, d>>) <=> (a.passes /\ b.passes /\ c.passes /\ d.passes)
         /\ HasName(a) /\ HasName(b) /\ HasName(c) /\ HasName(d) => Named(<<a, b, c, d>>)
<1> DEFINE s == <<a, b, c, d>>
<1>1. s \in Seq({a, b, c, d}) /\ Len(s) = 4 /\ s[1] = a /\ s[2] = b /\ s[3] = c /\ s[4] = d
  OBVIOUS
<1>2. \A i \in 1..4 : i = 1 \/ i = 2 \/ i = 3 \/ i = 4
  OBVIOUS
<1> HIDE DEF s
<1>3. IsChain(s)
  BY <1>1 DEF IsChain
<1>4. AllPass(s) <=> (a.passes /\ b.passes /\ c.passes /\ d.passes)
  BY <1>1, <1>2 DEF AllPass
<1>5. HasName(a) /\ HasName(b) /\ HasName(c) /\ HasName(d) => Named(s)
  BY <1>1, <1>2 DEF Named, HasName
<1> QED BY <1>3, <1>4, <1>5 DEF s

LEMMA ChainOfSix ==
  ASSUME NEW a, NEW b, NEW c, NEW d, NEW e, NEW f
  PROVE  /\ IsChain(<<a, b, c, d, e, f>>)
         /\ AllPass(<<a, b, c, d, e, f>>) <=> (a.passes /\ b.passes /\ c.passes /\ d.passes /\ e.passes /\ f.passes)
         /\ HasName(a) /\ HasName(b) /\ HasName(c) /\ HasName(d) /\ HasName(e) /\ HasName(f) => Named(<<a, b, c, d, e, f>>)
<1> DEFINE s == <<a, b, c, d, e, f>>
<1>1. s \in Seq({a, b, c, d, e, f}) /\ Len(s) = 6 /\ s[1] = a /\ s[2] = b /\ s[3] = c /\ s[4] = d /\ s[5] = e /\ s[6] = f
  OBVIOUS
<1>2. \A i \in 1..6 : i = 1 \/ i = 2 \/ i = 3 \/ i = 4 \/ i = 5 \/ i = 6
  OBVIOUS
<1> HIDE DEF s
<1>3. IsChain(s)
  BY <1>1 DEF IsChain
<1>4. AllPass(s) <=> (a.passes /\ b.passes /\ c.passes /\ d.passes /\ e.passes /\ f.passes)
  BY <1>1, <1>2 DEF AllPass
<1>5. HasName(a) /\ HasName(b) /\ HasName(c) /\ HasName(d) /\ HasName(e) /\ HasName(f) => Named(s)
  BY <1>1, <1>2 DEF Named, HasName
<1> QED BY <1>3, <1>4, <1>5 DEF s

LEMMA JoinedChains ==
  ASSUME NEW a, IsChain(a), NEW b, IsChain(b)
  PROVE  /\ IsChain(a \o b) /\ Len(a \o b) \in Nat
         /\ AllPass(a \o b) <=> AllPass(a) /\ AllPass(b)
         /\ Named(a) /\ Named(b) => Named(a \o b)
<1>1. PICK S : a \in Seq(S)
  BY DEF IsChain
<1>2. PICK T : b \in Seq(T)
  BY DEF IsChain
<1>3. a \in Seq(S \cup T) /\ b \in Seq(S \cup T)
  BY <1>1, <1>2
<1>4. a \o b \in Seq(S \cup T)
  BY <1>3
<1>5. IsChain(a \o b) /\ Len(a \o b) \in Nat
  BY <1>4 DEF IsChain
<1> QED BY <1>3, <1>5, JoinedGates

LEMMA GateFields == \A code, p : Gate(code, p).passes = p /\ Gate(code, p).code = code
BY DEF Gate

(* Every gate of a chain has a name but those of the legs, which have one    *)
(* for every leg that is not listed.                                         *)
LEMMA GateHasName == \A code, p : code # "none" => HasName(Gate(code, p))
BY DEF HasName, Gate

LEMMA VenueChain ==
  ASSUME NEW c
  PROVE  IsChain(VenueGates(c)) /\ Named(VenueGates(c))
BY GateHasName, ChainOfThree DEF VenueGates

LEMMA LegChain ==
  ASSUME NEW c, c.tokenIn = "listed", c.tokenOut = "listed"
  PROVE  IsChain(LegGates(c)) /\ Named(LegGates(c))
<1>1. HasName(Gate(LegCode(c.tokenIn), c.tokenIn = "listed"))
  BY DEF HasName, Gate
<1>2. HasName(Gate(LegCode(c.tokenOut), c.tokenOut = "listed"))
  BY DEF HasName, Gate
<1> QED BY <1>1, <1>2, ChainOfTwo DEF LegGates

(* The state of the wallet lets an entry through.                            *)
LEMMA StateChain ==
  ASSUME NEW entry \in BOOLEAN, NEW c
  PROVE  /\ IsChain(StateGates(entry, c)) /\ Named(StateGates(entry, c))
         /\ AllPass(StateGates(entry, c)) /\ entry =>
              ~c.survival /\ c.openPositions < Config.maxConcurrentPositions
<1> DEFINE g1 == Gate("REJECT_STALE_CALIBRATION", ~c.calibrationStale)
           g2 == Gate("REJECT_DANGER_THRESHOLD", entry => c.portfolio > Config.dangerPortfolioValue)
           g3 == Gate("REJECT_DRAWDOWN_BUDGET", entry => ~c.survival)
           g4 == Gate("REJECT_REGIME_RED", entry => c.regime # "RED")
           g5 == Gate("REJECT_MAX_CONCURRENT", entry => c.openPositions < Config.maxConcurrentPositions)
           g6 == Gate("REJECT_MAX_DAILY_TRADES", c.tradesToday < Config.maxTradesPerDay)
<1>1. StateGates(entry, c) = <<g1, g2, g3, g4, g5, g6>>
  BY DEF StateGates
<1>2. HasName(g1) /\ HasName(g2) /\ HasName(g3) /\ HasName(g4) /\ HasName(g5) /\ HasName(g6)
  BY GateHasName
<1>3. g3.passes => (entry => ~c.survival)
  BY GateFields
<1>4. g5.passes => (entry => c.openPositions < Config.maxConcurrentPositions)
  BY GateFields
<1> HIDE DEF g1, g2, g3, g4, g5, g6
<1> QED BY <1>1, <1>2, <1>3, <1>4, ChainOfSix
-----------------------------------------------------------------------------
(* The size of an order. *)

(* A finite set of bands has one of the highest score.                       *)
LEMMA HighestBand ==
  ASSUME NEW T \in SUBSET Bands, T # {}
  PROVE  \E b \in T : \A o \in T : o.minScore <= b.minScore
<1> DEFINE Topped(S) == \E b \in S : \A o \in S : o.minScore <= b.minScore
           Bad == {S \in SUBSET T : S # {} /\ ~Topped(S)}
<1>0. IsFiniteSet(T) /\ \A S \in SUBSET T : IsFiniteSet(S)
  BY BandsAssumption, FS_Subset
<1>1. SUFFICES ASSUME Bad # {} PROVE FALSE
  OBVIOUS
<1>2. PICK S \in Bad : \A R \in Bad : Cardinality(S) <= Cardinality(R)
  BY <1>0, <1>1, SmallestSet
<1>3. PICK x \in S : TRUE
  OBVIOUS
<1>4. S \ {x} \in SUBSET T /\ ~(Cardinality(S) <= Cardinality(S \ {x}))
  <2>1. S \in SUBSET T /\ IsFiniteSet(S)
    BY <1>0
  <2> HIDE DEF Bad
  <2>2. Cardinality(S \ {x}) = Cardinality(S) - 1 /\ Cardinality(S) \in Nat
    BY <2>1, SmallerByOne
  <2> QED BY <2>1, <2>2
<1>5. S \ {x} \notin Bad
  BY <1>2, <1>4
<1>6. \A b \in S : b.minScore \in Int
  BY BandsAssumption
<1>7. CASE S \ {x} = {}
  <2>1. \A o \in S : o = x
    BY <1>7
  <2>2. \A o \in S : o.minScore <= x.minScore
    BY <1>6, <2>1
  <2> QED BY <2>2
<1>8. CASE S \ {x} # {}
  <2>1. PICK y \in S \ {x} : \A o \in S \ {x} : o.minScore <= y.minScore
    BY <1>4, <1>5, <1>8
  <2>2. CASE x.minScore <= y.minScore
    <3>1. \A o \in S : o.minScore <= y.minScore
      BY <2>1, <2>2
    <3> QED BY <3>1
  <2>3. CASE ~(x.minScore <= y.minScore)
    <3>1. \A o \in S : o.minScore <= x.minScore
      BY <1>6, <2>1, <2>3
    <3> QED BY <3>1
  <2> QED BY <2>2, <2>3
<1> QED BY <1>7, <1>8

LEMMA EdgeTyped == \A score : EdgePct(score) \in 0..100
<1> SUFFICES ASSUME NEW score, Met(score) # {} PROVE EdgePct(score) \in 0..100
  BY DEF EdgePct
<1>1. Met(score) \in SUBSET Bands
  BY DEF Met
<1>2. HighestMet(score) \in Met(score)
  BY <1>1, HighestBand DEF HighestMet
<1>3. HighestMet(score).hitPct \in Int
  BY <1>1, <1>2, BandsAssumption
<1> QED BY <1>3 DEF EdgePct, Clamp, Least, Greatest

LEMMA BindingIsLeast ==
  ASSUME NEW layers, layers[1].left \in Nat, layers[2].left \in Nat, layers[3].left \in Nat
  PROVE  \E i \in 1..3 : Binding(layers) = layers[i] /\ \A j \in 1..3 : layers[i].left <= layers[j].left
<1>1. \E i \in 1..3 :
        \A j \in 1..3 : /\ layers[i].left <= layers[j].left
                        /\ layers[i].left = layers[j].left => i <= j
  OBVIOUS
<1> DEFINE first == CHOOSE i \in 1..3 :
                      \A j \in 1..3 : /\ layers[i].left <= layers[j].left
                                      /\ layers[i].left = layers[j].left => i <= j
<1>2. first \in 1..3 /\ \A j \in 1..3 : layers[first].left <= layers[j].left
  BY <1>1, Zenon
<1>3. Binding(layers) = layers[first]
  BY DEF Binding
<1> HIDE DEF first
<1> QED BY <1>2, <1>3

(* A drawdown that has used up a layer leaves the governor nothing to give.  *)
LEMMA GovernorStops ==
  ASSUME NEW windowDd \in Nat, NEW dailyDd \in Nat, NEW edge \in 0..100
  PROVE  /\ Governor(windowDd, dailyDd, edge) \in Nat
         /\ Governor(windowDd, dailyDd, edge) > 0 =>
              windowDd < Config.internalWindowDrawdownPct /\ dailyDd < Config.maxDailyDrawdownPct
<1> DEFINE layers == Layers(windowDd, dailyDd)
           bound == Binding(layers)
           cap == 100 * Config.maxPositionPct
<1>1. /\ Config.competitionDqDrawdownPct \in 1..100
      /\ Config.internalWindowDrawdownPct \in 1..100 /\ Config.maxDailyDrawdownPct \in 1..100
      /\ Config.kellyPct \in Nat /\ cap \in Nat
  BY ConfigAssumption DEF ConfigLoads, PositiveFields
<1>2. /\ layers[1].cap \in 1..100 /\ layers[2].cap \in 1..100 /\ layers[3].cap \in 1..100
      /\ layers[1].left \in Nat
      /\ layers[2].left = Greatest(0, Config.internalWindowDrawdownPct - windowDd)
      /\ layers[3].left = Greatest(0, Config.maxDailyDrawdownPct - dailyDd)
  BY <1>1 DEF Layers, Greatest
<1>3. layers[2].left \in Nat /\ layers[3].left \in Nat
  BY <1>1, <1>2 DEF Greatest
<1> HIDE DEF layers, cap
<1>4. bound \in {layers[1], layers[2], layers[3]} /\ bound.left <= layers[2].left
      /\ bound.left <= layers[3].left
  <2>1. PICK i \in 1..3 : bound = layers[i] /\ \A j \in 1..3 : layers[i].left <= layers[j].left
    BY <1>2, <1>3, BindingIsLeast
  <2>2. layers[i].left <= layers[2].left /\ layers[i].left <= layers[3].left
    BY <2>1, 2 \in 1..3, 3 \in 1..3
  <2> HIDE DEF bound
  <2> QED BY <2>1, <2>2
<1> HIDE DEF bound
<1>5. bound.cap \in 1..100 /\ bound.left \in Nat
  BY <1>2, <1>3, <1>4
<1> DEFINE share == (cap * bound.left) \div bound.cap
           kelly == Config.kellyPct * edge
<1>6. share \in Nat /\ (bound.left = 0 => share = 0)
  <2>1. cap * bound.left \in Nat
    BY <1>1, <1>5
  <2>2. bound.left = 0 => cap * bound.left = 0
    BY <1>1
  <2> QED BY <2>1, <2>2, <1>5
<1>7. kelly \in Nat
  BY <1>1
<1>8. Governor(windowDd, dailyDd, edge) = Greatest(0, Least3(kelly, share, cap))
  BY DEF Governor, layers, bound, cap
<1> HIDE DEF share, kelly
<1>9. Governor(windowDd, dailyDd, edge) \in Nat /\ Governor(windowDd, dailyDd, edge) <= share
  BY <1>1, <1>6, <1>7, <1>8 DEF Greatest, Least3, Least
<1>10. Governor(windowDd, dailyDd, edge) > 0 => layers[2].left > 0 /\ layers[3].left > 0
  BY <1>3, <1>4, <1>5, <1>6, <1>9
<1> QED BY <1>1, <1>2, <1>9, <1>10 DEF Greatest
-----------------------------------------------------------------------------
(* What the chain of gates leaves of an approved order.                      *)

Sizeable(c) ==
  /\ c.scout \in BOOLEAN /\ c.tokenIn = "listed" /\ c.tokenOut = "listed"
  /\ ~c.scout => c.atrBps \in Nat /\ c.atrBps >= 200

CtxTyped(k) ==
  /\ k.portfolio \in Nat /\ k.deployable \in Nat
  /\ k.windowDd \in Nat /\ k.dailyDd \in Nat

LEMMA StopSizeTyped ==
  ASSUME NEW c, Sizeable(c), ~c.scout, NEW k, CtxTyped(k)
  PROVE  StopSize(c, k) \in Nat
<1>1. c.atrBps \in Nat /\ c.atrBps >= 200 /\ Config.stopAtrTenths \in Nat \ {0}
      /\ Config.perTradeRiskPct \in Nat /\ k.portfolio \in Nat
  BY ConfigAssumption DEF Sizeable, PositiveFields, ConfigLoads, CtxTyped
<1> DEFINE p == Config.stopAtrTenths * c.atrBps
           q == 100 * Config.perTradeRiskPct * k.portfolio
<1>2. p \in Nat /\ p >= 200
  <2>1. Config.stopAtrTenths - 1 \in Nat
    BY <1>1
  <2>2. (Config.stopAtrTenths - 1) * c.atrBps >= 0
    BY <1>1, <2>1
  <2>3. p = (Config.stopAtrTenths - 1) * c.atrBps + c.atrBps
    BY <1>1
  <2> QED BY <1>1, <2>2, <2>3
<1>3. q \in Nat
  BY <1>1
<1>4. StopSize(c, k) = q \div (p \div 10)
  BY DEF StopSize, StopBps
<1> HIDE DEF p, q
<1>5. p \div 10 \in Nat /\ p \div 10 > 0
  BY <1>2
<1>6. q \div (p \div 10) \in Nat
  <2> DEFINE d == p \div 10
  <2>1. d \in Nat /\ d > 0
    BY <1>5
  <2> HIDE DEF d
  <2>2. q \div d \in Nat
    BY <1>3, <2>1
  <2> QED BY <2>2 DEF d
<1> QED BY <1>4, <1>6

(* The size of an entry is at most its share of what is deployable, and zero *)
(* once a layer of the drawdown is used up.                                  *)
LEMMA EntrySize ==
  ASSUME NEW c, Sizeable(c), ~c.scout, NEW k, CtxTyped(k)
  PROVE  /\ PositionSize(c, k) \in Nat
         /\ 100 * PositionSize(c, k) <= Config.maxPositionPct * k.deployable
         /\ PositionSize(c, k) > 0 =>
              k.windowDd < Config.internalWindowDrawdownPct /\ k.dailyDd < Config.maxDailyDrawdownPct
<1> DEFINE edge == EdgePct(ScoreBsc(c.inputs))
           g == Governor(k.windowDd, k.dailyDd, edge)
           share == Config.maxPositionPct * k.deployable
           stop == StopSize(c, k)
<1>1. Config.maxPositionPct \in 1..100 /\ k.deployable \in Nat /\ k.windowDd \in Nat /\ k.dailyDd \in Nat
  BY ConfigAssumption DEF ConfigLoads, CtxTyped
<1>2. /\ g \in Nat
      /\ g > 0 => k.windowDd < Config.internalWindowDrawdownPct /\ k.dailyDd < Config.maxDailyDrawdownPct
  BY <1>1, EdgeTyped, GovernorStops
<1>3. stop \in Nat /\ share \in Nat
  BY <1>1, StopSizeTyped
<1>4. PositionSize(c, k) = Least3(stop, share \div 100, (g * k.deployable) \div 10000)
  BY DEF PositionSize, CoherentSize, GovernorCap
<1> HIDE DEF g, share, stop
<1> DEFINE r == (g * k.deployable) \div 10000
           q == share \div 100
<1>5. q \in Nat /\ 100 * q <= share
  BY <1>3
<1>6. r \in Nat /\ (g = 0 => r = 0)
  <2>1. g * k.deployable \in Nat /\ (g = 0 => g * k.deployable = 0)
    BY <1>1, <1>2
  <2> QED BY <2>1
<1>7. PositionSize(c, k) = Least3(stop, q, r)
  BY <1>4
<1> HIDE DEF q, r
<1>8. PositionSize(c, k) \in Nat /\ PositionSize(c, k) <= q /\ PositionSize(c, k) <= r
  BY <1>3, <1>5, <1>6, <1>7 DEF Least3, Least
<1>9. 100 * PositionSize(c, k) <= share
  BY <1>3, <1>5, <1>8
<1>10. PositionSize(c, k) > 0 => g > 0
  BY <1>2, <1>6, <1>8
<1> QED BY <1>2, <1>8, <1>9, <1>10 DEF share

(* An approved order: what OrdersFitTheBook and NothingAtTheDrawdownCap say  *)
(* of the moment at which it was evaluated.                                  *)
Fits(r, k) ==
  /\ r.candidate.scout \in BOOLEAN
  /\ r.size \in Nat \ {0} /\ r.intent.amount = r.size
  /\ r.intent.tokenIn = "listed" /\ r.intent.tokenOut = "listed"
  /\ ~r.candidate.scout =>
       /\ 100 * r.size <= Config.maxPositionPct * k.deployable
       /\ k.openPositions < Config.maxConcurrentPositions
       /\ ~k.survival
       /\ k.windowDd < Config.internalWindowDrawdownPct
       /\ k.dailyDd < Config.maxDailyDrawdownPct

LEMMA LateChain ==
  ASSUME NEW c, Sizeable(c), NEW k, NEW size, NEW move, NEW realBps, NEW slippage,
         FirstReject(LateGates(c, k, size, move, realBps, Intent(c, size, "enter_long", slippage))) = "none"
  PROVE  ~c.scout => ~k.survival /\ k.openPositions < Config.maxConcurrentPositions
<1> DEFINE intent == Intent(c, size, "enter_long", slippage)
           state == StateGates(~c.scout, k)
           last == <<Gate("REJECT_DUST_TRADE", c.scout \/ realBps <= Config.dustRoundTripCeilingBps),
                     Gate("REJECT_NET_EDGE", c.scout \/ NetEdge(move, Config.netEdgeMinBps, realBps)),
                     Gate("REJECT_WALLET_FLOOR", c.scout \/ WalletFloor(move, realBps)),
                     Gate("REJECT_SHADOW_FILL", ShadowFill(c))>>
           policy1 == <<Gate("REJECT_CONTRACT_NOT_ALLOWED", intent.toListed)>>
           policy2 == <<Gate("REJECT_SLIPPAGE", intent.slippageBps <= SlippageCap(intent)),
                        Gate("REJECT_OVER_MAX_TRADE", intent.amount <= Policy.maxTrade),
                        Gate("REJECT_OVER_DAILY_SPEND", 0 + intent.amount <= Policy.maxDailySpend)>>
           a == VenueGates(c) \o LegGates(c)
           b == a \o state
           risk == b \o last
           d == VenueGates(intent) \o policy1
           e == d \o LegGates(intent)
           policy == e \o policy2
           all == risk \o policy
<1>1. LateGates(c, k, size, move, realBps, intent) = all
  BY DEF LateGates, RiskGates, PolicyGates
<1>2. c.tokenIn = "listed" /\ c.tokenOut = "listed" /\ c.scout \in BOOLEAN
      /\ intent.tokenIn = "listed" /\ intent.tokenOut = "listed"
  BY DEF Sizeable, Intent
<1>3. IsChain(last) /\ Named(last)
  BY GateHasName, ChainOfFour
<1>4. IsChain(policy1) /\ Named(policy1)
  BY GateHasName, ChainOfOne
<1>5. IsChain(policy2) /\ Named(policy2)
  BY GateHasName, ChainOfThree
<1>6. IsChain(state) /\ Named(state)
      /\ (AllPass(state) /\ ~c.scout => ~k.survival /\ k.openPositions < Config.maxConcurrentPositions)
  <2>1. (~c.scout) \in BOOLEAN
    BY <1>2
  <2> QED BY <2>1, StateChain
<1>7. IsChain(VenueGates(c)) /\ Named(VenueGates(c)) /\ IsChain(LegGates(c)) /\ Named(LegGates(c))
  BY <1>2, VenueChain, LegChain
<1> HIDE DEF intent
<1>8. IsChain(VenueGates(intent)) /\ Named(VenueGates(intent))
      /\ IsChain(LegGates(intent)) /\ Named(LegGates(intent))
  BY <1>2, VenueChain, LegChain
<1> HIDE DEF state, last, policy1, policy2
<1>9. IsChain(a) /\ Named(a)
  BY <1>7, JoinedChains
<1> HIDE DEF a
<1>10. IsChain(b) /\ Named(b) /\ (AllPass(b) => AllPass(state))
  BY <1>6, <1>9, JoinedChains
<1> HIDE DEF b
<1>11. IsChain(risk) /\ Named(risk) /\ (AllPass(risk) => AllPass(b))
  BY <1>3, <1>10, JoinedChains
<1> HIDE DEF risk
<1>12. IsChain(d) /\ Named(d)
  BY <1>4, <1>8, JoinedChains
<1> HIDE DEF d
<1>13. IsChain(e) /\ Named(e)
  BY <1>8, <1>12, JoinedChains
<1> HIDE DEF e
<1>14. IsChain(policy) /\ Named(policy)
  BY <1>5, <1>13, JoinedChains
<1> HIDE DEF policy
<1>15. Len(all) \in Nat /\ Named(all) /\ (AllPass(all) => AllPass(risk))
  BY <1>11, <1>14, JoinedChains
<1> HIDE DEF all
<1>16. FirstReject(all) = "none"
  BY <1>1 DEF intent
<1>17. AllPass(all)
  BY <1>15, <1>16, NoRejectAllPass
<1> QED BY <1>6, <1>10, <1>11, <1>15, <1>17

(* The policy signs only what the day still has.                             *)
LEMMA PolicyCapsTheDay ==
  ASSUME NEW intent, intent.tokenIn = "listed", intent.tokenOut = "listed", NEW sofar,
         PolicyCode(intent, sofar) = "none"
  PROVE  sofar + intent.amount <= Policy.maxDailySpend
<1> DEFINE one == <<Gate("REJECT_CONTRACT_NOT_ALLOWED", intent.toListed)>>
           g1 == Gate("REJECT_SLIPPAGE", intent.slippageBps <= SlippageCap(intent))
           g2 == Gate("REJECT_OVER_MAX_TRADE", intent.amount <= Policy.maxTrade)
           g3 == Gate("REJECT_OVER_DAILY_SPEND", sofar + intent.amount <= Policy.maxDailySpend)
           three == <<g1, g2, g3>>
           d == VenueGates(intent) \o one
           e == d \o LegGates(intent)
           all == e \o three
<1>1. PolicyGates(intent, sofar) = all
  BY DEF PolicyGates
<1>2. IsChain(one) /\ Named(one)
  BY GateHasName, ChainOfOne
<1>3. HasName(g1) /\ HasName(g2) /\ HasName(g3) /\ (g3.passes => sofar + intent.amount <= Policy.maxDailySpend)
  <2>1. HasName(g1) /\ HasName(g2) /\ HasName(g3)
    BY GateHasName
  <2>2. g3.passes => sofar + intent.amount <= Policy.maxDailySpend
    BY DEF Gate
  <2> HIDE DEF g1, g2, g3
  <2> QED BY <2>1, <2>2
<1>4. IsChain(VenueGates(intent)) /\ Named(VenueGates(intent))
      /\ IsChain(LegGates(intent)) /\ Named(LegGates(intent))
  BY VenueChain, LegChain
<1> HIDE DEF one, g1, g2, g3
<1>5. IsChain(three) /\ Named(three) /\ (AllPass(three) => g3.passes)
  BY <1>3, ChainOfThree
<1> HIDE DEF three
<1>6. IsChain(d) /\ Named(d)
  BY <1>2, <1>4, JoinedChains
<1> HIDE DEF d
<1>7. IsChain(e) /\ Named(e)
  BY <1>4, <1>6, JoinedChains
<1> HIDE DEF e
<1>8. Len(all) \in Nat /\ Named(all) /\ (AllPass(all) => AllPass(three))
  BY <1>5, <1>7, JoinedChains
<1> HIDE DEF all
<1>9. AllPass(all)
  BY <1>1, <1>8, NoRejectAllPass DEF PolicyCode
<1> QED BY <1>3, <1>5, <1>8, <1>9

LEMMA ApprovedFits ==
  ASSUME NEW c, Sizeable(c), NEW k, CtxTyped(k), EvaluateCandidate(c, k).approved
  PROVE  Fits(EvaluateCandidate(c, k), k)
<1> DEFINE score == ScoreBsc(c.inputs)
           move == IF c.scout THEN 0 ELSE ExpectedMoveBps(score)
           size == PositionSize(c, k)
           realBps == RoundTrip(c, k, size)
           intent == Intent(c, size, "enter_long", EntrySlippage(c, size))
           g1 == Gate("REJECT_LOW_SCORE", c.scout \/ score >= k.minimumScore)
           g2 == Gate("REJECT_ENTRY", c.scout \/ c.entry # "failed")
           g3 == Gate("REJECT_STOP_COHERENCE", c.scout \/ Coherent(c, size))
           early == <<g1, g2, g3>>
           late == LateGates(c, k, size, move, realBps, intent)
           code == IF FirstReject(early) # "none" THEN FirstReject(early) ELSE FirstReject(late)
           r == EvaluateCandidate(c, k)
<1>1. r = [candidate |-> c, approved |-> code = "none", code |-> code, score |-> score,
           size |-> size, intent |-> intent, netEdgePassed |-> NetEdgePassed(c, k, move, realBps)]
  BY DEF EvaluateCandidate
<1> HIDE DEF score, move, size, realBps, intent, code, r
<1>2. r.candidate = c /\ r.size = size /\ r.intent = intent /\ (r.approved <=> code = "none")
  BY <1>1
<1> USE DEF score, move, size, realBps, intent, code
<1>3. FirstReject(early) = "none" /\ FirstReject(late) = "none"
  <2>1. code = "none"
    BY <1>2 DEF r
  <2> QED BY <2>1
<1>4. intent.amount = size /\ intent.tokenIn = "listed" /\ intent.tokenOut = "listed" /\ c.scout \in BOOLEAN
  BY DEF Intent, Sizeable
<1>5. HasName(g1) /\ HasName(g2) /\ HasName(g3) /\ (g3.passes => c.scout \/ size > 0)
  BY GateHasName, GateFields DEF Coherent
<1>6. ~c.scout => ~k.survival /\ k.openPositions < Config.maxConcurrentPositions
  BY <1>3, LateChain
<1> HIDE DEF g1, g2, g3, late, r, intent, code
<1>7. Named(early) /\ (AllPass(early) => g3.passes) /\ Len(early) = 3
  BY <1>5, ChainOfThree
<1>8. AllPass(early)
  <2> HIDE DEF early
  <2> QED BY <1>3, <1>7, NoRejectAllPass
<1>9. c.scout => size = Config.microScout /\ Config.microScout \in Nat \ {0}
  BY ConfigAssumption DEF PositionSize, PositiveFields
<1> HIDE DEF size, early
<1>10. ~c.scout => /\ size \in Nat /\ size > 0
                   /\ 100 * size <= Config.maxPositionPct * k.deployable
                   /\ k.windowDd < Config.internalWindowDrawdownPct
                   /\ k.dailyDd < Config.maxDailyDrawdownPct
  BY <1>5, <1>7, <1>8, EntrySize DEF size
<1>11. size \in Nat \ {0}
  BY <1>4, <1>9, <1>10
<1> QED BY <1>2, <1>4, <1>6, <1>10, <1>11 DEF Fits, r

LEMMA CandidatesSizeable ==
  ASSUME NEW m \in Markets, NEW c \in CandidatesOf(m)
  PROVE  Sizeable(c)
<1>1. PICK spec \in Specs(m) : c = CandidateFor(m, spec)
  BY DEF CandidatesOf
<1> DEFINE s == spec[2]
<1>2. s \in DOMAIN m.quotes /\ spec[1] \in {"momentum", "rs_continuation", "catalyst"}
  BY DEF Specs, Tradable
<1> HIDE DEF s
<1>3. \E inputs, entry : c = CandidateOf(m, s, inputs, entry)
  BY <1>1, <1>2 DEF CandidateFor, s
<1>4. PICK inputs, entry : c = CandidateOf(m, s, inputs, entry)
  BY <1>3
<1>5. AtrBps(m.quotes[s]) \in Nat /\ AtrBps(m.quotes[s]) >= 200
  <2>1. m.quotes[s].change24h \in Int
    BY <1>2, CycleAssumption
  <2>2. Magnitude(m.quotes[s].change24h) \in Nat
    BY <2>1 DEF Magnitude
  <2> QED BY <2>2 DEF AtrBps, Greatest
<1> QED BY <1>4, <1>5 DEF CandidateOf, Sizeable

LEMMA ScoutSizeable == Sizeable(Scout)
BY CycleAssumption DEF Sizeable
-----------------------------------------------------------------------------
(* The inductive invariant: the book is typed, the context of a cycle is no  *)
(* better than the book (the watch loop only frees cash and slots meanwhile) *)
(* and the order that waits for its signature fits the context; what is on   *)
(* chain is what this process spent, the allowances of those before it, and  *)
(* the trades whose receipt was lost.                                        *)
Book ==
  /\ live \in BOOLEAN /\ place \in {"sleep", "evaluate", "sign"}
  /\ cash \in Nat /\ IsFiniteSet(held) /\ \A p \in held : p.notional \in Nat
  /\ spent \in Nat /\ spent <= Policy.maxDailySpend
  /\ restarts \in Nat /\ onChain \in Nat /\ lost \in Nat

NoBetter(k) ==
  /\ CtxTyped(k)
  /\ k.deployable <= Greatest(0, cash - Config.gasReserve)
  /\ k.openPositions \in Nat /\ Cardinality(held) <= k.openPositions
  /\ k.payment \in Payments(live)

ContextHolds == place # "sleep" => NoBetter(ctx)
OrderFits == place = "sign" => \E r : winner = {r} /\ Fits(r, ctx)
SpendCounted == onChain <= restarts * Policy.maxDailySpend + spent + lost

DInv == Book /\ ContextHolds /\ OrderFits /\ SpendCounted

LEMMA ConfigTypes ==
  /\ Policy.maxDailySpend \in Nat /\ Config.gasReserve \in Nat /\ Config.maxPositionPct \in 1..100
  /\ Config.startingCapital \in Nat /\ Config.maxConcurrentPositions \in Nat
BY ConfigAssumption DEF ConfigLoads, PositiveFields

(* What is deployable at most is deployable in cash, when it is anything.    *)
LEMMA ShareOfTheCash ==
  ASSUME NEW c \in Nat, NEW d \in Nat, NEW size \in Nat \ {0},
         d <= Greatest(0, c - Config.gasReserve), 100 * size <= Config.maxPositionPct * d
  PROVE  /\ 100 * size <= Config.maxPositionPct * (c - Config.gasReserve)
         /\ c - size \in Nat
<1>1. Config.gasReserve \in Nat /\ Config.maxPositionPct \in 1..100
  BY ConfigTypes
<1> DEFINE pct == Config.maxPositionPct
           free == c - Config.gasReserve
<1>2. d > 0
  <2>1. d = 0 => pct * d = 0
    BY <1>1
  <2> QED BY <2>1
<1>3. free \in Nat /\ d <= free /\ free <= c
  BY <1>1, <1>2 DEF Greatest
<1>4. pct \in Nat /\ 100 - pct \in Nat
  BY <1>1
<1>5. 100 * size <= pct * d
  OBVIOUS
<1> HIDE DEF pct, free
<1>6. pct * (free - d) >= 0 /\ (100 - pct) * free >= 0
  BY <1>3, <1>4
<1>7. pct * (free - d) = pct * free - pct * d /\ (100 - pct) * free = 100 * free - pct * free
  BY <1>3, <1>4
<1>8. pct * free \in Int /\ pct * d \in Int
  BY <1>3, <1>4
<1>9. 100 * size <= pct * free /\ 100 * size <= 100 * free
  BY <1>3, <1>5, <1>6, <1>7, <1>8
<1>10. c - size \in Nat
  BY <1>3, <1>9
<1> QED BY <1>9, <1>10 DEF pct, free

LEMMA OrderIs ==
  ASSUME NEW r, winner = {r}
  PROVE  Order = r
BY DEF Order

LEMMA OneMoreProcess ==
  ASSUME NEW n \in Nat, NEW m \in Nat
  PROVE  /\ (n + 1) * m = n * m + m /\ n * m \in Nat
         /\ 0 * m = 0
OBVIOUS
-----------------------------------------------------------------------------
LEMMA CycleInit == Init => DInv
<1> SUFFICES ASSUME Init PROVE DInv
  OBVIOUS
<1>1. IsFiniteSet({})
  BY FS_EmptySet
<1>2. 0 <= 0 * Policy.maxDailySpend + 0 + 0
  BY ConfigTypes, OneMoreProcess
<1> QED BY <1>1, <1>2, ConfigTypes DEF Init, DInv, Book, ContextHolds, OrderFits, SpendCounted

LEMMA BeginKeeps == ASSUME DInv, BeginCycle PROVE DInv'
<1>1. PICK w \in Weather, payment \in Payments(live) : ctx' = Context(w, payment)
  BY DEF BeginCycle
<1>2. /\ live' = live /\ cash' = cash /\ held' = held /\ spent' = spent /\ place' = "evaluate"
      /\ restarts' = restarts /\ onChain' = onChain /\ lost' = lost
  BY DEF BeginCycle, books, bounds, history
<1>3. w.windowDd \in Nat /\ w.dailyDd \in Nat
  BY CycleAssumption
<1>4. Worth \in Nat
  BY WorthTyped DEF DInv, Book
<1>5. Cardinality(held) \in Nat
  BY FS_CardinalityType DEF DInv, Book
<1>6. Greatest(0, cash - Config.gasReserve) \in Nat
  BY ConfigTypes DEF DInv, Book, Greatest
<1>7. /\ ctx'.portfolio = Worth /\ ctx'.deployable = Greatest(0, cash - Config.gasReserve)
      /\ ctx'.windowDd = w.windowDd /\ ctx'.dailyDd = w.dailyDd
      /\ ctx'.openPositions = Cardinality(held) /\ ctx'.payment = payment
  BY <1>1 DEF Context
<1>8. CtxTyped(ctx')
  BY <1>3, <1>4, <1>6, <1>7 DEF CtxTyped
<1>9. NoBetter(ctx)'
  BY <1>2, <1>5, <1>6, <1>7, <1>8 DEF NoBetter
<1> QED BY <1>2, <1>9 DEF DInv, Book, ContextHolds, OrderFits, SpendCounted

LEMMA EvaluateKeeps == ASSUME DInv, Evaluate PROVE DInv'
<1>1. /\ live' = live /\ cash' = cash /\ held' = held /\ spent' = spent /\ place' = "sign"
      /\ restarts' = restarts /\ onChain' = onChain /\ lost' = lost /\ ctx' = ctx
  BY DEF Evaluate, books, bounds, history
<1>2. NoBetter(ctx)
  BY DEF DInv, ContextHolds, Evaluate
<1>3. CtxTyped(ctx)
  BY <1>2 DEF NoBetter
<1>4. PICK m \in Markets : Attack(Approved(m)) \/ LastResort(Approved(m))
  BY DEF Evaluate
<1>5. \E r : winner' = {r} /\ Fits(r, ctx)
  <2>1. CASE Attack(Approved(m))
    <3>1. PICK r \in Approved(m) : winner' = {r}
      BY <2>1 DEF Attack
    <3>2. PICK c \in CandidatesOf(m) : r = EvaluateCandidate(c, ctx) /\ r.approved
      BY DEF Approved
    <3>3. Fits(r, ctx)
      BY <1>3, <3>2, CandidatesSizeable, ApprovedFits
    <3> QED BY <3>1, <3>3
  <2>2. CASE LastResort(Approved(m))
    <3>1. /\ winner' = {EvaluateCandidate(Scout, ctx)} /\ EvaluateCandidate(Scout, ctx).approved
      BY <2>2 DEF LastResort
    <3>2. Fits(EvaluateCandidate(Scout, ctx), ctx)
      BY <1>3, <3>1, ScoutSizeable, ApprovedFits
    <3> QED BY <3>1, <3>2
  <2> QED BY <1>4, <2>1, <2>2
<1>6. NoBetter(ctx)'
  BY <1>1, <1>2 DEF NoBetter
<1> QED BY <1>1, <1>5, <1>6 DEF DInv, Book, ContextHolds, OrderFits, SpendCounted

(* A cycle that ends without a trade, whatever ended it. *)
LEMMA RestKeeps ==
  ASSUME DInv, Rest, UNCHANGED <<live, books, spent, bounds, history>>
  PROVE  DInv'
BY DEF DInv, Book, ContextHolds, OrderFits, SpendCounted, Rest, books, bounds, history

LEMMA SignedOrder ==
  ASSUME DInv, place = "sign"
  PROVE  /\ winner = {Order} /\ Fits(Order, ctx) /\ NoBetter(ctx)
         /\ Order.size \in Nat \ {0} /\ Order.intent.amount = Order.size
         /\ PolicyCode(Order.intent, spent) = "none" => spent + Order.size <= Policy.maxDailySpend
<1>1. PICK r : winner = {r} /\ Fits(r, ctx)
  BY DEF DInv, OrderFits
<1>2. Order = r
  BY <1>1, OrderIs
<1>3. NoBetter(ctx)
  BY DEF DInv, ContextHolds
<1>4. /\ Order.size \in Nat \ {0} /\ Order.intent.amount = Order.size
      /\ Order.intent.tokenIn = "listed" /\ Order.intent.tokenOut = "listed"
  BY <1>1, <1>2 DEF Fits
<1>5. PolicyCode(Order.intent, spent) = "none" => spent + Order.intent.amount <= Policy.maxDailySpend
  BY <1>4, PolicyCapsTheDay
<1> QED BY <1>1, <1>2, <1>3, <1>4, <1>5

(* OrdersFitTheBook and NothingAtTheDrawdownCap are the context's facts about *)
(* the order, carried to the book of the moment.                             *)
LEMMA EntryMeetsTheBook ==
  ASSUME DInv, place = "sign", ~IsScout
  PROVE  /\ 100 * Order.size <= Config.maxPositionPct * (cash - Config.gasReserve)
         /\ Order.size > 0 /\ cash - Order.size \in Nat
         /\ Cardinality(held) < Config.maxConcurrentPositions
         /\ ~ctx.survival
         /\ ctx.windowDd < Config.internalWindowDrawdownPct
         /\ ctx.dailyDd < Config.maxDailyDrawdownPct
<1>1. /\ Fits(Order, ctx) /\ NoBetter(ctx) /\ Order.size \in Nat \ {0} /\ ~Order.candidate.scout
  BY SignedOrder DEF IsScout
<1>2. /\ 100 * Order.size <= Config.maxPositionPct * ctx.deployable
      /\ ctx.openPositions < Config.maxConcurrentPositions /\ ~ctx.survival
      /\ ctx.windowDd < Config.internalWindowDrawdownPct
      /\ ctx.dailyDd < Config.maxDailyDrawdownPct
  BY <1>1 DEF Fits
<1>3. /\ ctx.deployable \in Nat /\ ctx.deployable <= Greatest(0, cash - Config.gasReserve)
      /\ ctx.openPositions \in Nat /\ Cardinality(held) <= ctx.openPositions
      /\ cash \in Nat /\ IsFiniteSet(held)
  BY <1>1 DEF NoBetter, CtxTyped, DInv, Book
<1>4. Cardinality(held) \in Nat
  BY <1>3, FS_CardinalityType
<1>5. Cardinality(held) < Config.maxConcurrentPositions
  BY <1>2, <1>3, <1>4, ConfigTypes
<1> QED BY <1>1, <1>2, <1>3, <1>5, ShareOfTheCash

LEMMA FillKeeps == ASSUME DInv, Fill PROVE DInv'
<1>1. /\ place = "sign" /\ PolicyCode(Order.intent, spent) = "none"
      /\ spent' = spent + Order.size /\ onChain' = onChain + Order.size
      /\ place' = "sleep" /\ live' = live /\ restarts' = restarts /\ lost' = lost
  BY DEF Fill, Signing, SpentAfter, Rest, bounds
<1>2. Order.size \in Nat /\ spent' <= Policy.maxDailySpend
  BY <1>1, SignedOrder
<1>3. cash' \in Nat /\ IsFiniteSet(held') /\ \A p \in held' : p.notional \in Nat
  <2>1. CASE IsScout
    BY <2>1 DEF Fill, DInv, Book
  <2>2. CASE ~IsScout
    <3> DEFINE new == [slot |-> FreeSlot, notional |-> Order.size]
    <3>1. cash' = cash - Order.size /\ held' = held \cup {new}
      BY <2>2 DEF Fill
    <3>2. cash - Order.size \in Nat
      BY <1>1, <2>2, EntryMeetsTheBook
    <3>3. new.notional \in Nat
      BY <1>2
    <3> HIDE DEF new
    <3>4. IsFiniteSet(held')
      BY <3>1, FS_AddElement DEF DInv, Book
    <3> QED BY <3>1, <3>2, <3>3, <3>4 DEF DInv, Book
  <2> QED BY <2>1, <2>2
<1>4. SpendCounted'
  <2>1. /\ onChain \in Nat /\ spent \in Nat /\ lost \in Nat
        /\ restarts * Policy.maxDailySpend \in Nat
        /\ onChain <= restarts * Policy.maxDailySpend + spent + lost
    BY ConfigTypes, OneMoreProcess DEF DInv, Book, SpendCounted
  <2> DEFINE allowances == restarts * Policy.maxDailySpend
  <2> HIDE DEF allowances
  <2>2. onChain + Order.size <= allowances + (spent + Order.size) + lost
    BY <1>2, <2>1 DEF allowances
  <2> QED BY <1>1, <2>2 DEF SpendCounted, allowances
<1> QED BY <1>1, <1>2, <1>3, <1>4 DEF DInv, Book, ContextHolds, OrderFits

LEMMA LossKeeps == ASSUME DInv, LoseReceipt PROVE DInv'
<1>1. /\ place = "sign" /\ onChain' = onChain + Order.size /\ lost' = lost + Order.size
      /\ place' = "sleep" /\ live' = live /\ restarts' = restarts /\ spent' = spent
      /\ cash' = cash /\ held' = held
  BY DEF LoseReceipt, Signing, Rest, books, bounds
<1>2. Order.size \in Nat
  BY <1>1, SignedOrder
<1>3. SpendCounted'
  <2>1. /\ onChain \in Nat /\ spent \in Nat /\ lost \in Nat
        /\ restarts * Policy.maxDailySpend \in Nat
        /\ onChain <= restarts * Policy.maxDailySpend + spent + lost
    BY ConfigTypes, OneMoreProcess DEF DInv, Book, SpendCounted
  <2> DEFINE allowances == restarts * Policy.maxDailySpend
  <2> HIDE DEF allowances
  <2>2. onChain + Order.size <= allowances + spent + (lost + Order.size)
    BY <1>2, <2>1 DEF allowances
  <2> QED BY <1>1, <2>2 DEF SpendCounted, allowances
<1> QED BY <1>1, <1>2, <1>3 DEF DInv, Book, ContextHolds, OrderFits

(* The watch loop frees a slot, and a live one cash, under any context. *)
LEMMA WatchKeeps == ASSUME DInv, WatchExit \/ DryExit PROVE DInv'
<1>1. PICK p \in held :
        /\ held' = held \ {p}
        /\ cash' = cash \/ \E o \in Outcomes : cash' = cash + (p.notional * o.pct) \div 100
  BY DEF WatchExit, DryExit
<1>2. UNCHANGED <<live, place, ctx, winner, spent, bounds, history>>
  BY DEF WatchExit, DryExit
<1>3. cash' \in Nat /\ cash' >= cash
  <2>1. CASE cash' = cash
    BY <2>1 DEF DInv, Book
  <2>2. CASE \E o \in Outcomes : cash' = cash + (p.notional * o.pct) \div 100
    <3>1. PICK o \in Outcomes : cash' = cash + (p.notional * o.pct) \div 100
      BY <2>2
    <3>2. o.pct \in Nat /\ p.notional \in Nat /\ cash \in Nat
      BY CycleAssumption DEF DInv, Book
    <3>3. p.notional * o.pct \in Nat
      BY <3>2
    <3>4. (p.notional * o.pct) \div 100 \in Nat
      BY <3>3
    <3> QED BY <3>1, <3>2, <3>4
  <2> QED BY <1>1, <2>1, <2>2
<1>4. IsFiniteSet(held') /\ Cardinality(held') = Cardinality(held) - 1 /\ Cardinality(held) \in Nat
  <2>1. IsFiniteSet(held)
    BY DEF DInv, Book
  <2>2. /\ IsFiniteSet(held \ {p}) /\ Cardinality(held \ {p}) = Cardinality(held) - 1
        /\ Cardinality(held) \in Nat
    BY <2>1, SmallerByOne
  <2>3. held' = held \ {p}
    BY <1>1
  <2> QED BY <2>2, <2>3
<1>5. ASSUME NEW k, NoBetter(k) PROVE NoBetter(k)'
  <2>1. k.deployable \in Nat /\ k.deployable <= Greatest(0, cash - Config.gasReserve) /\ cash \in Nat
    BY <1>5 DEF NoBetter, CtxTyped, DInv, Book
  <2>2. k.deployable <= Greatest(0, cash' - Config.gasReserve)
    BY <1>3, <2>1, ConfigTypes DEF Greatest
  <2>3. Cardinality(held') <= k.openPositions
    BY <1>4, <1>5 DEF NoBetter
  <2>4. Payments(live)' = Payments(live)
    BY <1>2
  <2> QED BY <1>5, <2>2, <2>3, <1>2 DEF NoBetter
<1>6. ContextHolds'
  <2>1. ctx' = ctx /\ place' = place
    BY <1>2
  <2> QED BY <1>5, <2>1 DEF DInv, ContextHolds
<1>7. OrderFits'
  BY <1>2 DEF DInv, OrderFits
<1>8. Book'
  <2>1. /\ live' = live /\ place' = place /\ spent' = spent /\ restarts' = restarts
        /\ onChain' = onChain /\ lost' = lost
    BY <1>2 DEF bounds, history
  <2>2. \A q \in held' : q.notional \in Nat
    <3>1. \A q \in held' : q \in held
      BY <1>1
    <3> QED BY <3>1 DEF DInv, Book
  <2> QED BY <1>3, <1>4, <2>1, <2>2 DEF DInv, Book
<1>9. SpendCounted'
  BY <1>2 DEF DInv, SpendCounted, bounds, history
<1> QED BY <1>6, <1>7, <1>8, <1>9 DEF DInv

LEMMA DayKeeps == ASSUME DInv, NewDay PROVE DInv'
<1>1. /\ UNCHANGED <<live, place, ctx, winner, cash, held, spent>>
      /\ onChain' = 0 /\ lost' = 0 /\ restarts' = 0
  BY DEF NewDay
<1>2. SpendCounted'
  BY <1>1, ConfigTypes, OneMoreProcess DEF DInv, Book, SpendCounted
<1>3. ContextHolds'
  BY <1>1 DEF DInv, ContextHolds, NoBetter
<1> QED BY <1>1, <1>2, <1>3 DEF DInv, Book, OrderFits

LEMMA RestartKeeps == ASSUME DInv, Restart PROVE DInv'
<1>1. /\ restarts' = restarts + 1 /\ spent' = 0 /\ live' \in BOOLEAN /\ place' = "sleep"
      /\ cash' = cash /\ held' = held /\ onChain' = onChain /\ lost' = lost
  BY DEF Restart, SignerChosen, BooksReloaded, Rest, books, history
<1>2. SpendCounted'
  <2>1. /\ onChain \in Nat /\ spent \in Nat /\ lost \in Nat /\ spent <= Policy.maxDailySpend
        /\ restarts \in Nat /\ Policy.maxDailySpend \in Nat
        /\ onChain <= restarts * Policy.maxDailySpend + spent + lost
    BY ConfigTypes DEF DInv, Book, SpendCounted
  <2>2. /\ (restarts + 1) * Policy.maxDailySpend = restarts * Policy.maxDailySpend + Policy.maxDailySpend
        /\ restarts * Policy.maxDailySpend \in Nat
    BY <2>1, OneMoreProcess
  <2>3. onChain <= (restarts + 1) * Policy.maxDailySpend + 0 + lost
    BY <2>1, <2>2
  <2> QED BY <1>1, <2>3 DEF SpendCounted
<1> QED BY <1>1, <1>2, ConfigTypes DEF DInv, Book, ContextHolds, OrderFits

LEMMA CycleStep == DInv /\ [Next]_vars => DInv'
<1> SUFFICES ASSUME DInv, [Next]_vars PROVE DInv'
  OBVIOUS
<1>1. CASE Hold
  BY <1>1, RestKeeps DEF Hold
<1>2. CASE NotSigned
  BY <1>2, RestKeeps DEF NotSigned
<1>3. CASE UNCHANGED vars
  BY <1>3 DEF vars, books, bounds, history, DInv, Book, ContextHolds, NoBetter, OrderFits, SpendCounted
<1> QED BY <1>1, <1>2, <1>3, BeginKeeps, EvaluateKeeps, FillKeeps, LossKeeps, WatchKeeps, DayKeeps,
           RestartKeeps DEF Next

LEMMA CycleInvariant == Spec => []DInv
BY CycleInit, CycleStep, PTL DEF Spec
-----------------------------------------------------------------------------
(* Whatever the watch loop did since the context was taken, an order that    *)
(* waits for its signature in worker.ts takes no more than its share of the  *)
(* cash that is there without the gas reserve, and has a slot.               *)
THEOREM OrdersAreCovered == Spec => []OrdersFitTheBook
<1>1. DInv => OrdersFitTheBook
  BY EntryMeetsTheBook DEF OrdersFitTheBook
<1> QED BY <1>1, CycleInvariant, PTL

(* With the day's or the week's drawdown used up, drawdownGovernor.ts has no *)
(* headroom, stopCoherence.ts no size, and no entry reaches the signature.   *)
THEOREM DrawdownBuysNothing == Spec => []NothingAtTheDrawdownCap
<1>1. DInv => NothingAtTheDrawdownCap
  BY EntryMeetsTheBook DEF NothingAtTheDrawdownCap
<1> QED BY <1>1, CycleInvariant, PTL

(* What the signer of executor.ts lets through in a UTC day is within the    *)
(* maxDailySpend of each process of the day, but for the lost receipts.      *)
THEOREM AllowancePerProcess == Spec => []SpendCapHolds
<1>1. ASSUME DInv PROVE SpendCapHolds
  <2>1. /\ onChain \in Nat /\ spent \in Nat /\ lost \in Nat /\ spent <= Policy.maxDailySpend
        /\ restarts \in Nat /\ Policy.maxDailySpend \in Nat
        /\ onChain <= restarts * Policy.maxDailySpend + spent + lost
    BY <1>1, ConfigTypes DEF DInv, Book, SpendCounted
  <2>2. /\ (restarts + 1) * Policy.maxDailySpend = restarts * Policy.maxDailySpend + Policy.maxDailySpend
        /\ restarts * Policy.maxDailySpend \in Nat
    BY <2>1, OneMoreProcess
  <2>3. onChain <= (restarts + 1) * Policy.maxDailySpend + lost
    BY <2>1, <2>2
  <2> QED BY <2>3 DEF SpendCapHolds
<1> QED BY <1>1, CycleInvariant, PTL

(* The loss-streak pause of worker.ts has no way out: with an empty book and *)
(* a context that knows of the streak, no step opens a position, and only an *)
(* exit would end the streak.                                                *)
THEOREM PauseHasNoWayOut == Spec => PauseIsFinal
<1>1. ASSUME DInv, Paused, [Next]_vars PROVE Paused'
  <2>0. /\ streak >= Config.survivalLossStreak /\ held = {}
        /\ place # "sleep" => ctx.survival
    BY <1>1 DEF Paused
  <2>1. CASE BeginCycle
    <3>1. PICK w \in Weather, payment \in Payments(live) : ctx' = Context(w, payment)
      BY <2>1 DEF BeginCycle
    <3>2. ctx'.survival = (w.windowDd >= Config.internalWindowDrawdownPct
                           \/ streak >= Config.survivalLossStreak)
      BY <3>1 DEF Context
    <3>3. streak' = streak /\ held' = held
      BY <2>1 DEF BeginCycle, books
    <3> QED BY <2>0, <3>2, <3>3 DEF Paused
  <2>2. CASE Evaluate
    <3>1. streak' = streak /\ held' = held /\ ctx' = ctx /\ place = "evaluate"
      BY <2>2 DEF Evaluate, books
    <3> QED BY <2>0, <3>1 DEF Paused
  <2>3. CASE Hold \/ NotSigned \/ LoseReceipt \/ Restart
    BY <2>0, <2>3 DEF Hold, NotSigned, LoseReceipt, Restart, BooksReloaded, Rest, books, Paused
  <2>4. CASE Fill
    <3>1. place = "sign" /\ streak' = streak /\ place' = "sleep"
      BY <2>4 DEF Fill, Signing, Rest
    <3>2. IsScout
      BY <1>1, <2>0, <3>1, EntryMeetsTheBook
    <3>3. held' = held
      BY <2>4, <3>2 DEF Fill
    <3> QED BY <2>0, <3>1, <3>3 DEF Paused
  <2>5. CASE WatchExit \/ DryExit
    BY <2>0, <2>5 DEF WatchExit, DryExit
  <2>6. CASE NewDay
    BY <2>0, <2>6 DEF NewDay, Paused
  <2>7. CASE UNCHANGED vars
    BY <2>0, <2>7 DEF vars, books, Paused
  <2> QED BY <1>1, <2>1, <2>2, <2>3, <2>4, <2>5, <2>6, <2>7 DEF Next
<1>2. DInv /\ [Next]_vars => [Paused => Paused']_vars
  BY <1>1
<1> QED BY <1>2, CycleInvariant, PTL DEF Spec, PauseIsFinal
=============================================================================
