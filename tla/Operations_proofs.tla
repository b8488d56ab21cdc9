-------------------------- MODULE Operations_proofs --------------------------
(***************************************************************************)
(* The two parts of the system that run beside the worker.  A stand-down   *)
(* of the go-live controller that reported OK is final, for every window,  *)
(* age of the calibration and number of outages, crashes and acts of the   *)
(* operator.  The calibration samples are measured, neither lost nor       *)
(* doubled, and an expected move was earned, for every set of candidates   *)
(* and prices, every horizon and any interleaving, overlap and crash of    *)
(* the worker and the collector.                                           *)
(***************************************************************************)
EXTENDS GoLive, Calibration, SequenceTheorems, FiniteSetTheorems, NaturalsInduction, WellFoundedInduction, TLAPS

-----------------------------------------------------------------------------
(* The go-live controller. *)

Runs(processes, m) == processes \subseteq [mode : {m}, fails : Nat]

(* pm2 runs and has saved what the controller's step says it has, and a    *)
(* stand-down that reported OK left no real trading anywhere it could come *)
(* back from: neither the process, nor the saved one, nor the worker.      *)
StoodInv ==
  /\ mode \in {"live", "dry", "check"}
  /\ ~box => at = "idle" /\ worker = "none"
  /\ at \in {"recreate", "save", "verify"} => mode \in {"live", "dry"}
  /\ at \in {"save", "verify"} => Runs(proc, mode)
  /\ at = "save" => ~saved
  /\ (at = "verify" /\ saved) => Runs(dump, mode)
  /\ worker = "boot" => proc # {}
  /\ stoodDown => Runs(proc, "dry") /\ Runs(dump, "dry") /\ worker # "live"
-----------------------------------------------------------------------------
LEMMA ProcessRuns ==
  ASSUME NEW m
  PROVE  Runs(Process(m), m) /\ Process(m) # {}
BY DEF Runs, Process

LEMMA TheProcess ==
  ASSUME NEW processes, NEW m, processes # {}, Runs(processes, m)
  PROVE  The(processes).mode = m
BY DEF The, Runs

LEMMA NothingRuns ==
  ASSUME NEW m
  PROVE  Runs({}, m)
BY DEF Runs

(* A start that fails is of the same mode. *)
LEMMA FailureKeepsMode ==
  ASSUME NEW processes, NEW m, Runs(processes, m)
  PROVE  Runs({[p EXCEPT !.fails = @ + 1] : p \in processes}, m)
BY DEF Runs

(* A start that succeeds has the mode of its process, which stays. *)
LEMMA BootKeepsMode ==
  ASSUME StoodInv, worker = "boot", worker' = The(proc).mode, proc' = Process(The(proc).mode),
         UNCHANGED <<box, at, mode, dump, saved, stoodDown>>
  PROVE  StoodInv'
<1>1. proc # {}
  BY DEF StoodInv
<1>2. ASSUME NEW m, Runs(proc, m)
      PROVE  Runs(proc', m) /\ worker' = m
  BY <1>1, <1>2, TheProcess, ProcessRuns
<1>3. proc' # {}
  BY ProcessRuns
<1>4. at' \in {"save", "verify"} => Runs(proc', mode')
  BY <1>2 DEF StoodInv
<1>5. stoodDown' => Runs(proc', "dry") /\ worker' = "dry"
  BY <1>2 DEF StoodInv
<1> QED BY <1>3, <1>4, <1>5 DEF StoodInv

LEMMA FailKeepsMode ==
  ASSUME StoodInv, StartFails, UNCHANGED <<box, at, mode, dump, saved, stoodDown>>
  PROVE  StoodInv'
<1>1. worker' = "none"
  BY DEF StartFails
<1>2. \A m : Runs(proc, m) => Runs(proc', m)
  BY FailureKeepsMode DEF StartFails
<1> QED BY <1>1, <1>2 DEF StoodInv

(* The timers, the calendar, the flags and the operator's commands. *)
LEMMA SurroundingsStep ==
  ASSUME StoodInv,
         \/ Midnight \/ Kill \/ ArmReview \/ OperatorResolves \/ Calibrate \/ Crash
         \/ Outage \/ PowerOn
         \/ \E t \in DOMAIN TimerDay : TimerFires(t)
         \/ \E m \in {"live", "dry", "check"} : OperatorRuns(m)
  PROVE  StoodInv'
<1>1. CASE Midnight
  BY <1>1 DEF Midnight, controller, pm2, history, StoodInv
<1>2. CASE Kill \/ ArmReview
  BY <1>2 DEF Kill, ArmReview, calendar, controller, pm2, history, StoodInv
<1>3. CASE OperatorResolves \/ Calibrate
  BY <1>3 DEF OperatorResolves, Calibrate, calendar, controller, pm2, history, StoodInv
<1>4. CASE Crash
  BY <1>4 DEF Crash, calendar, controller, pm2, history, StoodInv
<1>5. CASE Outage
  BY <1>5, NothingRuns DEF Outage, StoodInv
<1>6. CASE PowerOn
  <2>1. at = "idle" /\ worker = "none"
    BY <1>6 DEF PowerOn, StoodInv
  <2> QED BY <1>6, <2>1 DEF PowerOn, controller, history, StoodInv
<1>7. CASE \E t \in DOMAIN TimerDay : TimerFires(t)
  <2>1. /\ UNCHANGED <<box, proc, dump, worker, saved, stoodDown>> /\ box
        /\ (at' = "gates" /\ mode' \in {"live", "dry"}) \/ UNCHANGED <<at, mode>>
    BY <1>7 DEF TimerFires, TimerDay, TimerMode, controller, pm2
  <2> QED BY <2>1 DEF StoodInv
<1>8. CASE \E m \in {"live", "dry", "check"} : OperatorRuns(m)
  <2>1. /\ UNCHANGED <<box, proc, dump, worker, saved, stoodDown>> /\ box
        /\ at' = "gates" /\ mode' \in {"live", "dry", "check"}
    BY <1>8 DEF OperatorRuns, calendar, pm2
  <2> QED BY <2>1 DEF StoodInv
<1> QED BY <1>1, <1>2, <1>3, <1>4, <1>5, <1>6, <1>7, <1>8

(* wardenclaw-mode.sh. *)
LEMMA ControllerStep ==
  ASSUME StoodInv, Controller
  PROVE  StoodInv'
<1>1. CASE GatesPass
  BY <1>1 DEF GatesPass, Preflight, calendar, pm2, history, StoodInv
<1>2. CASE GatesFail \/ VerifyTimesOut
  BY <1>2 DEF GatesFail, VerifyTimesOut, calendar, pm2, history, StoodInv
<1>3. CASE Recreate
  <2>1. /\ worker' = "none" /\ mode' = mode /\ dump' = dump /\ ~saved'
        /\ mode \in {"live", "dry"} /\ (stoodDown' => stoodDown /\ mode = "dry")
        /\ box /\ box' = box
    BY <1>3 DEF Recreate, calendar, StoodInv
  <2>2. Runs(proc', mode) /\ (at' = "save" \/ at' = "idle")
    BY <1>3, ProcessRuns, NothingRuns DEF Recreate
  <2> QED BY <2>1, <2>2 DEF StoodInv
<1>4. CASE Save
  <2>1. /\ at' = "verify" /\ UNCHANGED <<mode, proc, worker, stoodDown>>
        /\ Runs(proc, mode) /\ mode \in {"live", "dry"} /\ box /\ box' = box
        /\ (dump' = proc) \/ (dump' = dump /\ ~saved')
    BY <1>4 DEF Save, Dumped, calendar, StoodInv
  <2> QED BY <2>1 DEF StoodInv
<1>5. CASE Verified
  <2>1. /\ at = "verify" /\ worker \in {mode, "boot"} /\ at' = "idle"
        /\ stoodDown' = (mode = "dry" /\ saved)
        /\ UNCHANGED <<box, mode, proc, dump, worker, saved>>
    BY <1>5 DEF Verified, Banner, calendar, pm2
  <2>2. Runs(proc, mode) /\ (saved => Runs(dump, mode))
    BY <2>1 DEF StoodInv
  <2> QED BY <2>1, <2>2 DEF StoodInv
<1> QED BY <1>1, <1>2, <1>3, <1>4, <1>5 DEF Controller

(* pm2 and the start of the worker. *)
LEMMA Pm2Step ==
  ASSUME StoodInv, Pm2
  PROVE  StoodInv'
<1>1. CASE Pm2Starts
  BY <1>1 DEF Pm2Starts, calendar, controller, pm2, history, StoodInv
<1>2. CASE Boots
  BY <1>2, BootKeepsMode DEF Boots, calendar, controller, history
<1>3. CASE BootBlocked
  BY <1>3, FailKeepsMode DEF BootBlocked, calendar, controller, history
<1>4. CASE BootRecovers
  <2>1. worker = "boot" /\ UNCHANGED <<box, at, mode, dump, saved, stoodDown>>
    BY <1>4 DEF BootRecovers, calendar, controller, history
  <2>2. CASE StartFails
    BY <2>1, <2>2, FailKeepsMode
  <2>3. CASE ~StartFails
    BY <1>4, <2>1, <2>3, BootKeepsMode DEF BootRecovers
  <2> QED BY <2>2, <2>3
<1> QED BY <1>1, <1>2, <1>3, <1>4 DEF Pm2

\* The promise of the stand-down unit: once it reported OK, no crash, reboot or
\* restart of pm2 brings real trading back, unless somebody asks for it.
THEOREM StandDownIsFinal == Spec => []StaysStoodDown
<1>1. Init => StoodInv
  BY DEF Init, StoodInv
<1>2. StoodInv /\ [Next]_vars => StoodInv'
  <2> SUFFICES ASSUME StoodInv, [Next]_vars PROVE StoodInv'
    OBVIOUS
  <2>1. CASE Next
    BY <2>1, SurroundingsStep, ControllerStep, Pm2Step DEF Next
  <2>2. CASE UNCHANGED vars
    BY <2>2 DEF vars, calendar, controller, pm2, history, StoodInv
  <2> QED BY <2>1, <2>2
<1>3. StoodInv => StaysStoodDown
  BY DEF StoodInv, StaysStoodDown
<1> QED BY <1>1, <1>2, <1>3, PTL DEF Spec
-----------------------------------------------------------------------------
(* Every non-empty set of naturals has a least member: what takes the place  *)
(* of an induction wherever one is needed.                                   *)
LEMMA LeastNat ==
  ASSUME NEW T \in SUBSET Nat, T # {}
  PROVE  \E m \in T : \A k \in T : m <= k
<1>1. PICK m \in T : \A y \in T : ~(<<y, m>> \in OpToRel(<, Nat))
  BY NatLessThanWellFounded, WFMin
<1>2. ASSUME NEW k \in T PROVE m <= k
  <2>1. ~(<<k, m>> \in OpToRel(<, Nat))
    BY <1>1
  <2>2. ~(k < m)
    BY <2>1 DEF OpToRel
  <2> QED BY <2>2
<1> QED BY <1>1, <1>2

(* The same for finite sets: a family of them has a smallest.                *)
LEMMA SmallestSet ==
  ASSUME NEW F, F # {}, \A s \in F : IsFiniteSet(s)
  PROVE  \E s \in F : \A t \in F : Cardinality(s) <= Cardinality(t)
<1> DEFINE Sizes == {Cardinality(s) : s \in F}
<1>1. Sizes # {} /\ Sizes \in SUBSET Nat
  BY FS_CardinalityType
<1>2. PICK n \in Sizes : \A k \in Sizes : n <= k
  BY <1>1, LeastNat
<1>3. PICK s \in F : n = Cardinality(s)
  BY <1>2
<1>4. \A t \in F : Cardinality(t) \in Sizes
  OBVIOUS
<1> QED BY <1>2, <1>3, <1>4

LEMMA SmallerByOne ==
  ASSUME NEW s, IsFiniteSet(s), NEW x \in s
  PROVE  /\ IsFiniteSet(s \ {x}) /\ Cardinality(s \ {x}) = Cardinality(s) - 1
         /\ Cardinality(s) \in Nat /\ Cardinality(s \ {x}) \in Nat
BY FS_RemoveElement, FS_CardinalityType

-----------------------------------------------------------------------------
(* The filter: what it has kept of the first n rows, when f is what it kept  *)
(* of the rows before.                                                       *)

KeptOf(rows, set, f, n) ==
  IF n = 0 THEN <<>>
  ELSE IF rows[n] \in set THEN Append(f[n - 1], rows[n]) ELSE f[n - 1]
IsFilter(f, rows, set) == f = [n \in 0..Len(rows) |-> KeptOf(rows, set, f, n)]

LEMMA FilterExists ==
  ASSUME NEW S, NEW rows \in Seq(S), NEW set
  PROVE  \E f : IsFilter(f, rows, set)
<1> DEFINE UpTo(n) == \E f : f = [k \in 0..n |-> KeptOf(rows, set, f, k)]
           Bad == {n \in Nat : ~UpTo(n)}
<1>1. UpTo(0)
  <2> DEFINE f == [k \in 0..0 |-> <<>>]
  <2>1. \A k \in 0..0 : KeptOf(rows, set, f, k) = <<>>
    BY DEF KeptOf
  <2>2. f = [k \in 0..0 |-> KeptOf(rows, set, f, k)]
    BY <2>1
  <2> QED BY <2>2
<1>2. ASSUME NEW n \in Nat, UpTo(n) PROVE UpTo(n + 1)
  <2>1. PICK f : f = [k \in 0..n |-> KeptOf(rows, set, f, k)]
    BY <1>2
  <2> DEFINE g == [k \in 0..(n + 1) |-> KeptOf(rows, set, f, k)]
  <2>2. \A k \in 0..n : k \in 0..(n + 1) /\ g[k] = f[k]
    <3> SUFFICES ASSUME NEW k \in 0..n PROVE k \in 0..(n + 1) /\ g[k] = f[k]
      OBVIOUS
    <3>1. k \in 0..(n + 1)
      OBVIOUS
    <3>2. g[k] = KeptOf(rows, set, f, k)
      BY <3>1
    <3>3. f[k] = KeptOf(rows, set, f, k)
      BY <2>1
    <3> QED BY <3>1, <3>2, <3>3
  <2> HIDE DEF g
  <2>3. \A k \in 0..(n + 1) : KeptOf(rows, set, g, k) = KeptOf(rows, set, f, k)
    <3> SUFFICES ASSUME NEW k \in 0..(n + 1) PROVE KeptOf(rows, set, g, k) = KeptOf(rows, set, f, k)
      OBVIOUS
    <3>1. CASE k = 0
      BY <3>1 DEF KeptOf
    <3>2. CASE k # 0
      <4>1. k - 1 \in 0..n
        BY <3>2
      <4>2. g[k - 1] = f[k - 1]
        BY <2>2, <4>1
      <4> QED BY <4>2 DEF KeptOf
    <3> QED BY <3>1, <3>2
  <2>4. g = [k \in 0..(n + 1) |-> KeptOf(rows, set, g, k)]
    BY <2>3 DEF g
  <2> QED BY <2>4
<1> HIDE DEF UpTo
<1>3. Bad = {}
  <2> SUFFICES ASSUME Bad # {} PROVE FALSE
    OBVIOUS
  <2>1. Bad \in SUBSET Nat
    OBVIOUS
  <2>2. PICK m \in Bad : \A k \in Bad : m <= k
    BY <2>1, LeastNat
  <2>3. m \in Nat /\ ~UpTo(m)
    OBVIOUS
  <2>4. m # 0 /\ m - 1 \in Nat /\ ~(m <= m - 1) /\ (m - 1) + 1 = m
    BY <1>1, <2>3
  <2>5. UpTo(m - 1)
    BY <2>2, <2>4
  <2> QED BY <1>2, <2>3, <2>4, <2>5
<1>4. UpTo(Len(rows))
  BY <1>3
<1> QED BY <1>4 DEF UpTo, IsFilter

LEMMA FilterIs ==
  ASSUME NEW S, NEW rows \in Seq(S), NEW set
  PROVE  \E f : IsFilter(f, rows, set) /\ Picked(rows, set) = f[Len(rows)]
<1> DEFINE it == CHOOSE it : it = [n \in 0..Len(rows) |->
                   IF n = 0 THEN <<>>
                   ELSE IF rows[n] \in set THEN Append(it[n - 1], rows[n]) ELSE it[n - 1]]
<1>1. Picked(rows, set) = it[Len(rows)]
  BY Zenon DEF Picked
<1>2. PICK f : IsFilter(f, rows, set)
  BY FilterExists
<1>3. IsFilter(it, rows, set)
  <2>1. f = [n \in 0..Len(rows) |->
               IF n = 0 THEN <<>>
               ELSE IF rows[n] \in set THEN Append(f[n - 1], rows[n]) ELSE f[n - 1]]
    BY <1>2, Zenon DEF IsFilter, KeptOf
  <2>2. it = [n \in 0..Len(rows) |->
                IF n = 0 THEN <<>>
                ELSE IF rows[n] \in set THEN Append(it[n - 1], rows[n]) ELSE it[n - 1]]
    BY <2>1, Zenon
  <2> HIDE DEF it
  <2> QED BY <2>2, Zenon DEF IsFilter, KeptOf
<1> HIDE DEF it
<1> QED BY <1>1, <1>3

(* The filter keeps the rows of the set, all of them, in their order: e says *)
(* where each one was.                                                       *)
Placed(rows, set, kept, n, e) ==
  /\ e \in [1..Len(kept) -> 1..n]
  /\ \A i \in 1..Len(kept) : kept[i] = rows[e[i]] /\ kept[i] \in set
  /\ \A i, j \in 1..Len(kept) : i < j => e[i] < e[j]
FilterRight(S, rows, set, kept, n) ==
  /\ kept \in Seq(S)
  /\ \E e : Placed(rows, set, kept, n, e)
  /\ \A m \in 1..n : rows[m] \in set => \E i \in 1..Len(kept) : kept[i] = rows[m]

LEMMA FilterStep ==
  ASSUME NEW S, NEW rows \in Seq(S), NEW set, NEW n \in 1..Len(rows), NEW kept,
         FilterRight(S, rows, set, kept, n - 1)
  PROVE  FilterRight(S, rows, set, IF rows[n] \in set THEN Append(kept, rows[n]) ELSE kept, n)
<1>1. rows[n] \in S /\ n - 1 \in Nat /\ n \in Nat /\ kept \in Seq(S) /\ Len(kept) \in Nat
  BY DEF FilterRight
<1>2. \A m \in 1..n : m \in 1..(n - 1) \/ m = n
  OBVIOUS
<1>3. PICK e : Placed(rows, set, kept, n - 1, e)
  BY DEF FilterRight
<1>4. \A i \in 1..Len(kept) : e[i] \in 1..n /\ e[i] < n
  BY <1>1, <1>3 DEF Placed
<1>5. CASE rows[n] \in set
  <2> DEFINE more == Append(kept, rows[n])
  <2>1. /\ more \in Seq(S) /\ Len(more) = Len(kept) + 1
        /\ more[Len(kept) + 1] = rows[n]
        /\ \A i \in 1..Len(kept) : more[i] = kept[i]
    BY <1>1
  <2> HIDE DEF more
  <2>2. \A i \in 1..Len(more) : i \in 1..Len(kept) \/ i = Len(kept) + 1
    BY <1>1, <2>1
  <2> DEFINE at2 == [i \in 1..Len(more) |-> IF i = Len(kept) + 1 THEN n ELSE e[i]]
  <2>3. \A i \in 1..Len(kept) : i \in 1..Len(more) /\ at2[i] = e[i]
    BY <1>1, <2>1
  <2>4. Len(kept) + 1 \in 1..Len(more) /\ at2[Len(kept) + 1] = n
    BY <1>1, <2>1
  <2>5. at2 \in [1..Len(more) -> 1..n]
    BY <1>1, <1>4, <2>2
  <2> HIDE DEF at2
  <2>6. \A i \in 1..Len(more) : more[i] = rows[at2[i]] /\ more[i] \in set
    BY <1>3, <1>5, <2>1, <2>2, <2>3, <2>4 DEF Placed
  <2>7. \A i, j \in 1..Len(more) : i < j => at2[i] < at2[j]
    <3> SUFFICES ASSUME NEW i \in 1..Len(more), NEW j \in 1..Len(more), i < j
                 PROVE  at2[i] < at2[j]
      OBVIOUS
    <3>1. i \in 1..Len(kept)
      BY <1>1, <2>1
    <3>2. CASE j \in 1..Len(kept)
      BY <1>3, <2>3, <3>1, <3>2 DEF Placed
    <3>3. CASE j = Len(kept) + 1
      BY <1>4, <2>3, <2>4, <3>1, <3>3
    <3> QED BY <2>2, <3>2, <3>3
  <2>8. Placed(rows, set, more, n, at2)
    BY <2>5, <2>6, <2>7 DEF Placed
  <2>9. ASSUME NEW m \in 1..n, rows[m] \in set PROVE \E i \in 1..Len(more) : more[i] = rows[m]
    <3>1. CASE m = n
      BY <2>1, <2>4, <3>1
    <3>2. CASE m \in 1..(n - 1)
      <4>1. PICK i \in 1..Len(kept) : kept[i] = rows[m]
        BY <2>9, <3>2 DEF FilterRight
      <4> QED BY <2>1, <2>3, <4>1
    <3> QED BY <1>2, <3>1, <3>2
  <2> QED BY <1>5, <2>1, <2>8, <2>9 DEF FilterRight, more
<1>6. CASE rows[n] \notin set
  <2>1. Placed(rows, set, kept, n, e)
    BY <1>1, <1>3, <1>4 DEF Placed
  <2> QED BY <1>1, <1>2, <1>6, <2>1 DEF FilterRight
<1> QED BY <1>5, <1>6

LEMMA FilterFacts ==
  ASSUME NEW S, NEW rows \in Seq(S), NEW set
  PROVE  FilterRight(S, rows, set, Picked(rows, set), Len(rows))
<1>1. PICK f : IsFilter(f, rows, set) /\ Picked(rows, set) = f[Len(rows)]
  BY FilterIs
<1>2. \A n \in 0..Len(rows) : f[n] = KeptOf(rows, set, f, n)
  BY <1>1 DEF IsFilter
<1> DEFINE Bad == {n \in 0..Len(rows) : ~FilterRight(S, rows, set, f[n], n)}
<1>3. Bad = {}
  <2> SUFFICES ASSUME Bad # {} PROVE FALSE
    OBVIOUS
  <2>1. Bad \in SUBSET Nat
    OBVIOUS
  <2>2. PICK m \in Bad : \A k \in Bad : m <= k
    BY <2>1, LeastNat
  <2>3. m \in 0..Len(rows) /\ ~FilterRight(S, rows, set, f[m], m)
    OBVIOUS
  <2>4. m # 0
    <3>1. f[0] = <<>>
      BY <1>2 DEF KeptOf
    <3>2. Placed(rows, set, <<>>, 0, [i \in 1..0 |-> 0])
      BY DEF Placed
    <3>3. FilterRight(S, rows, set, <<>>, 0)
      BY <3>2 DEF FilterRight
    <3> QED BY <2>3, <3>1, <3>3
  <2>5. m \in 1..Len(rows) /\ m - 1 \in 0..Len(rows) /\ ~(m <= m - 1)
    BY <2>3, <2>4
  <2>6. FilterRight(S, rows, set, f[m - 1], m - 1)
    BY <2>2, <2>5
  <2>7. f[m] = IF rows[m] \in set THEN Append(f[m - 1], rows[m]) ELSE f[m - 1]
    BY <1>2, <2>3, <2>4 DEF KeptOf
  <2> QED BY <2>3, <2>5, <2>6, <2>7, FilterStep
<1> QED BY <1>1, <1>3

LEMMA SetOf ==
  ASSUME NEW S, NEW rows \in Seq(S)
  PROVE  ToSet(rows) = {rows[i] : i \in 1..Len(rows)}
BY DEF ToSet

LEMMA PickedIs ==
  ASSUME NEW S, NEW rows \in Seq(S), NEW set
  PROVE  Picked(rows, set) \in Seq(S) /\ ToSet(Picked(rows, set)) = ToSet(rows) \cap set
<1> DEFINE kept == Picked(rows, set)
<1>1. FilterRight(S, rows, set, kept, Len(rows))
  BY FilterFacts
<1> HIDE DEF kept
<1>2. kept \in Seq(S)
  BY <1>1 DEF FilterRight
<1>3. PICK e : Placed(rows, set, kept, Len(rows), e)
  BY <1>1 DEF FilterRight
<1>4. ASSUME NEW x \in ToSet(kept) PROVE x \in ToSet(rows) \cap set
  BY <1>2, <1>3, <1>4, SetOf DEF Placed
<1>5. ASSUME NEW x \in ToSet(rows) \cap set PROVE x \in ToSet(kept)
  <2>1. PICK m \in 1..Len(rows) : rows[m] = x
    BY <1>5, SetOf
  <2>2. PICK i \in 1..Len(kept) : kept[i] = x
    BY <1>1, <1>5, <2>1 DEF FilterRight
  <2> QED BY <1>2, <2>2, SetOf
<1>6. ToSet(kept) = ToSet(rows) \cap set
  BY <1>4, <1>5
<1> QED BY <1>2, <1>6 DEF kept

-----------------------------------------------------------------------------
(* Rows and samples. *)

Row == [symbol : STRING, family : STRING, score : Int, price : Nat \ {0}, scoredAt : Nat]

(* A list the worker or the collector can hold: in the order of scoring and  *)
(* without a row twice.                                                      *)
InOrder(rows) ==
  \A i, j \in 1..Len(rows) : i < j => rows[i].scoredAt <= rows[j].scoredAt /\ rows[i] # rows[j]
UpTo(rows, t) == \A i \in 1..Len(rows) : rows[i].scoredAt <= t
Listed(rows, t) == rows \in Seq(Row) /\ InOrder(rows) /\ UpTo(rows, t)

LEMMA PickedListed ==
  ASSUME NEW t \in Nat, NEW rows, Listed(rows, t), NEW set
  PROVE  Listed(Picked(rows, set), t)
<1> DEFINE kept == Picked(rows, set)
<1>1. rows \in Seq(Row) /\ InOrder(rows) /\ UpTo(rows, t) /\ Len(rows) \in Nat
  BY LenProperties DEF Listed
<1>2. FilterRight(Row, rows, set, kept, Len(rows))
  BY <1>1, FilterFacts
<1> HIDE DEF kept
<1>3. kept \in Seq(Row)
  BY <1>2 DEF FilterRight
<1>4. PICK e : Placed(rows, set, kept, Len(rows), e)
  BY <1>2 DEF FilterRight
<1>5. \A i \in 1..Len(kept) : e[i] \in 1..Len(rows) /\ kept[i] = rows[e[i]]
  BY <1>4 DEF Placed
<1>6. \A i, j \in 1..Len(kept) : i < j => e[i] < e[j]
  BY <1>4 DEF Placed
<1>7. InOrder(kept)
  BY <1>1, <1>5, <1>6 DEF InOrder
<1>8. UpTo(kept, t)
  BY <1>1, <1>5 DEF UpTo
<1> QED BY <1>3, <1>7, <1>8 DEF Listed, kept

(* The last row of a symbol that has one. *)
LEMMA LastExists ==
  ASSUME NEW rows \in Seq(Row), NEW k \in 1..Len(rows)
  PROVE  \E i \in LastOf(rows, rows[k].symbol) : i \in 1..Len(rows) /\ k <= i
<1> DEFINE Same == {i \in 1..Len(rows) : rows[i].symbol = rows[k].symbol}
           Left == {Len(rows) - i : i \in Same}
<1>1. Len(rows) \in Nat /\ DOMAIN rows = 1..Len(rows)
  BY LenProperties
<1>2. Left \in SUBSET Nat /\ Left # {}
  BY <1>1
<1>3. PICK m \in Left : \A n \in Left : m <= n
  BY <1>2, LeastNat
<1>4. PICK i \in Same : m = Len(rows) - i
  BY <1>3
<1>5. \A j \in Same : j <= i
  <2> SUFFICES ASSUME NEW j \in Same PROVE j <= i
    OBVIOUS
  <2>1. Len(rows) - j \in Left
    OBVIOUS
  <2>2. Len(rows) - i <= Len(rows) - j
    BY <1>3, <1>4, <2>1
  <2> QED BY <1>1, <2>2
<1>6. k \in Same
  OBVIOUS
<1>7. i \in LastOf(rows, rows[k].symbol)
  BY <1>1, <1>5 DEF LastOf
<1> QED BY <1>5, <1>6, <1>7

(* Recording adds rows of this hour, none twice. *)
Recorded(rows, more) ==
  /\ Listed(more, now)
  /\ ToSet(rows) \subseteq ToSet(more)
  /\ \A r \in ToSet(more) : r \in ToSet(rows) \/ r.scoredAt = now

LEMMA RecordOne ==
  ASSUME now \in Nat, NEW rows, Listed(rows, now), NEW c \in Scored
  PROVE  Recorded(rows, RecordPending(rows, Observation(c)))
<1> DEFINE obs == Observation(c)
<1>1. /\ rows \in Seq(Row) /\ InOrder(rows) /\ UpTo(rows, now) /\ Len(rows) \in Nat
      /\ DOMAIN rows = 1..Len(rows)
  BY LenProperties DEF Listed
<1>2. obs \in Row /\ obs.scoredAt = now
  BY DEF Scored, Row, Observation
<1> HIDE DEF obs
<1>3. CASE \E i \in LastOf(rows, obs.symbol) : obs.scoredAt - rows[i].scoredAt < MinGap
  <2>1. RecordPending(rows, obs) = rows
    BY <1>3 DEF RecordPending
  <2> QED BY <2>1 DEF Recorded, obs
<1>4. CASE ~ \E i \in LastOf(rows, obs.symbol) : obs.scoredAt - rows[i].scoredAt < MinGap
  <2> DEFINE more == Append(rows, obs)
  <2>1. RecordPending(rows, obs) = more
    BY <1>4 DEF RecordPending
  <2>2. /\ more \in Seq(Row) /\ Len(more) = Len(rows) + 1 /\ more[Len(rows) + 1] = obs
        /\ \A i \in 1..Len(rows) : more[i] = rows[i]
    BY <1>1, <1>2
  <2> HIDE DEF more
  <2>3. \A i \in 1..Len(more) : i \in 1..Len(rows) \/ i = Len(rows) + 1
    BY <1>1, <2>2
  <2>4. \A k \in 1..Len(rows) : rows[k] # obs
    <3> SUFFICES ASSUME NEW k \in 1..Len(rows), rows[k] = obs PROVE FALSE
      OBVIOUS
    <3>1. PICK i \in LastOf(rows, obs.symbol) : i \in 1..Len(rows) /\ k <= i
      BY <1>1, LastExists
    <3>2. rows[k].scoredAt <= rows[i].scoredAt
      <4>1. CASE k = i
        <5>1. rows[i] \in Row
          BY <1>1, <3>1
        <5> QED BY <4>1, <5>1 DEF Row
      <4>2. CASE k < i
        BY <1>1, <3>1, <4>2 DEF InOrder
      <4> QED BY <3>1, <4>1, <4>2
    <3>3. rows[i].scoredAt \in Nat
      <4>1. rows[i] \in Row
        BY <1>1, <3>1
      <4> QED BY <4>1 DEF Row
    <3>4. ~(obs.scoredAt - rows[i].scoredAt < MinGap)
      BY <1>4, <3>1
    <3> QED BY <1>2, <3>2, <3>3, <3>4, CalibrationAssumption
  <2>5. InOrder(more)
    <3> SUFFICES ASSUME NEW i \in 1..Len(more), NEW j \in 1..Len(more), i < j
                 PROVE  more[i].scoredAt <= more[j].scoredAt /\ more[i] # more[j]
      BY DEF InOrder
    <3>1. i \in 1..Len(rows) /\ more[i] = rows[i]
      BY <1>1, <2>2
    <3>2. CASE j \in 1..Len(rows)
      BY <1>1, <2>2, <3>1, <3>2 DEF InOrder
    <3>3. CASE j = Len(rows) + 1
      BY <1>1, <1>2, <2>2, <2>4, <3>1, <3>3 DEF UpTo
    <3> QED BY <2>3, <3>2, <3>3
  <2>6. UpTo(more, now)
    BY <1>1, <1>2, <2>2, <2>3 DEF UpTo
  <2>7. \A r \in ToSet(more) : r \in ToSet(rows) \/ r.scoredAt = now
    BY <1>1, <1>2, <2>2, <2>3, SetOf
  <2>8. ToSet(rows) \subseteq ToSet(more)
    <3>1. \A i \in 1..Len(rows) : i \in 1..Len(more)
      BY <1>1, <2>2
    <3> QED BY <1>1, <2>2, <3>1, SetOf
  <2> QED BY <2>1, <2>2, <2>5, <2>6, <2>7, <2>8 DEF Recorded, Listed, obs
<1> QED BY <1>3, <1>4

(* The list after the first n candidates, when f is the list after those     *)
(* before.                                                                   *)
RecordedUpTo(rows, evaluated, f, n) ==
  IF n = 0 THEN rows ELSE RecordPending(f[n - 1], Observation(evaluated[n]))
IsRecord(f, rows, evaluated) ==
  f = [n \in 0..Len(evaluated) |-> RecordedUpTo(rows, evaluated, f, n)]

LEMMA RecordExists ==
  ASSUME NEW rows, NEW evaluated \in Seq(Scored)
  PROVE  \E f : IsRecord(f, rows, evaluated)
<1> DEFINE Upward(n) == \E f : f = [k \in 0..n |-> RecordedUpTo(rows, evaluated, f, k)]
           Bad == {n \in Nat : ~Upward(n)}
<1>1. Upward(0)
  <2> DEFINE f == [k \in 0..0 |-> rows]
  <2>1. \A k \in 0..0 : RecordedUpTo(rows, evaluated, f, k) = rows
    BY DEF RecordedUpTo
  <2>2. f = [k \in 0..0 |-> RecordedUpTo(rows, evaluated, f, k)]
    BY <2>1
  <2> QED BY <2>2
<1>2. ASSUME NEW n \in Nat, Upward(n) PROVE Upward(n + 1)
  <2>1. PICK f : f = [k \in 0..n |-> RecordedUpTo(rows, evaluated, f, k)]
    BY <1>2
  <2> DEFINE g == [k \in 0..(n + 1) |-> RecordedUpTo(rows, evaluated, f, k)]
  <2>2. \A k \in 0..n : k \in 0..(n + 1) /\ g[k] = f[k]
    <3> SUFFICES ASSUME NEW k \in 0..n PROVE k \in 0..(n + 1) /\ g[k] = f[k]
      OBVIOUS
    <3>1. k \in 0..(n + 1)
      OBVIOUS
    <3>2. g[k] = RecordedUpTo(rows, evaluated, f, k)
      BY <3>1
    <3>3. f[k] = RecordedUpTo(rows, evaluated, f, k)
      BY <2>1
    <3> QED BY <3>1, <3>2, <3>3
  <2> HIDE DEF g
  <2>3. \A k \in 0..(n + 1) : RecordedUpTo(rows, evaluated, g, k) = RecordedUpTo(rows, evaluated, f, k)
    <3> SUFFICES ASSUME NEW k \in 0..(n + 1)
                 PROVE  RecordedUpTo(rows, evaluated, g, k) = RecordedUpTo(rows, evaluated, f, k)
      OBVIOUS
    <3>1. CASE k = 0
      BY <3>1 DEF RecordedUpTo
    <3>2. CASE k # 0
      <4>1. k - 1 \in 0..n
        BY <3>2
      <4>2. g[k - 1] = f[k - 1]
        BY <2>2, <4>1
      <4> QED BY <4>2 DEF RecordedUpTo
    <3> QED BY <3>1, <3>2
  <2>4. g = [k \in 0..(n + 1) |-> RecordedUpTo(rows, evaluated, g, k)]
    BY <2>3 DEF g
  <2> QED BY <2>4
<1> HIDE DEF Upward
<1>3. Bad = {}
  <2> SUFFICES ASSUME Bad # {} PROVE FALSE
    OBVIOUS
  <2>1. Bad \in SUBSET Nat
    OBVIOUS
  <2>2. PICK m \in Bad : \A k \in Bad : m <= k
    BY <2>1, LeastNat
  <2>3. m \in Nat /\ ~Upward(m)
    OBVIOUS
  <2>4. m # 0 /\ m - 1 \in Nat /\ ~(m <= m - 1) /\ (m - 1) + 1 = m
    BY <1>1, <2>3
  <2>5. Upward(m - 1)
    BY <2>2, <2>4
  <2> QED BY <1>2, <2>3, <2>4, <2>5
<1>4. Upward(Len(evaluated))
  BY <1>3
<1> QED BY <1>4 DEF Upward, IsRecord

LEMMA RecordIs ==
  ASSUME NEW rows, NEW evaluated \in Seq(Scored)
  PROVE  \E f : IsRecord(f, rows, evaluated) /\ RecordAll(rows, evaluated) = f[Len(evaluated)]
<1> DEFINE it == CHOOSE it : it = [n \in 0..Len(evaluated) |->
                   IF n = 0 THEN rows
                   ELSE RecordPending(it[n - 1], Observation(evaluated[n]))]
<1>1. RecordAll(rows, evaluated) = it[Len(evaluated)]
  BY Zenon DEF RecordAll
<1>2. PICK f : IsRecord(f, rows, evaluated)
  BY RecordExists
<1>3. IsRecord(it, rows, evaluated)
  <2>1. f = [n \in 0..Len(evaluated) |->
               IF n = 0 THEN rows ELSE RecordPending(f[n - 1], Observation(evaluated[n]))]
    BY <1>2, Zenon DEF IsRecord, RecordedUpTo
  <2>2. it = [n \in 0..Len(evaluated) |->
                IF n = 0 THEN rows ELSE RecordPending(it[n - 1], Observation(evaluated[n]))]
    BY <2>1, Zenon
  <2> HIDE DEF it
  <2> QED BY <2>2, Zenon DEF IsRecord, RecordedUpTo
<1> HIDE DEF it
<1> QED BY <1>1, <1>3

LEMMA RecordFacts ==
  ASSUME now \in Nat, NEW rows, Listed(rows, now), NEW evaluated \in Seq(Scored)
  PROVE  Recorded(rows, RecordAll(rows, evaluated))
<1>1. PICK f : IsRecord(f, rows, evaluated) /\ RecordAll(rows, evaluated) = f[Len(evaluated)]
  BY RecordIs
<1>2. Len(evaluated) \in Nat /\ \A n \in 0..Len(evaluated) : f[n] = RecordedUpTo(rows, evaluated, f, n)
  BY <1>1, LenProperties DEF IsRecord
<1> DEFINE Bad == {n \in 0..Len(evaluated) : ~Recorded(rows, f[n])}
<1>3. Bad = {}
  <2> SUFFICES ASSUME Bad # {} PROVE FALSE
    OBVIOUS
  <2>1. Bad \in SUBSET Nat
    OBVIOUS
  <2>2. PICK m \in Bad : \A k \in Bad : m <= k
    BY <2>1, LeastNat
  <2>3. m \in 0..Len(evaluated) /\ ~Recorded(rows, f[m])
    OBVIOUS
  <2>4. m # 0
    <3>1. f[0] = rows
      BY <1>2 DEF RecordedUpTo
    <3>2. Recorded(rows, rows)
      BY DEF Recorded
    <3> QED BY <2>3, <3>1, <3>2
  <2>5. m \in 1..Len(evaluated) /\ m - 1 \in 0..Len(evaluated) /\ ~(m <= m - 1)
    BY <1>2, <2>3, <2>4
  <2>6. Recorded(rows, f[m - 1])
    BY <2>2, <2>5
  <2>7. f[m] = RecordPending(f[m - 1], Observation(evaluated[m]))
    BY <1>2, <2>3, <2>4 DEF RecordedUpTo
  <2>8. evaluated[m] \in Scored
    BY <2>5
  <2>9. Recorded(f[m - 1], f[m])
    BY <2>6, <2>7, <2>8, RecordOne DEF Recorded
  <2>10. Recorded(rows, f[m])
    BY <2>6, <2>9 DEF Recorded
  <2> QED BY <2>3, <2>10
<1> QED BY <1>1, <1>2, <1>3

(* What a sample says of its row: judged a whole horizon after it, against a *)
(* quote that came after it, and won when it moved up.                       *)
SampleShape == [row : Row, moveBps : Int, win : BOOLEAN, quotedAt : Nat, measuredAt : Nat]

Measured ==
  {s \in SampleShape :
     /\ s.win = (s.moveBps > 0) /\ s.measuredAt - s.row.scoredAt >= Horizon
     /\ s.row.scoredAt <= s.quotedAt /\ s.quotedAt <= s.measuredAt}

RowsOf(samples) == {samples[i].row : i \in 1..Len(samples)}
Once(samples) == \A i, j \in 1..Len(samples) : i # j => samples[i].row # samples[j].row

LEMMA RatioTyped == \A a \in Int, b \in Nat \ {0} : a \div b \in Int
OBVIOUS

LEMMA SampleMeasured ==
  ASSUME now \in Nat, NEW row \in Row, NEW quoted, NEW price \in [quoted -> Prices], Matures(row, price),
         collector.quotedAt \in Nat, row.scoredAt <= collector.quotedAt, collector.quotedAt <= now
  PROVE  /\ Sample(row, price) \in Measured /\ Sample(row, price).row = row
         /\ Sample(row, price).quotedAt = collector.quotedAt /\ row.symbol \in quoted
<1>1. row.price \in Nat \ {0} /\ row.scoredAt \in Nat
  BY DEF Row
<1>2. price[row.symbol] \in Nat /\ row.symbol \in quoted
  BY CalibrationAssumption DEF Matures
<1>3. Move(row, price) \in Int
  <2>1. 10000 * (price[row.symbol] - row.price) \in Int
    BY <1>1, <1>2
  <2> QED BY <1>1, <2>1, RatioTyped DEF Move
<1>4. now - row.scoredAt >= Horizon
  BY DEF Matures, Age
<1> DEFINE s == Sample(row, price)
<1>5. /\ s.row = row /\ s.moveBps = Move(row, price) /\ s.win = (Move(row, price) > 0)
      /\ s.quotedAt = collector.quotedAt /\ s.measuredAt = now
  BY DEF Sample
<1>6. s \in SampleShape
  BY <1>3 DEF Sample, SampleShape
<1> HIDE DEF s
<1>7. s \in Measured
  BY <1>4, <1>5, <1>6 DEF Measured
<1> QED BY <1>2, <1>5, <1>7 DEF s

(* Samples appended to samples. *)
LEMMA SamplesJoined ==
  ASSUME NEW a \in Seq(Measured), NEW b \in Seq(Measured)
  PROVE  /\ a \o b \in Seq(Measured)
         /\ RowsOf(a \o b) = RowsOf(a) \cup RowsOf(b)
         /\ (Once(a) /\ Once(b) /\ RowsOf(a) \cap RowsOf(b) = {}) => Once(a \o b)
<1> DEFINE c == a \o b
           m == Len(a)
           n == Len(b)
<1>1. /\ m \in Nat /\ n \in Nat /\ c \in Seq(Measured) /\ Len(c) = m + n
      /\ \A i \in 1..m : c[i] = a[i]
      /\ \A i \in (m + 1)..(m + n) : c[i] = b[i - m]
  <2>1. \A i \in 1..(Len(a) + Len(b)) : c[i] = IF i <= Len(a) THEN a[i] ELSE b[i - Len(a)]
    BY ConcatProperties
  <2>2. m \in Nat /\ n \in Nat /\ c \in Seq(Measured) /\ Len(c) = m + n
    BY ConcatProperties, LenProperties
  <2> QED BY <2>1, <2>2
<1> HIDE DEF c
<1>2. \A i \in 1..Len(c) : i \in 1..m \/ (i \in (m + 1)..(m + n) /\ i - m \in 1..n)
  BY <1>1
<1>3. \A i \in 1..n : i + m \in (m + 1)..(m + n) /\ i + m \in 1..Len(c) /\ c[i + m] = b[i]
  <2> SUFFICES ASSUME NEW i \in 1..n PROVE i + m \in (m + 1)..(m + n) /\ i + m \in 1..Len(c) /\ c[i + m] = b[i]
    OBVIOUS
  <2>1. i + m \in (m + 1)..(m + n) /\ i + m \in 1..Len(c) /\ (i + m) - m = i
    BY <1>1
  <2>2. c[i + m] = b[(i + m) - m]
    BY <1>1, <2>1
  <2> QED BY <2>1, <2>2
<1>4. \A i \in 1..m : i \in 1..Len(c) /\ c[i] = a[i]
  BY <1>1
<1>5. ASSUME NEW r \in RowsOf(c) PROVE r \in RowsOf(a) \cup RowsOf(b)
  <2>1. PICK i \in 1..Len(c) : c[i].row = r
    BY DEF RowsOf
  <2>2. CASE i \in 1..m
    BY <1>1, <2>1, <2>2 DEF RowsOf
  <2>3. CASE i \in (m + 1)..(m + n) /\ i - m \in 1..n
    <3>1. b[i - m].row = r
      BY <1>1, <2>1, <2>3
    <3> QED BY <2>3, <3>1 DEF RowsOf
  <2> QED BY <1>2, <2>2, <2>3
<1>6. ASSUME NEW r \in RowsOf(a) \cup RowsOf(b) PROVE r \in RowsOf(c)
  <2>1. CASE r \in RowsOf(a)
    BY <1>4, <2>1 DEF RowsOf
  <2>2. CASE r \in RowsOf(b)
    <3>1. PICK i \in 1..n : b[i].row = r
      BY <2>2 DEF RowsOf
    <3>2. i + m \in 1..Len(c) /\ c[i + m].row = r
      BY <1>3, <3>1
    <3> QED BY <3>2 DEF RowsOf
  <2> QED BY <1>6, <2>1, <2>2
<1>7. ASSUME Once(a), Once(b), RowsOf(a) \cap RowsOf(b) = {} PROVE Once(c)
  <2> SUFFICES ASSUME NEW i \in 1..Len(c), NEW j \in 1..Len(c), i # j PROVE c[i].row # c[j].row
    BY DEF Once
  <2>1. \A k \in 1..m : c[k].row \in RowsOf(a)
    BY <1>4 DEF RowsOf
  <2>2. \A k \in (m + 1)..(m + n) : k - m \in 1..n /\ c[k] = b[k - m]
    BY <1>1
  <2>3. \A k \in (m + 1)..(m + n) : c[k].row \in RowsOf(b)
    BY <2>2 DEF RowsOf
  <2>4. CASE i \in 1..m /\ j \in 1..m
    BY <1>4, <1>7, <2>4 DEF Once
  <2>5. CASE i \in (m + 1)..(m + n) /\ j \in (m + 1)..(m + n)
    <3>1. i - m \in 1..n /\ j - m \in 1..n /\ i - m # j - m
      BY <1>1, <2>5
    <3>2. b[i - m].row # b[j - m].row
      BY <1>7, <3>1 DEF Once
    <3> QED BY <2>2, <2>5, <3>2
  <2>6. CASE i \in 1..m /\ j \in (m + 1)..(m + n)
    BY <1>7, <2>1, <2>3, <2>6
  <2>7. CASE j \in 1..m /\ i \in (m + 1)..(m + n)
    BY <1>7, <2>1, <2>3, <2>7
  <2> QED BY <1>2, <2>4, <2>5, <2>6, <2>7
<1> QED BY <1>1, <1>5, <1>6, <1>7 DEF c

-----------------------------------------------------------------------------
(* The invariant of the calibration loop. *)

Places == {"idle", "read", "quoted", "pending", "matured", "samples", "sampled"}

(* Whatever overlaps or dies, the lists stay lists, the samples measured, and *)
(* both made of what the worker recorded; whatever was measured or aged out   *)
(* is older than this hour.                                                   *)
CTyped ==
  /\ now \in Nat /\ step \in [Processes -> Places] /\ step["worker"] # "quoted"
  /\ Listed(pendingFile.rows, now) /\ Listed(recording, now)
  /\ Listed(collector.rows, now) /\ Listed(collector.kept, now)
  /\ samplesFile.rows \in Seq(Measured) /\ collector.all \in Seq(Measured)
  /\ aged \subseteq Row

CTraced ==
  /\ ToSet(pendingFile.rows) \subseteq recorded
  /\ ToSet(collector.rows) \subseteq recorded /\ ToSet(collector.kept) \subseteq recorded
  /\ RowsOf(samplesFile.rows) \subseteq recorded /\ RowsOf(collector.all) \subseteq recorded
  /\ aged \subseteq recorded

Past(rows) == \A r \in rows : r.scoredAt < now

COld == Past(aged) /\ Past(RowsOf(samplesFile.rows)) /\ Past(RowsOf(collector.all))

(* A row of the symbol that is a horizon old at a time. *)
DueIn(rows, symbol, t) == \E r \in rows : r \in Row /\ r.symbol = symbol /\ t - r.scoredAt >= Horizon

BackedBy(rows, samples) == \A i \in 1..Len(samples) : DueIn(rows, samples[i].row.symbol, samples[i].quotedAt)

(* The collector asks for the quotes of symbols with a row that is due, and   *)
(* every sample was measured against such a quote.                            *)
CAsked ==
  step["collector"] = "read" => \A symbol \in collector.due : DueIn(recorded, symbol, now)

CPriced ==
  step["collector"] = "quoted" =>
    /\ collector.quotedAt \in Nat /\ collector.quotedAt <= now
    /\ Listed(collector.rows, collector.quotedAt)
    /\ \E quoted : /\ collector.price \in [quoted -> Prices]
                   /\ \A symbol \in quoted : DueIn(recorded, symbol, collector.quotedAt)

CBacked == BackedBy(recorded, samplesFile.rows) /\ BackedBy(recorded, collector.all)

CQuoted == CAsked /\ CPriced /\ CBacked

(* Without overlap, pending rows, samples and what was dropped for its age    *)
(* share out what was recorded; where the parts are goes with the place of    *)
(* the process under way.                                                     *)
Balanced(waiting, samples) ==
  /\ recorded \subseteq waiting \cup RowsOf(samples) \cup aged
  /\ waiting \cap RowsOf(samples) = {} /\ waiting \cap aged = {} /\ RowsOf(samples) \cap aged = {}
  /\ Once(samples)

CBalanced ==
  /\ step["worker"] = "idle" \/ step["collector"] = "idle"
  /\ (step["worker"] \in {"idle", "read"} /\ step["collector"] \in {"idle", "read", "quoted"}) =>
       Balanced(ToSet(pendingFile.rows), samplesFile.rows)
  /\ step["worker"] \in {"read", "pending"} => Balanced(ToSet(recording), samplesFile.rows)
  /\ step["collector"] \in {"read", "quoted"} => collector.rows = pendingFile.rows
  /\ step["collector"] \in {"matured", "samples"} => Balanced(ToSet(collector.kept), collector.all)
  /\ step["collector"] \in {"sampled", "pending"} => Balanced(ToSet(collector.kept), samplesFile.rows)

(* A report is of samples that were measured. *)
CReport ==
  \A r \in calibration : \E samples \in Seq(Measured) :
    /\ r.bands = BuildCalibrationReport(samples)
    /\ r.byFamily = BuildPerFamilyCalibration(samples)

CInv == CTyped /\ CTraced /\ COld /\ CQuoted /\ (clean => CBalanced) /\ CReport

LEMMA EmptyLists ==
  /\ \A t : Listed(<<>>, t)
  /\ ToSet(<<>>) = {} /\ RowsOf(<<>>) = {} /\ Once(<<>>) /\ <<>> \in Seq(Measured)
BY DEF Listed, InOrder, UpTo, ToSet, RowsOf, Once

LEMMA Went ==
  ASSUME step \in [Processes -> Places], NEW p \in Processes, NEW place \in Places, Goes(p, place)
  PROVE  /\ step' \in [Processes -> Places]
         /\ step'[p] = place /\ \A q \in Processes : q # p => step'[q] = step[q]
BY DEF Goes

LEMMA TheTwo ==
  "worker" \in Processes /\ "collector" \in Processes /\ \A p \in Processes : p \in {"worker", "collector"}
BY DEF Processes

LEMMA SevenPlaces ==
  /\ "idle" \in Places /\ "read" \in Places /\ "quoted" \in Places /\ "pending" \in Places
  /\ "matured" \in Places /\ "samples" \in Places /\ "sampled" \in Places
BY DEF Places

LEMMA WentWorker ==
  ASSUME CTyped, NEW place \in Places, Goes("worker", place)
  PROVE  step' \in [Processes -> Places] /\ step'["worker"] = place /\ step'["collector"] = step["collector"]
<1>1. "worker" # "collector"
  OBVIOUS
<1> QED BY <1>1, Went, TheTwo DEF CTyped

LEMMA WentCollector ==
  ASSUME CTyped, NEW place \in Places, Goes("collector", place)
  PROVE  step' \in [Processes -> Places] /\ step'["collector"] = place /\ step'["worker"] = step["worker"]
<1>1. "worker" # "collector"
  OBVIOUS
<1> QED BY <1>1, Went, TheTwo DEF CTyped

LEMMA CalibrationStarts == CalibrationInit => CInv
<1> SUFFICES ASSUME CalibrationInit PROVE CInv
  OBVIOUS
<1>1. /\ pendingFile.rows = <<>> /\ samplesFile.rows = <<>> /\ recording = <<>>
      /\ collector.rows = <<>> /\ collector.kept = <<>> /\ collector.all = <<>>
      /\ aged = {} /\ recorded = {} /\ calibration = {} /\ now = 0
      /\ step = [p \in Processes |-> "idle"]
  BY DEF CalibrationInit, File, NobodyHolds
<1>2. step \in [Processes -> Places] /\ step["worker"] = "idle" /\ step["collector"] = "idle"
  BY <1>1, SevenPlaces, TheTwo
<1>3. CTyped
  BY <1>1, <1>2, EmptyLists DEF CTyped
<1>4. CTraced /\ COld /\ CReport
  BY <1>1, EmptyLists DEF CTraced, COld, Past, CReport
<1>5. Balanced(ToSet(<<>>), <<>>)
  BY <1>1, EmptyLists DEF Balanced
<1>6. CBalanced
  BY <1>1, <1>2, <1>5 DEF CBalanced
<1>7. CQuoted
  <2>1. Len(<<>>) = 0
    OBVIOUS
  <2> QED BY <1>1, <1>2, <2>1 DEF CQuoted, CAsked, CPriced, CBacked, BackedBy
<1> QED BY <1>3, <1>4, <1>6, <1>7 DEF CInv

(* What holds of lists and samples still does when only time passes. *)
LEMMA LaterStill ==
  ASSUME NEW t \in Nat, NEW u \in Nat, t <= u, NEW rows, Listed(rows, t)
  PROVE  Listed(rows, u)
<1>1. \A i \in 1..Len(rows) : rows[i] \in Row
  BY DEF Listed
<1>2. \A i \in 1..Len(rows) : rows[i].scoredAt \in Nat
  BY <1>1 DEF Row
<1> QED BY <1>2 DEF Listed, UpTo

LEMMA DueGrows ==
  ASSUME NEW a, NEW b, a \subseteq b
  PROVE  /\ \A symbol, t : DueIn(a, symbol, t) => DueIn(b, symbol, t)
         /\ \A samples : BackedBy(a, samples) => BackedBy(b, samples)
<1>1. \A symbol, t : DueIn(a, symbol, t) => DueIn(b, symbol, t)
  BY DEF DueIn
<1> QED BY <1>1 DEF BackedBy

LEMMA DueLater ==
  ASSUME NEW rows, NEW symbol, NEW t \in Nat, NEW u \in Nat, t <= u, DueIn(rows, symbol, t)
  PROVE  DueIn(rows, symbol, u)
<1>1. PICK r \in rows : r \in Row /\ r.symbol = symbol /\ t - r.scoredAt >= Horizon
  BY DEF DueIn
<1>2. r.scoredAt \in Nat /\ Horizon \in Nat
  BY <1>1, CalibrationAssumption DEF Row
<1>3. u - r.scoredAt >= Horizon
  BY <1>1, <1>2
<1> QED BY <1>1, <1>3 DEF DueIn

LEMMA NothingBacked == \A rows : BackedBy(rows, <<>>)
<1>1. Len(<<>>) = 0
  OBVIOUS
<1> QED BY <1>1 DEF BackedBy

(* What the collector asked for, and what it measured, outlives the steps of *)
(* the others.                                                               *)
LEMMA QuotedStill ==
  ASSUME CInv, now' \in Nat, now <= now', recorded \subseteq recorded', collector' = collector,
         step'["collector"] = step["collector"], samplesFile'.rows = samplesFile.rows
  PROVE  CQuoted'
<1>1. now \in Nat /\ CAsked /\ CPriced /\ CBacked
  BY DEF CInv, CTyped, CQuoted
<1>2. /\ \A symbol, t : DueIn(recorded, symbol, t) => DueIn(recorded', symbol, t)
      /\ \A samples : BackedBy(recorded, samples) => BackedBy(recorded', samples)
  BY DueGrows
<1>3. CAsked'
  <2> SUFFICES ASSUME step["collector"] = "read", NEW symbol \in collector.due
               PROVE  DueIn(recorded', symbol, now')
    BY DEF CAsked
  <2>1. DueIn(recorded, symbol, now)
    BY <1>1 DEF CAsked
  <2> QED BY <1>1, <1>2, <2>1, DueLater
<1>4. CPriced'
  <2> SUFFICES ASSUME step["collector"] = "quoted" PROVE CPriced'
    BY DEF CPriced
  <2>1. /\ collector.quotedAt \in Nat /\ collector.quotedAt <= now
        /\ Listed(collector.rows, collector.quotedAt)
    BY <1>1 DEF CPriced
  <2>2. PICK quoted : /\ collector.price \in [quoted -> Prices]
                      /\ \A symbol \in quoted : DueIn(recorded, symbol, collector.quotedAt)
    BY <1>1 DEF CPriced
  <2>3. \A symbol \in quoted : DueIn(recorded', symbol, collector.quotedAt)
    BY <1>2, <2>2
  <2>4. collector.quotedAt <= now'
    BY <1>1, <2>1
  <2> QED BY <2>1, <2>2, <2>3, <2>4 DEF CPriced
<1>5. CBacked'
  BY <1>1, <1>2 DEF CBacked
<1> QED BY <1>3, <1>4, <1>5 DEF CQuoted

(* Outside of its reads the collector has asked for nothing. *)
LEMMA QuotedElsewhere ==
  ASSUME step'["collector"] \notin {"read", "quoted"}, CBacked'
  PROVE  CQuoted'
BY DEF CQuoted, CAsked, CPriced

LEMMA SampledAreRows ==
  ASSUME NEW samples \in Seq(Measured)
  PROVE  RowsOf(samples) \subseteq Row
<1>1. \A i \in 1..Len(samples) : samples[i] \in Measured
  OBVIOUS
<1> QED BY <1>1 DEF RowsOf, Measured, SampleShape

LEMMA HourKeeps == ASSUME CInv, Hour PROVE CInv'
<1>1. /\ now \in Nat /\ now' = now + 1
      /\ UNCHANGED <<pendingFile, samplesFile, calibration, step, recording, collector, recorded, aged, clean>>
  BY DEF Hour, CInv, CTyped, sampleFiles, traced
<1>2. CTyped'
  <2>1. now' \in Nat /\ now <= now'
    BY <1>1
  <2> QED BY <1>1, <2>1, LaterStill DEF CInv, CTyped
<1>3. CTraced' /\ CReport' /\ (clean => CBalanced)'
  BY <1>1 DEF CInv, CTraced, CReport, CBalanced, Balanced
<1>4. ASSUME NEW rows, rows \subseteq Row, Past(rows) PROVE \A r \in rows : r.scoredAt < now'
  <2> SUFFICES ASSUME NEW r \in rows PROVE r.scoredAt < now'
    OBVIOUS
  <2>1. r.scoredAt \in Nat /\ r.scoredAt < now
    BY <1>4 DEF Past, Row
  <2> QED BY <1>1, <2>1
<1>5. COld'
  <2>1. aged \subseteq Row /\ RowsOf(samplesFile.rows) \subseteq Row /\ RowsOf(collector.all) \subseteq Row
    BY SampledAreRows DEF CInv, CTyped
  <2> QED BY <1>1, <1>4, <2>1 DEF CInv, COld, Past
<1>6. CQuoted'
  <2>1. now' \in Nat /\ now <= now' /\ recorded \subseteq recorded'
    BY <1>1
  <2> QED BY <1>1, <2>1, QuotedStill
<1> QED BY <1>2, <1>3, <1>5, <1>6 DEF CInv

LEMMA WorkerReadsKeeps == ASSUME CInv, WorkerReads PROVE CInv'
<1>1. /\ step["worker"] = "idle" /\ Goes("worker", "read")
      /\ clean' = (clean /\ step["collector"] = "idle" /\ ~pendingFile.torn)
      /\ UNCHANGED <<now, pendingFile, samplesFile, calibration, collector, recorded, aged>>
  BY DEF WorkerReads, sampleFiles
<1>2. PICK evaluated \in Evaluations : recording' = RecordAll(pendingFile.rows, evaluated)
  BY DEF WorkerReads
<1>3. evaluated \in Seq(Scored) /\ now \in Nat /\ Listed(pendingFile.rows, now)
  BY CalibrationAssumption DEF CInv, CTyped
<1>4. Recorded(pendingFile.rows, recording')
  BY <1>2, <1>3, RecordFacts
<1>5. step' \in [Processes -> Places] /\ step'["worker"] = "read" /\ step'["collector"] = step["collector"]
  BY <1>1, SevenPlaces, WentWorker DEF CInv
<1>6. CTyped'
  BY <1>1, <1>4, <1>5 DEF CInv, CTyped, Recorded
<1>7. CTraced' /\ COld' /\ CReport'
  BY <1>1 DEF CInv, CTraced, COld, Past, CReport
<1>8. ASSUME clean' PROVE CBalanced'
  <2>1. CBalanced /\ step["collector"] = "idle"
    BY <1>1, <1>8 DEF CInv
  <2>2. Balanced(ToSet(pendingFile.rows), samplesFile.rows)
    BY <1>1, <2>1 DEF CBalanced
  <2>3. ASSUME NEW r \in ToSet(recording'), r \in RowsOf(samplesFile.rows) \cup aged PROVE FALSE
    <3>1. r \notin ToSet(pendingFile.rows)
      BY <2>2, <2>3 DEF Balanced
    <3>2. r.scoredAt = now
      BY <1>4, <3>1 DEF Recorded
    <3>3. r.scoredAt < now
      BY <2>3 DEF CInv, COld, Past
    <3> QED BY <1>3, <3>2, <3>3
  <2>4. ToSet(pendingFile.rows) \subseteq ToSet(recording')
    BY <1>4 DEF Recorded
  <2>5. Balanced(ToSet(recording'), samplesFile.rows)
    BY <2>2, <2>3, <2>4 DEF Balanced
  <2>6. Balanced(ToSet(recording), samplesFile.rows)' /\ Balanced(ToSet(pendingFile.rows), samplesFile.rows)'
    BY <1>1, <2>2, <2>5 DEF Balanced
  <2> QED BY <1>5, <2>1, <2>6 DEF CBalanced
<1>9. CQuoted'
  <2>1. now \in Nat /\ now <= now
    BY DEF CInv, CTyped
  <2> QED BY <1>1, <1>5, <2>1, QuotedStill
<1> QED BY <1>6, <1>7, <1>8, <1>9 DEF CInv

LEMMA WorkerTruncatesKeeps == ASSUME CInv, WorkerTruncates PROVE CInv'
<1>1. /\ step["worker"] = "read" /\ Goes("worker", "pending")
      /\ pendingFile'.rows = <<>>
      /\ UNCHANGED <<now, samplesFile, calibration, recording, collector, recorded, aged, clean>>
  BY DEF WorkerTruncates, Torn, traced
<1>2. step' \in [Processes -> Places] /\ step'["worker"] = "pending" /\ step'["collector"] = step["collector"]
  BY <1>1, SevenPlaces, WentWorker DEF CInv
<1>3. CTyped'
  BY <1>1, <1>2, EmptyLists DEF CInv, CTyped
<1>4. CTraced' /\ COld' /\ CReport'
  BY <1>1, EmptyLists DEF CInv, CTraced, COld, Past, CReport
<1>5. ASSUME clean' PROVE CBalanced'
  <2>1. CBalanced /\ step["collector"] = "idle" /\ Balanced(ToSet(recording), samplesFile.rows)
    BY <1>1, <1>5 DEF CInv, CBalanced
  <2>2. Balanced(ToSet(recording), samplesFile.rows)'
    BY <1>1, <2>1 DEF Balanced
  <2> QED BY <1>2, <2>1, <2>2 DEF CBalanced
<1>9. CQuoted'
  <2>1. now \in Nat /\ now <= now
    BY DEF CInv, CTyped
  <2> QED BY <1>1, <1>2, <2>1, QuotedStill
<1> QED BY <1>3, <1>4, <1>5, <1>9 DEF CInv

LEMMA WorkerWritesKeeps == ASSUME CInv, WorkerWrites PROVE CInv'
<1>1. /\ step["worker"] = "pending" /\ Goes("worker", "idle")
      /\ pendingFile'.rows = recording /\ recorded' = recorded \cup ToSet(recording) /\ recording' = <<>>
      /\ UNCHANGED <<now, samplesFile, calibration, collector, aged, clean>>
  BY DEF WorkerWrites, File
<1>2. step' \in [Processes -> Places] /\ step'["worker"] = "idle" /\ step'["collector"] = step["collector"]
  BY <1>1, SevenPlaces, WentWorker DEF CInv
<1>3. CTyped'
  BY <1>1, <1>2, EmptyLists DEF CInv, CTyped
<1>4. CTraced' /\ COld' /\ CReport'
  BY <1>1 DEF CInv, CTraced, COld, Past, CReport
<1>5. ASSUME clean' PROVE CBalanced'
  <2>1. CBalanced /\ step["collector"] = "idle" /\ Balanced(ToSet(recording), samplesFile.rows)
    BY <1>1, <1>5 DEF CInv, CBalanced
  <2>2. Balanced(ToSet(pendingFile.rows), samplesFile.rows)'
    BY <1>1, <2>1 DEF Balanced
  <2> QED BY <1>2, <2>1, <2>2 DEF CBalanced
<1>9. CQuoted'
  <2>1. now \in Nat /\ now <= now
    BY DEF CInv, CTyped
  <2> QED BY <1>1, <1>2, <2>1, QuotedStill
<1> QED BY <1>3, <1>4, <1>5, <1>9 DEF CInv

LEMMA CollectorReadsKeeps == ASSUME CInv, CollectorReads PROVE CInv'
<1>1. /\ step["collector"] = "idle" /\ Goes("collector", "read")
      /\ clean' = (clean /\ step["worker"] = "idle")
      /\ collector'.rows = pendingFile.rows /\ collector'.due = DueSymbols(pendingFile.rows)
      /\ collector'.kept = <<>> /\ collector'.all = <<>>
      /\ UNCHANGED <<now, pendingFile, samplesFile, calibration, recording, recorded, aged>>
  BY DEF CollectorReads, NobodyHolds, sampleFiles
<1>2. step' \in [Processes -> Places] /\ step'["collector"] = "read" /\ step'["worker"] = step["worker"]
  BY <1>1, SevenPlaces, WentCollector DEF CInv
<1>3. CTyped'
  BY <1>1, <1>2, EmptyLists DEF CInv, CTyped
<1>4. CTraced' /\ COld' /\ CReport'
  BY <1>1, EmptyLists DEF CInv, CTraced, COld, Past, CReport
<1>5. ASSUME clean' PROVE CBalanced'
  <2>1. CBalanced /\ step["worker"] = "idle" /\ Balanced(ToSet(pendingFile.rows), samplesFile.rows)
    BY <1>1, <1>5 DEF CInv, CBalanced
  <2>2. Balanced(ToSet(pendingFile.rows), samplesFile.rows)'
    BY <1>1, <2>1 DEF Balanced
  <2> QED BY <1>1, <1>2, <2>1, <2>2 DEF CBalanced
<1>6. CQuoted'
  <2>1. ASSUME NEW symbol \in collector'.due PROVE DueIn(recorded, symbol, now)
    <3>1. PICK i \in DOMAIN pendingFile.rows :
            Age(pendingFile.rows[i]) >= Horizon /\ pendingFile.rows[i].symbol = symbol
      BY <1>1, <2>1 DEF DueSymbols
    <3>2. pendingFile.rows \in Seq(Row)
      BY DEF CInv, CTyped, Listed
    <3>3. pendingFile.rows[i] \in Row /\ pendingFile.rows[i] \in ToSet(pendingFile.rows)
      BY <3>2, SetOf
    <3>4. pendingFile.rows[i] \in recorded
      BY <3>3 DEF CInv, CTraced
    <3> QED BY <3>1, <3>3, <3>4 DEF DueIn, Age
  <2>2. CAsked'
    BY <1>1, <2>1 DEF CAsked
  <2>3. CPriced'
    BY <1>2 DEF CPriced
  <2>4. CBacked'
    BY <1>1, NothingBacked DEF CInv, CQuoted, CBacked
  <2> QED BY <2>2, <2>3, <2>4 DEF CQuoted
<1> QED BY <1>3, <1>4, <1>5, <1>6 DEF CInv

LEMMA CollectorQuotesKeeps == ASSUME CInv, CollectorQuotes PROVE CInv'
<1>1. /\ step["collector"] = "read" /\ Goes("collector", "quoted")
      /\ collector'.rows = collector.rows /\ collector'.quotedAt = now /\ collector'.price \in Quotes
      /\ collector'.kept = <<>> /\ collector'.all = <<>>
      /\ UNCHANGED <<now, pendingFile, samplesFile, calibration, recording, recorded, aged, clean>>
  BY DEF CollectorQuotes, NobodyHolds, sampleFiles, traced
<1>2. step' \in [Processes -> Places] /\ step'["collector"] = "quoted" /\ step'["worker"] = step["worker"]
  BY <1>1, SevenPlaces, WentCollector DEF CInv
<1>3. CTyped'
  BY <1>1, <1>2, EmptyLists DEF CInv, CTyped
<1>4. CTraced' /\ COld' /\ CReport'
  BY <1>1, EmptyLists DEF CInv, CTraced, COld, Past, CReport
<1>5. ASSUME clean' PROVE CBalanced'
  <2>1. /\ CBalanced /\ step["worker"] = "idle" /\ collector.rows = pendingFile.rows
        /\ Balanced(ToSet(pendingFile.rows), samplesFile.rows)
    BY <1>1, <1>5 DEF CInv, CBalanced
  <2>2. Balanced(ToSet(pendingFile.rows), samplesFile.rows)'
    BY <1>1, <2>1 DEF Balanced
  <2> QED BY <1>1, <1>2, <2>1, <2>2 DEF CBalanced
<1>6. CQuoted'
  <2>1. PICK quoted \in SUBSET collector.due : collector'.price \in [quoted -> Prices]
    BY <1>1 DEF Quotes
  <2>2. \A symbol \in quoted : DueIn(recorded, symbol, now)
    BY <1>1, <2>1 DEF CInv, CQuoted, CAsked
  <2>3. now \in Nat /\ now <= now /\ Listed(collector.rows, now)
    BY DEF CInv, CTyped
  <2>4. CPriced'
    BY <1>1, <2>1, <2>2, <2>3 DEF CPriced
  <2>5. CAsked'
    BY <1>2 DEF CAsked
  <2>6. CBacked'
    BY <1>1, NothingBacked DEF CInv, CQuoted, CBacked
  <2> QED BY <2>4, <2>5, <2>6 DEF CQuoted
<1> QED BY <1>3, <1>4, <1>5, <1>6 DEF CInv

(* The samples of a pass are of the rows it matured, each measured once.      *)
LEMMA NewSamples ==
  ASSUME now \in Nat, NEW old, Listed(old, now), NEW quoted, NEW price \in [quoted -> Prices],
         \A r \in ToSet(old) : Matures(r, price),
         collector.quotedAt \in Nat, collector.quotedAt <= now, UpTo(old, collector.quotedAt),
         NEW new, new = [i \in DOMAIN old |-> Sample(old[i], price)]
  PROVE  /\ new \in Seq(Measured) /\ RowsOf(new) = ToSet(old) /\ Once(new)
         /\ \A i \in 1..Len(new) : new[i].quotedAt = collector.quotedAt /\ new[i].row.symbol \in quoted
<1>1. old \in Seq(Row) /\ InOrder(old) /\ Len(old) \in Nat /\ DOMAIN old = 1..Len(old)
  BY LenProperties DEF Listed
<1>2. ASSUME NEW i \in 1..Len(old) 
         PROVE /\ Sample(old[i], price) \in Measured /\ Sample(old[i], price).row = old[i]
               /\ Sample(old[i], price).quotedAt = collector.quotedAt /\ old[i].symbol \in quoted
  <2>1. old[i] \in Row /\ old[i] \in ToSet(old) /\ old[i].scoredAt <= collector.quotedAt
    BY <1>1, SetOf DEF UpTo
  <2> QED BY <2>1, SampleMeasured
<1>3. new = [i \in 1..Len(old) |-> Sample(old[i], price)]
  BY <1>1
<1>4. \A i \in 1..Len(old) : new[i] = Sample(old[i], price)
  BY <1>3
<1>5. new \in [1..Len(old) -> Measured]
  BY <1>2, <1>3
<1>6. new \in Seq(Measured) /\ Len(new) = Len(old)
  <2>1. new \in Seq(Measured)
    BY <1>1, <1>5, IsASeq
  <2>2. DOMAIN new = 1..Len(new) /\ DOMAIN new = 1..Len(old) /\ Len(new) \in Nat
    BY <1>5, <2>1, LenProperties
  <2> QED BY <1>1, <2>1, <2>2
<1>7. \A i \in 1..Len(new) : new[i].row = old[i]
  BY <1>2, <1>4, <1>6
<1>8. RowsOf(new) = ToSet(old)
  BY <1>1, <1>6, <1>7, SetOf DEF RowsOf
<1>9. ASSUME NEW i \in 1..Len(new), NEW j \in 1..Len(new), i # j PROVE new[i].row # new[j].row
  <2>1. i < j \/ j < i
    BY <1>9
  <2>2. old[i] # old[j]
    BY <1>1, <1>6, <2>1 DEF InOrder
  <2> QED BY <1>7, <2>2
<1>10. \A i \in 1..Len(new) : new[i].quotedAt = collector.quotedAt /\ new[i].row.symbol \in quoted
  BY <1>2, <1>4, <1>6, <1>7
<1> QED BY <1>6, <1>8, <1>9, <1>10 DEF Once

LEMMA OldEnough ==
  ASSUME now \in Nat, NEW row \in Row, Age(row) >= Horizon
  PROVE  row.scoredAt < now
<1>1. row.scoredAt \in Nat /\ Horizon \in Nat /\ Horizon # 0
  BY CalibrationAssumption DEF Row
<1> QED BY <1>1 DEF Age

LEMMA BackedJoined ==
  ASSUME NEW rows, NEW a \in Seq(Measured), NEW b \in Seq(Measured), BackedBy(rows, a), BackedBy(rows, b)
  PROVE  BackedBy(rows, a \o b)
<1> DEFINE c == a \o b
<1>1. Len(a) \in Nat /\ Len(b) \in Nat /\ Len(c) = Len(a) + Len(b)
  BY ConcatProperties, LenProperties
<1>2. \A i \in 1..(Len(a) + Len(b)) : c[i] = IF i <= Len(a) THEN a[i] ELSE b[i - Len(a)]
  BY ConcatProperties
<1> HIDE DEF c
<1>3. ASSUME NEW i \in 1..Len(c) PROVE DueIn(rows, c[i].row.symbol, c[i].quotedAt)
  <2>1. CASE i <= Len(a)
    BY <1>1, <1>2, <2>1 DEF BackedBy
  <2>2. CASE ~(i <= Len(a))
    <3>1. i - Len(a) \in 1..Len(b) /\ c[i] = b[i - Len(a)]
      BY <1>1, <1>2, <2>2
    <3> QED BY <3>1 DEF BackedBy
  <2> QED BY <2>1, <2>2
<1> QED BY <1>3 DEF BackedBy, c

LEMMA CollectorMaturesKeeps == ASSUME CInv, CollectorMatures PROVE CInv'
<1> DEFINE rows == collector.rows
           price == collector.price
<1>1. /\ step["collector"] = "quoted" /\ Goes("collector", "matured")
      /\ UNCHANGED <<now, pendingFile, samplesFile, calibration, recording, recorded, clean>>
  BY DEF CollectorMatures, sampleFiles
<1>2. step' \in [Processes -> Places] /\ step'["collector"] = "matured" /\ step'["worker"] = step["worker"]
  BY <1>1, SevenPlaces, WentCollector DEF CInv
<1>4. PICK quoted : /\ price \in [quoted -> Prices]
                    /\ \A symbol \in quoted : DueIn(recorded, symbol, collector.quotedAt)
  BY <1>1 DEF CInv, CQuoted, CPriced
<1> DEFINE matured == {row \in ToSet(rows) : Matures(row, price)}
           kept == {row \in ToSet(rows) : Remains(row, price)}
           gone == ToSet(rows) \ (matured \cup kept)
           old == Picked(rows, matured)
           new == [i \in DOMAIN old |-> Sample(old[i], price)]
<1>5. /\ collector'.rows = <<>> /\ collector'.kept = Picked(rows, kept)
      /\ collector'.all = samplesFile.rows \o new /\ aged' = aged \cup gone
  BY DEF CollectorMatures, NobodyHolds
<1>3. /\ collector.quotedAt \in Nat /\ collector.quotedAt <= now
      /\ Listed(rows, collector.quotedAt)
  BY <1>1 DEF CInv, CQuoted, CPriced
<1>6. /\ now \in Nat /\ Listed(rows, now) /\ rows \in Seq(Row) /\ ToSet(rows) \subseteq Row
      /\ samplesFile.rows \in Seq(Measured)
  <2>1. now \in Nat /\ Listed(rows, now) /\ samplesFile.rows \in Seq(Measured)
    BY DEF CInv, CTyped
  <2>2. rows \in Seq(Row)
    BY <2>1 DEF Listed
  <2> QED BY <2>1, <2>2, SetOf
<1>7. /\ matured \subseteq ToSet(rows) /\ kept \subseteq ToSet(rows) /\ gone \subseteq ToSet(rows)
      /\ ToSet(rows) \subseteq matured \cup kept \cup gone
      /\ matured \cap kept = {} /\ gone \cap (matured \cup kept) = {}
  BY DEF Remains
<1>8. Past(matured) /\ Past(gone)
  <2>1. \A r \in matured : r \in Row /\ Age(r) >= Horizon
    BY <1>6 DEF Matures
  <2>2. ASSUME NEW r \in gone PROVE r \in Row /\ Age(r) >= Horizon
    <3>1. r \in Row /\ ~Matures(r, price) /\ ~Remains(r, price)
      BY <1>6
    <3>2. Age(r) \in Int /\ Horizon \in Int
      BY <1>6, <3>1, CalibrationAssumption DEF Age, Row
    <3> QED BY <3>1, <3>2 DEF Remains
  <2> HIDE DEF matured, gone
  <2> QED BY <1>6, <2>1, <2>2, OldEnough DEF Past
<1>9. Listed(old, now) /\ ToSet(old) = matured /\ \A r \in ToSet(old) : Matures(r, price)
  <2>1. Listed(old, now)
    BY <1>6, PickedListed
  <2>2. ToSet(old) = ToSet(rows) \cap matured
    BY <1>6, PickedIs
  <2>3. \A r \in matured : Matures(r, price)
    OBVIOUS
  <2> HIDE DEF matured, old
  <2> QED BY <1>7, <2>1, <2>2, <2>3
<1>10. Listed(collector'.kept, now) /\ ToSet(collector'.kept) = kept
  <2>1. Listed(Picked(rows, kept), now)
    BY <1>6, PickedListed
  <2>2. ToSet(Picked(rows, kept)) = ToSet(rows) \cap kept
    BY <1>6, PickedIs
  <2> HIDE DEF kept
  <2> QED BY <1>5, <1>7, <2>1, <2>2
<1>18. UpTo(old, collector.quotedAt)
  BY <1>3, PickedListed DEF Listed
<1>11. /\ new \in Seq(Measured) /\ RowsOf(new) = matured /\ Once(new)
       /\ \A i \in 1..Len(new) : new[i].quotedAt = collector.quotedAt /\ new[i].row.symbol \in quoted
  <2> HIDE DEF old, matured, price
  <2> QED BY <1>3, <1>4, <1>6, <1>9, <1>18, NewSamples
<1>19. BackedBy(recorded, new)
  <2> HIDE DEF old, new
  <2> QED BY <1>4, <1>11 DEF BackedBy
<1> HIDE DEF matured, kept, gone, old, new, price
<1>12. /\ collector'.all \in Seq(Measured)
       /\ RowsOf(collector'.all) = RowsOf(samplesFile.rows) \cup matured
       /\ (Once(samplesFile.rows) /\ RowsOf(samplesFile.rows) \cap matured = {}) => Once(collector'.all)
  BY <1>5, <1>6, <1>11, SamplesJoined
<1>13. CTyped'
  <2>1. aged' \subseteq Row
    BY <1>5, <1>6, <1>7 DEF CInv, CTyped
  <2>2. Listed(collector'.rows, now)
    BY <1>5, EmptyLists
  <2> QED BY <1>1, <1>2, <1>10, <1>12, <2>1, <2>2 DEF CInv, CTyped
<1>14. CTraced'
  <2>1. ToSet(collector'.rows) = {}
    BY <1>5, EmptyLists
  <2>2. ToSet(rows) \subseteq recorded /\ RowsOf(samplesFile.rows) \subseteq recorded /\ aged \subseteq recorded
    BY DEF CInv, CTraced
  <2> QED BY <1>1, <1>5, <1>7, <1>10, <1>12, <2>1, <2>2 DEF CInv, CTraced
<1>15. COld'
  BY <1>1, <1>5, <1>8, <1>12 DEF CInv, COld, Past
<1>16. CReport'
  BY <1>1 DEF CInv, CReport
<1>17. ASSUME clean' PROVE CBalanced'
  <2>1. /\ step["worker"] = "idle" /\ rows = pendingFile.rows
        /\ Balanced(ToSet(rows), samplesFile.rows)
    <3>1. CBalanced
      BY <1>1, <1>17 DEF CInv
    <3> QED BY <1>1, <3>1 DEF CBalanced
  <2>2. /\ recorded \subseteq ToSet(rows) \cup RowsOf(samplesFile.rows) \cup aged
        /\ ToSet(rows) \cap RowsOf(samplesFile.rows) = {} /\ ToSet(rows) \cap aged = {}
        /\ RowsOf(samplesFile.rows) \cap aged = {} /\ Once(samplesFile.rows)
    BY <2>1 DEF Balanced
  <2>3. Once(collector'.all)
    BY <1>7, <1>12, <2>2
  <2> HIDE DEF rows
  <2>4. /\ recorded \subseteq kept \cup RowsOf(collector'.all) \cup aged'
        /\ kept \cap RowsOf(collector'.all) = {} /\ kept \cap aged' = {}
        /\ RowsOf(collector'.all) \cap aged' = {}
    BY <1>5, <1>7, <1>12, <2>2
  <2>5. Balanced(ToSet(collector.kept), collector.all)'
    BY <1>1, <1>10, <2>3, <2>4 DEF Balanced
  <2> QED BY <1>2, <2>1, <2>5 DEF CBalanced
<1>20. CQuoted'
  <2>1. BackedBy(recorded, samplesFile.rows)
    BY DEF CInv, CQuoted, CBacked
  <2>2. BackedBy(recorded, collector'.all)
    BY <1>5, <1>6, <1>11, <1>19, <2>1, BackedJoined
  <2>3. CBacked'
    BY <1>1, <2>1, <2>2 DEF CBacked
  <2> QED BY <1>2, <2>3, QuotedElsewhere
<1> QED BY <1>13, <1>14, <1>15, <1>16, <1>17, <1>20 DEF CInv

LEMMA CollectorTruncatesSamplesKeeps ==
  ASSUME CInv, CollectorTruncates("matured", "samples") PROVE CInv'
<1>1. /\ step["collector"] = "matured" /\ Goes("collector", "samples")
      /\ samplesFile'.rows = <<>>
      /\ UNCHANGED <<now, pendingFile, calibration, recording, collector, recorded, aged, clean>>
  BY DEF CollectorTruncates, Torn, traced
<1>2. step' \in [Processes -> Places] /\ step'["collector"] = "samples" /\ step'["worker"] = step["worker"]
  BY <1>1, SevenPlaces, WentCollector DEF CInv
<1>3. CTyped'
  BY <1>1, <1>2, EmptyLists DEF CInv, CTyped
<1>4. CTraced' /\ COld' /\ CReport'
  BY <1>1, EmptyLists DEF CInv, CTraced, COld, Past, CReport
<1>5. ASSUME clean' PROVE CBalanced'
  <2>1. CBalanced /\ step["worker"] = "idle" /\ Balanced(ToSet(collector.kept), collector.all)
    BY <1>1, <1>5 DEF CInv, CBalanced
  <2>2. Balanced(ToSet(collector.kept), collector.all)'
    BY <1>1, <2>1 DEF Balanced
  <2> QED BY <1>2, <2>1, <2>2 DEF CBalanced
<1>6. CQuoted'
  <2>1. CBacked'
    BY <1>1, NothingBacked DEF CInv, CQuoted, CBacked
  <2> QED BY <1>2, <2>1, QuotedElsewhere
<1> QED BY <1>3, <1>4, <1>5, <1>6 DEF CInv

LEMMA CollectorWritesSamplesKeeps == ASSUME CInv, CollectorWritesSamples PROVE CInv'
<1>1. /\ step["collector"] = "samples" /\ Goes("collector", "sampled")
      /\ samplesFile'.rows = collector.all
      /\ UNCHANGED <<now, pendingFile, calibration, recording, collector, recorded, aged, clean>>
  BY DEF CollectorWritesSamples, File, traced
<1>2. step' \in [Processes -> Places] /\ step'["collector"] = "sampled" /\ step'["worker"] = step["worker"]
  BY <1>1, SevenPlaces, WentCollector DEF CInv
<1>3. CTyped'
  BY <1>1, <1>2 DEF CInv, CTyped
<1>4. CTraced' /\ COld' /\ CReport'
  BY <1>1 DEF CInv, CTraced, COld, Past, CReport
<1>5. ASSUME clean' PROVE CBalanced'
  <2>1. CBalanced /\ step["worker"] = "idle" /\ Balanced(ToSet(collector.kept), collector.all)
    BY <1>1, <1>5 DEF CInv, CBalanced
  <2>2. Balanced(ToSet(collector.kept), samplesFile.rows)'
    BY <1>1, <2>1 DEF Balanced
  <2> QED BY <1>2, <2>1, <2>2 DEF CBalanced
<1>6. CQuoted'
  <2>1. CBacked'
    BY <1>1 DEF CInv, CQuoted, CBacked
  <2> QED BY <1>2, <2>1, QuotedElsewhere
<1> QED BY <1>3, <1>4, <1>5, <1>6 DEF CInv

LEMMA CollectorTruncatesPendingKeeps ==
  ASSUME CInv, CollectorTruncates("sampled", "pending") PROVE CInv'
<1>1. /\ step["collector"] = "sampled" /\ Goes("collector", "pending")
      /\ pendingFile'.rows = <<>>
      /\ UNCHANGED <<now, samplesFile, calibration, recording, collector, recorded, aged, clean>>
  <2>1. "pending" # "samples"
    OBVIOUS
  <2> QED BY <2>1 DEF CollectorTruncates, Torn, traced
<1>2. step' \in [Processes -> Places] /\ step'["collector"] = "pending" /\ step'["worker"] = step["worker"]
  BY <1>1, SevenPlaces, WentCollector DEF CInv
<1>3. CTyped'
  BY <1>1, <1>2, EmptyLists DEF CInv, CTyped
<1>4. CTraced' /\ COld' /\ CReport'
  BY <1>1, EmptyLists DEF CInv, CTraced, COld, Past, CReport
<1>5. ASSUME clean' PROVE CBalanced'
  <2>1. CBalanced /\ step["worker"] = "idle" /\ Balanced(ToSet(collector.kept), samplesFile.rows)
    BY <1>1, <1>5 DEF CInv, CBalanced
  <2>2. Balanced(ToSet(collector.kept), samplesFile.rows)'
    BY <1>1, <2>1 DEF Balanced
  <2> QED BY <1>2, <2>1, <2>2 DEF CBalanced
<1>6. CQuoted'
  <2>1. CBacked'
    BY <1>1 DEF CInv, CQuoted, CBacked
  <2> QED BY <1>2, <2>1, QuotedElsewhere
<1> QED BY <1>3, <1>4, <1>5, <1>6 DEF CInv

LEMMA CollectorWritesPendingKeeps == ASSUME CInv, CollectorWritesPending PROVE CInv'
<1>1. /\ step["collector"] = "pending" /\ Goes("collector", "idle")
      /\ pendingFile'.rows = collector.kept
      /\ collector'.rows = <<>> /\ collector'.kept = <<>> /\ collector'.all = <<>>
      /\ UNCHANGED <<now, samplesFile, calibration, recording, recorded, aged, clean>>
  BY DEF CollectorWritesPending, File, NobodyHolds, traced
<1>2. step' \in [Processes -> Places] /\ step'["collector"] = "idle" /\ step'["worker"] = step["worker"]
  BY <1>1, SevenPlaces, WentCollector DEF CInv
<1>3. CTyped'
  BY <1>1, <1>2, EmptyLists DEF CInv, CTyped
<1>4. CTraced' /\ COld' /\ CReport'
  BY <1>1, EmptyLists DEF CInv, CTraced, COld, Past, CReport
<1>5. ASSUME clean' PROVE CBalanced'
  <2>1. CBalanced /\ step["worker"] = "idle" /\ Balanced(ToSet(collector.kept), samplesFile.rows)
    BY <1>1, <1>5 DEF CInv, CBalanced
  <2>2. Balanced(ToSet(pendingFile.rows), samplesFile.rows)'
    BY <1>1, <2>1 DEF Balanced
  <2> QED BY <1>2, <2>1, <2>2 DEF CBalanced
<1>6. CQuoted'
  <2>1. CBacked'
    BY <1>1, NothingBacked DEF CInv, CQuoted, CBacked
  <2> QED BY <1>2, <2>1, QuotedElsewhere
<1> QED BY <1>3, <1>4, <1>5, <1>6 DEF CInv

LEMMA WorkerDiesKeeps == ASSUME CInv, Dies("worker") PROVE CInv'
<1>1. /\ Goes("worker", "idle") /\ clean' = (clean /\ step["worker"] \in {"read", "quoted"}) /\ recording' = <<>>
      /\ UNCHANGED <<now, pendingFile, samplesFile, calibration, collector, recorded, aged>>
  BY DEF Dies, sampleFiles
<1>2. step' \in [Processes -> Places] /\ step'["worker"] = "idle" /\ step'["collector"] = step["collector"]
  BY <1>1, SevenPlaces, WentWorker DEF CInv
<1>3. CTyped'
  BY <1>1, <1>2, EmptyLists DEF CInv, CTyped
<1>4. CTraced' /\ COld' /\ CReport'
  BY <1>1 DEF CInv, CTraced, COld, Past, CReport
<1>5. ASSUME clean' PROVE CBalanced'
  <2>1. CBalanced /\ step["collector"] = "idle" /\ Balanced(ToSet(pendingFile.rows), samplesFile.rows)
    BY <1>1, <1>5 DEF CInv, CTyped, CBalanced
  <2>2. Balanced(ToSet(pendingFile.rows), samplesFile.rows)'
    BY <1>1, <2>1 DEF Balanced
  <2> QED BY <1>2, <2>1, <2>2 DEF CBalanced
<1>9. CQuoted'
  <2>1. now \in Nat /\ now <= now
    BY DEF CInv, CTyped
  <2> QED BY <1>1, <1>2, <2>1, QuotedStill
<1> QED BY <1>3, <1>4, <1>5, <1>9 DEF CInv

LEMMA CollectorDiesKeeps == ASSUME CInv, Dies("collector") PROVE CInv'
<1>1. /\ Goes("collector", "idle") /\ clean' = (clean /\ step["collector"] \in {"read", "quoted"})
      /\ collector'.rows = <<>> /\ collector'.kept = <<>> /\ collector'.all = <<>>
      /\ UNCHANGED <<now, pendingFile, samplesFile, calibration, recording, recorded, aged>>
  <2>1. "collector" # "worker"
    OBVIOUS
  <2> QED BY <2>1 DEF Dies, sampleFiles, NobodyHolds
<1>2. step' \in [Processes -> Places] /\ step'["collector"] = "idle" /\ step'["worker"] = step["worker"]
  BY <1>1, SevenPlaces, WentCollector DEF CInv
<1>3. CTyped'
  BY <1>1, <1>2, EmptyLists DEF CInv, CTyped
<1>4. CTraced' /\ COld' /\ CReport'
  BY <1>1, EmptyLists DEF CInv, CTraced, COld, Past, CReport
<1>5. ASSUME clean' PROVE CBalanced'
  <2>1. CBalanced /\ step["worker"] = "idle" /\ Balanced(ToSet(pendingFile.rows), samplesFile.rows)
    BY <1>1, <1>5 DEF CInv, CBalanced
  <2>2. Balanced(ToSet(pendingFile.rows), samplesFile.rows)'
    BY <1>1, <2>1 DEF Balanced
  <2> QED BY <1>2, <2>1, <2>2 DEF CBalanced
<1>6. CQuoted'
  <2>1. CBacked'
    BY <1>1, NothingBacked DEF CInv, CQuoted, CBacked
  <2> QED BY <1>2, <2>1, QuotedElsewhere
<1> QED BY <1>3, <1>4, <1>5, <1>6 DEF CInv

LEMMA CalibrateEdgeKeeps == ASSUME CInv, CalibrateEdge PROVE CInv'
<1>1. /\ calibration' = {[generatedAt |-> now,
                          bands |-> BuildCalibrationReport(samplesFile.rows),
                          byFamily |-> BuildPerFamilyCalibration(samplesFile.rows)]}
      /\ UNCHANGED <<now, pendingFile, samplesFile, step, recording, collector, recorded, aged, clean>>
  BY DEF CalibrateEdge, sampleFiles, traced
<1>2. CTyped' /\ CTraced' /\ COld'
  BY <1>1 DEF CInv, CTyped, CTraced, COld, Past
<1>3. (clean => CBalanced)'
  BY <1>1 DEF CInv, CBalanced, Balanced
<1>4. samplesFile.rows \in Seq(Measured)
  BY DEF CInv, CTyped
<1>5. CReport'
  BY <1>1, <1>4 DEF CReport
<1>9. CQuoted'
  <2>1. now \in Nat /\ now <= now
    BY DEF CInv, CTyped
  <2> QED BY <1>1, <1>1, <2>1, QuotedStill
<1> QED BY <1>2, <1>3, <1>5, <1>9 DEF CInv

LEMMA CalibrationStill == ASSUME CInv, UNCHANGED calibrationVars PROVE CInv'
<1>1. UNCHANGED <<now, pendingFile, samplesFile, calibration, step, recording, collector, recorded, aged, clean>>
  BY DEF calibrationVars, sampleFiles, traced
<1>2. CQuoted'
  <2>1. now \in Nat /\ now <= now
    BY DEF CInv, CTyped
  <2> QED BY <1>1, <2>1, QuotedStill
<1> QED BY <1>1, <1>2 DEF CInv, CTyped, CTraced, COld, Past, CBalanced, Balanced, CReport

LEMMA CalibrationKeeps == ASSUME CInv, [CalibrationNext]_calibrationVars PROVE CInv'
<1>1. CASE Hour
  BY <1>1, HourKeeps
<1>2. CASE WorkerReads \/ WorkerTruncates \/ WorkerWrites
  BY <1>2, WorkerReadsKeeps, WorkerTruncatesKeeps, WorkerWritesKeeps
<1>3. CASE CollectorReads \/ CollectorQuotes \/ CollectorMatures
  BY <1>3, CollectorReadsKeeps, CollectorQuotesKeeps, CollectorMaturesKeeps
<1>4. CASE CollectorTruncates("matured", "samples") \/ CollectorWritesSamples
  BY <1>4, CollectorTruncatesSamplesKeeps, CollectorWritesSamplesKeeps
<1>5. CASE CollectorTruncates("sampled", "pending") \/ CollectorWritesPending
  BY <1>5, CollectorTruncatesPendingKeeps, CollectorWritesPendingKeeps
<1>6. CASE \E p \in Processes : Dies(p)
  BY <1>6, TheTwo, WorkerDiesKeeps, CollectorDiesKeeps
<1>7. CASE CalibrateEdge
  BY <1>7, CalibrateEdgeKeeps
<1>8. CASE UNCHANGED calibrationVars
  BY <1>8, CalibrationStill
<1> QED BY <1>1, <1>2, <1>3, <1>4, <1>5, <1>6, <1>7, <1>8 DEF CalibrationNext

LEMMA CalibrationInvariant == CalibrationSpec => []CInv
<1>1. CInv /\ [CalibrationNext]_calibrationVars => CInv'
  BY CalibrationKeeps
<1> QED BY <1>1, CalibrationStarts, PTL DEF CalibrationSpec

-----------------------------------------------------------------------------
(* A sum over a set, which MapThenSumSet folds. *)

Pick(s) == CHOOSE x \in s : TRUE
Folded(w, s, it) == IF s = {} THEN 0 ELSE w[Pick(s)] + it[s \ {Pick(s)}]
IsFold(it, w, D) == it = [s \in SUBSET D |-> Folded(w, s, it)]

(* A fold is defined on sets of every size: one that is defined up to a      *)
(* size gives one that is defined for a member more.                         *)
LEMMA FoldExists ==
  ASSUME NEW D, IsFiniteSet(D), NEW w
  PROVE  \E it : IsFold(it, w, D)
<1> DEFINE Sub(n) == {s \in SUBSET D : Cardinality(s) <= n}
           UpToSize(n) == \E it : it = [s \in Sub(n) |-> Folded(w, s, it)]
           Bad == {n \in Nat : ~UpToSize(n)}
<1>0. \A s \in SUBSET D : IsFiniteSet(s) /\ Cardinality(s) \in Nat
  BY FS_Subset, FS_CardinalityType
<1>1. UpToSize(0)
  <2> DEFINE it == [s \in Sub(0) |-> 0]
  <2>1. \A s \in Sub(0) : s = {}
    BY <1>0, FS_EmptySet
  <2>2. \A s \in Sub(0) : Folded(w, s, it) = 0
    BY <2>1 DEF Folded
  <2>3. it = [s \in Sub(0) |-> Folded(w, s, it)]
    BY <2>2
  <2> QED BY <2>3
<1>2. ASSUME NEW n \in Nat, UpToSize(n) PROVE UpToSize(n + 1)
  <2>1. PICK it : it = [s \in Sub(n) |-> Folded(w, s, it)]
    BY <1>2
  <2> DEFINE longer == [s \in Sub(n + 1) |-> Folded(w, s, it)]
  <2>2. \A s \in Sub(n + 1) : s # {} => s \ {Pick(s)} \in Sub(n) /\ s \ {Pick(s)} \in Sub(n + 1)
    <3> SUFFICES ASSUME NEW s \in Sub(n + 1), s # {}
                 PROVE  s \ {Pick(s)} \in Sub(n) /\ s \ {Pick(s)} \in Sub(n + 1)
      OBVIOUS
    <3>1. Pick(s) \in s
      BY DEF Pick
    <3>2. Cardinality(s \ {Pick(s)}) = Cardinality(s) - 1 /\ Cardinality(s) \in Nat
      BY <1>0, <3>1, SmallerByOne
    <3> QED BY <3>2
  <2>3. \A s \in Sub(n) : s \in Sub(n + 1)
    BY <1>0
  <2>4. \A s \in Sub(n) : longer[s] = it[s]
    <3> SUFFICES ASSUME NEW s \in Sub(n) PROVE longer[s] = it[s]
      OBVIOUS
    <3>1. it[s] = Folded(w, s, it)
      BY <2>1
    <3>2. longer[s] = Folded(w, s, it)
      BY <2>3
    <3> QED BY <3>1, <3>2
  <2> HIDE DEF longer
  <2>5. \A s \in Sub(n + 1) : Folded(w, s, longer) = Folded(w, s, it)
    <3> SUFFICES ASSUME NEW s \in Sub(n + 1) PROVE Folded(w, s, longer) = Folded(w, s, it)
      OBVIOUS
    <3>1. CASE s = {}
      BY <3>1 DEF Folded
    <3>2. CASE s # {}
      <4>1. longer[s \ {Pick(s)}] = it[s \ {Pick(s)}]
        BY <2>2, <2>4, <3>2
      <4> QED BY <4>1 DEF Folded
    <3> QED BY <3>1, <3>2
  <2>6. longer = [s \in Sub(n + 1) |-> Folded(w, s, longer)]
    BY <2>5 DEF longer
  <2> QED BY <2>6
<1> HIDE DEF UpToSize
<1>3. Bad = {}
  <2> SUFFICES ASSUME Bad # {} PROVE FALSE
    OBVIOUS
  <2>1. Bad \in SUBSET Nat
    OBVIOUS
  <2>2. PICK m \in Bad : \A k \in Bad : m <= k
    BY <2>1, LeastNat
  <2>3. m \in Nat /\ ~UpToSize(m)
    OBVIOUS
  <2>4. m # 0 /\ m - 1 \in Nat /\ ~(m <= m - 1) /\ (m - 1) + 1 = m
    BY <1>1, <2>3
  <2>5. m - 1 \notin Bad
    BY <2>2, <2>4
  <2>6. UpToSize(m - 1)
    BY <2>4, <2>5
  <2> QED BY <1>2, <2>3, <2>4, <2>6
<1>4. UpToSize(Cardinality(D))
  BY <1>0, <1>3
<1>5. Sub(Cardinality(D)) = SUBSET D
  <2>1. \A s \in SUBSET D : Cardinality(s) <= Cardinality(D)
    BY FS_Subset
  <2> QED BY <2>1
<1>6. PICK it : it = [s \in Sub(Cardinality(D)) |-> Folded(w, s, it)]
  BY <1>4 DEF UpToSize
<1>7. IsFold(it, w, D)
  BY <1>5, <1>6 DEF IsFold
<1> QED BY <1>7

(* A sum of what is never positive is not. *)
LEMMA FoldNotPositive ==
  ASSUME NEW D, IsFiniteSet(D), NEW w, \A x \in D : w[x] \in Int /\ w[x] <= 0,
         NEW it, IsFold(it, w, D)
  PROVE  it[D] \in Int /\ it[D] <= 0
<1> DEFINE Bad == {s \in SUBSET D : ~(it[s] \in Int /\ it[s] <= 0)}
<1>1. \A s \in SUBSET D : it[s] = Folded(w, s, it)
  BY DEF IsFold
<1>2. Bad = {}
  <2> SUFFICES ASSUME Bad # {} PROVE FALSE
    OBVIOUS
  <2>1. \A s \in Bad : IsFiniteSet(s)
    BY FS_Subset
  <2>2. PICK s \in Bad : \A t \in Bad : Cardinality(s) <= Cardinality(t)
    BY <2>1, SmallestSet
  <2>3. s \in SUBSET D /\ ~(it[s] \in Int /\ it[s] <= 0) /\ IsFiniteSet(s)
    BY <2>1
  <2>4. CASE s = {}
    <3>1. it[s] = 0
      BY <1>1, <2>3, <2>4 DEF Folded
    <3> QED BY <2>3, <3>1
  <2>5. CASE s # {}
    <3> DEFINE t == s \ {Pick(s)}
    <3>1. Pick(s) \in s
      BY <2>5 DEF Pick
    <3>2. t \in SUBSET D /\ Cardinality(t) = Cardinality(s) - 1 /\ Cardinality(s) \in Nat
      BY <2>3, <3>1, SmallerByOne
    <3>3. it[s] = w[Pick(s)] + it[t]
      BY <1>1, <2>3, <2>5 DEF Folded
    <3> HIDE DEF t
    <3>4. t \notin Bad
      <4>1. ~(Cardinality(s) <= Cardinality(t))
        BY <3>2
      <4> QED BY <2>2, <4>1
    <3>5. it[t] \in Int /\ it[t] <= 0
      BY <3>2, <3>4
    <3>6. w[Pick(s)] \in Int /\ w[Pick(s)] <= 0
      BY <2>3, <3>1
    <3> HIDE DEF Bad
    <3> QED BY <2>3, <3>3, <3>5, <3>6
  <2> QED BY <2>4, <2>5
<1> QED BY <1>2

LEMMA PartNotPositive == \A a \in Int, n \in Nat \ {0} : a <= 0 => ~(a \div n > 0)
OBVIOUS

LEMMA BandIsFinite ==
  ASSUME NEW samples \in Seq(Measured), NEW k
  PROVE  IsFiniteSet(InBand(samples, k)) /\ InBand(samples, k) \subseteq 1..Len(samples)
<1>1. Len(samples) \in Nat /\ DOMAIN samples = 1..Len(samples)
  BY LenProperties
<1>2. InBand(samples, k) \subseteq 1..Len(samples)
  BY <1>1 DEF InBand
<1>3. IsFiniteSet(1..Len(samples))
  BY <1>1, FS_Interval
<1> QED BY <1>2, <1>3, FS_Subset

(* A band has moved up only if a sample of it has. *)
LEMMA BandEarned ==
  ASSUME NEW samples \in Seq(Measured), NEW k, BandMove(samples, k) > 0
  PROVE  \E i \in InBand(samples, k) : samples[i].moveBps > 0
<1> DEFINE band == InBand(samples, k)
           w == [i \in band |-> samples[i].moveBps]
           it == CHOOSE it : it = [s \in SUBSET band |->
                   IF s = {} THEN 0
                   ELSE samples[CHOOSE x \in s : TRUE].moveBps + it[s \ {CHOOSE x \in s : TRUE}]]
<1>1. BandMove(samples, k) = IF band = {} THEN 0 ELSE it[band] \div Cardinality(band)
  BY Zenon DEF BandMove, MapThenSumSet, MapThenFoldSet
<1>2. IsFiniteSet(band) /\ \A i \in band : samples[i].moveBps \in Int
  <2>1. \A i \in 1..Len(samples) : samples[i].moveBps \in Int
    <3>1. \A i \in 1..Len(samples) : samples[i] \in Measured
      OBVIOUS
    <3> QED BY <3>1 DEF Measured, SampleShape
  <2> QED BY <2>1, BandIsFinite
<1> HIDE DEF band
<1>3. ASSUME NEW f, NEW s \in SUBSET band
      PROVE  Folded(w, s, f) = IF s = {} THEN 0
                               ELSE samples[CHOOSE x \in s : TRUE].moveBps + f[s \ {CHOOSE x \in s : TRUE}]
  <2>1. CASE s = {}
    BY <2>1 DEF Folded
  <2>2. CASE s # {}
    <3>1. Pick(s) \in band
      BY <2>2 DEF Pick
    <3>2. w[Pick(s)] = samples[Pick(s)].moveBps
      BY <3>1
    <3> HIDE DEF w
    <3> QED BY <2>2, <3>2, Zenon DEF Folded, Pick
  <2> QED BY <2>1, <2>2
<1> HIDE DEF w
<1>4. PICK f : IsFold(f, w, band)
  BY <1>2, FoldExists
<1>5. IsFold(it, w, band)
  <2>1. \A g : [s \in SUBSET band |-> Folded(w, s, g)] =
               [s \in SUBSET band |-> IF s = {} THEN 0
                  ELSE samples[CHOOSE x \in s : TRUE].moveBps + g[s \ {CHOOSE x \in s : TRUE}]]
    BY <1>3
  <2>2. f = [s \in SUBSET band |-> IF s = {} THEN 0
               ELSE samples[CHOOSE x \in s : TRUE].moveBps + f[s \ {CHOOSE x \in s : TRUE}]]
    BY <1>4, <2>1 DEF IsFold
  <2>3. it = [s \in SUBSET band |-> IF s = {} THEN 0
               ELSE samples[CHOOSE x \in s : TRUE].moveBps + it[s \ {CHOOSE x \in s : TRUE}]]
    BY <2>2, Zenon
  <2> HIDE DEF it
  <2> QED BY <2>1, <2>3 DEF IsFold
<1> HIDE DEF it
<1>6. ASSUME \A i \in band : ~(samples[i].moveBps > 0) PROVE FALSE
  <2>1. \A i \in band : w[i] \in Int /\ w[i] <= 0
    BY <1>2, <1>6 DEF w
  <2>2. it[band] \in Int /\ it[band] <= 0
    BY <1>2, <1>5, <2>1, FoldNotPositive
  <2>3. CASE band = {}
    BY <1>1, <2>3
  <2>4. CASE band # {}
    <3>1. Cardinality(band) \in Nat \ {0}
      BY <1>2, <2>4, FS_EmptySet, FS_CardinalityType
    <3> QED BY <1>1, <2>2, <2>4, <3>1, PartNotPositive
  <2> QED BY <2>3, <2>4
<1> QED BY <1>6 DEF band

LEMMA WinsCount ==
  ASSUME NEW samples \in Seq(Measured), NEW k,
         \E i \in InBand(samples, k) : samples[i].moveBps > 0
  PROVE  HitRate(samples, k).wins > 0
<1> DEFINE won == {i \in InBand(samples, k) : samples[i].win}
<1>1. PICK i \in InBand(samples, k) : samples[i].moveBps > 0
  OBVIOUS
<1>2. i \in 1..Len(samples)
  BY BandIsFinite
<1>3. samples[i] \in Measured
  BY <1>2
<1>4. samples[i].win
  BY <1>1, <1>3 DEF Measured
<1>5. i \in won
  BY <1>4
<1>6. IsFiniteSet(won)
  BY BandIsFinite, FS_Subset
<1>7. HitRate(samples, k).wins = Cardinality(won)
  BY DEF HitRate
<1> HIDE DEF won
<1>8. Cardinality(won) \in Nat \ {0}
  BY <1>5, <1>6, FS_EmptySet, FS_CardinalityType
<1> QED BY <1>7, <1>8

(* The band of a threshold is its own: the last one it meets. *)
LEMMA OwnBand ==
  ASSUME NEW samples \in Seq(Measured), NEW k \in DOMAIN Thresholds
  PROVE  LET bands == BuildCalibrationReport(samples)
         IN  ExpectedMoveBps(bands[k].minScore, bands) = BandMove(samples, k)
<1> DEFINE bands == BuildCalibrationReport(samples)
           met == {j \in DOMAIN bands : bands[k].minScore >= bands[j].minScore}
<1>1. /\ DOMAIN bands = DOMAIN Thresholds
      /\ \A j \in DOMAIN Thresholds : bands[j].minScore = Thresholds[j] /\ bands[j].moveBps = BandMove(samples, j)
  BY DEF BuildCalibrationReport
<1>2. /\ DOMAIN Thresholds = 1..Len(Thresholds) /\ Len(Thresholds) \in Nat
      /\ \A j \in DOMAIN Thresholds : Thresholds[j] \in Int
      /\ \A i, j \in DOMAIN Thresholds : i < j => Thresholds[i] < Thresholds[j]
  BY CalibrationAssumption, LenProperties
<1> HIDE DEF bands
<1>3. k \in met
  BY <1>1, <1>2
<1>4. \A j \in met : j \in DOMAIN Thresholds /\ k >= j
  BY <1>1, <1>2
<1> HIDE DEF met
<1>5. \A m \in met : (\A j \in met : m >= j) => m = k
  BY <1>2, <1>3, <1>4
<1>6. Max(met) = k
  <2>1. Max(met) \in met /\ \A j \in met : Max(met) >= j
    BY <1>3, <1>4, Zenon DEF Max
  <2> QED BY <1>5, <2>1
<1>7. ExpectedMoveBps(bands[k].minScore, bands) = bands[Max(met)].moveBps
  BY <1>3 DEF ExpectedMoveBps, met
<1> QED BY <1>1, <1>6, <1>7 DEF bands

(* What a family earned, a sample of the whole earned. *)
LEMMA FamilyEarned ==
  ASSUME NEW samples \in Seq(Measured), NEW k, NEW f, BandMove(OfFamily(samples, f), k) > 0
  PROVE  HitRate(OfFamily(samples, f), k).wins > 0 /\ HitRate(samples, k).wins > 0
<1> DEFINE own == OfFamily(samples, f)
<1>1. own \in Seq(Measured) /\ ToSet(own) \subseteq ToSet(samples)
  BY PickedIs DEF OfFamily
<1>2. PICK i \in InBand(own, k) : own[i].moveBps > 0
  BY <1>1, BandEarned
<1>3. HitRate(own, k).wins > 0
  BY <1>1, <1>2, WinsCount
<1> HIDE DEF own
<1>4. i \in 1..Len(own)
  BY <1>1, BandIsFinite
<1>5. PICK j \in 1..Len(samples) : samples[j] = own[i]
  BY <1>1, <1>4, SetOf
<1>6. j \in InBand(samples, k)
  <2>1. DOMAIN samples = 1..Len(samples)
    BY LenProperties
  <2> QED BY <1>2, <1>5, <2>1 DEF InBand
<1>7. HitRate(samples, k).wins > 0
  BY <1>2, <1>5, <1>6, WinsCount
<1> QED BY <1>3, <1>7 DEF own

-----------------------------------------------------------------------------
(* "We never invent a realized move" (calibrationCollector.ts): for every set *)
(* of candidates and prices, every gap, horizon and any interleaving, overlap *)
(* and crash of the worker and the collector, a sample in samples.json is of  *)
(* an observation the worker recorded and was judged at least a whole horizon *)
(* after it, against a quote later than the observation.  The quote need not  *)
(* be a horizon later: it is one horizon later than some recorded observation *)
(* of the symbol, which may be an older one.                                  *)
THEOREM CalibrationMoves == CalibrationSpec => []MovesAreMeasured
<1>1. ASSUME CInv PROVE MovesAreMeasured
  <2> DEFINE s(i) == samplesFile.rows[i]
  <2> SUFFICES ASSUME NEW i \in DOMAIN samplesFile.rows
               PROVE  /\ s(i).row \in recorded
                      /\ s(i).measuredAt - s(i).row.scoredAt >= Horizon
                      /\ s(i).row.scoredAt <= s(i).quotedAt /\ s(i).quotedAt <= s(i).measuredAt
                      /\ \E due \in recorded : /\ due.symbol = s(i).row.symbol
                                              /\ s(i).quotedAt - due.scoredAt >= Horizon
    BY DEF MovesAreMeasured
  <2>1. samplesFile.rows \in Seq(Measured)
    BY <1>1 DEF CInv, CTyped
  <2>2. i \in 1..Len(samplesFile.rows)
    BY <2>1, LenProperties
  <2>3. samplesFile.rows[i] \in Measured
    BY <2>1, <2>2
  <2>4. samplesFile.rows[i].row \in RowsOf(samplesFile.rows)
    BY <2>2 DEF RowsOf
  <2>5. DueIn(recorded, samplesFile.rows[i].row.symbol, samplesFile.rows[i].quotedAt)
    BY <1>1, <2>2 DEF CInv, CQuoted, CBacked, BackedBy
  <2> QED BY <1>1, <2>3, <2>4, <2>5 DEF CInv, CTraced, Measured, DueIn
<1> QED BY <1>1, CalibrationInvariant, PTL

LEMMA OnceCounts ==
  ASSUME NEW samples \in Seq(Measured), Once(samples)
  PROVE  Cardinality(RowsOf(samples)) = Len(samples)
<1> DEFINE f == [i \in 1..Len(samples) |-> samples[i].row]
<1>1. Len(samples) \in Nat
  BY LenProperties
<1>2. f \in Bijection(1..Len(samples), RowsOf(samples))
  <2>1. \A i \in 1..Len(samples) : f[i] = samples[i].row
    OBVIOUS
  <2>2. f \in [1..Len(samples) -> RowsOf(samples)]
    BY DEF RowsOf
  <2>3. \A r \in RowsOf(samples) : \E i \in 1..Len(samples) : f[i] = r
    BY <2>1 DEF RowsOf
  <2>4. \A i, j \in 1..Len(samples) : f[i] = f[j] => i = j
    BY <2>1 DEF Once
  <2> HIDE DEF f
  <2> QED BY <2>2, <2>3, <2>4 DEF Bijection, Injection, Surjection, IsInjective
<1>3. ExistsBijection(1..Len(samples), RowsOf(samples))
  BY <1>2 DEF ExistsBijection
<1>4. IsFiniteSet(1..Len(samples)) /\ Cardinality(1..Len(samples)) = Len(samples)
  <2>1. IsFiniteSet(1..Len(samples))
        /\ Cardinality(1..Len(samples)) = IF 1 > Len(samples) THEN 0 ELSE Len(samples) - 1 + 1
    BY <1>1, FS_Interval, SMT
  <2> QED BY <1>1, <2>1
<1> QED BY <1>3, <1>4, FS_Bijection

(* For every number of hours, cycles and collector runs, and every list of    *)
(* candidates and prices: while no two passes over the files overlapped and   *)
(* none died in a write, every observation recordPending let pass is in one   *)
(* place when both processes rest, pending, sampled exactly once, or dropped  *)
(* for its age.                                                               *)
THEOREM CalibrationConserves == CalibrationSpec => []NothingLostOrDoubled
<1>1. ASSUME CInv PROVE NothingLostOrDoubled
  <2> SUFFICES ASSUME clean, \A p \in Processes : step[p] = "idle"
               PROVE  /\ recorded = ToSet(pendingFile.rows) \cup SampledRows \cup aged
                      /\ Cardinality(SampledRows) = Len(samplesFile.rows)
                      /\ SampledRows \cap (ToSet(pendingFile.rows) \cup aged) = {}
    BY DEF NothingLostOrDoubled
  <2>1. samplesFile.rows \in Seq(Measured)
    BY <1>1 DEF CInv, CTyped
  <2>2. SampledRows = RowsOf(samplesFile.rows)
    <3>1. DOMAIN samplesFile.rows = 1..Len(samplesFile.rows)
      BY <2>1, LenProperties
    <3> QED BY <3>1 DEF SampledRows, RowsOf
  <2>3. Balanced(ToSet(pendingFile.rows), samplesFile.rows)
    <3>1. step["worker"] = "idle" /\ step["collector"] = "idle"
      BY TheTwo
    <3> QED BY <1>1, <3>1 DEF CInv, CBalanced
  <2>4. /\ recorded \subseteq ToSet(pendingFile.rows) \cup RowsOf(samplesFile.rows) \cup aged
        /\ ToSet(pendingFile.rows) \cap RowsOf(samplesFile.rows) = {}
        /\ RowsOf(samplesFile.rows) \cap aged = {} /\ Once(samplesFile.rows)
    BY <2>3 DEF Balanced
  <2>5. /\ ToSet(pendingFile.rows) \subseteq recorded /\ RowsOf(samplesFile.rows) \subseteq recorded
        /\ aged \subseteq recorded
    BY <1>1 DEF CInv, CTraced
  <2>6. Cardinality(RowsOf(samplesFile.rows)) = Len(samplesFile.rows)
    BY <2>1, <2>4, OnceCounts
  <2> QED BY <2>2, <2>4, <2>5, <2>6
<1> QED BY <1>1, CalibrationInvariant, PTL

(* For all thresholds in order and all samples: an expected move a start of   *)
(* the worker may load is positive only in a band with a winning sample of    *)
(* its own, the seed of a dry process included, and a family that moves in a  *)
(* band has a win there that is one of the band's own over all families.      *)
THEOREM CalibrationEarns == CalibrationSpec => []EdgeIsEarned
<1>1. ASSUME CInv, NEW live \in BOOLEAN, NEW bands \in LoadCalibration(live), NEW k \in DOMAIN bands,
             ExpectedMoveBps(bands[k].minScore, bands) > 0
      PROVE  bands[k].hitRate.wins > 0
  <2>1. bands = SeedCalibration \/ \E r \in calibration : bands = r.bands
    BY <1>1 DEF LoadCalibration
  <2>2. CASE bands = SeedCalibration
    <3>1. SeedCalibration[1].hitRate.wins = 1 /\ SeedCalibration[2].hitRate.wins = 1
      BY DEF SeedCalibration
    <3>2. k \in 1..2
      BY <1>1, <2>2 DEF SeedCalibration
    <3>3. k = 1 \/ k = 2
      BY <3>2
    <3> QED BY <2>2, <3>1, <3>3
  <2>3. CASE \E r \in calibration : bands = r.bands
    <3>1. PICK samples \in Seq(Measured) : bands = BuildCalibrationReport(samples)
      BY <1>1, <2>3 DEF CInv, CReport
    <3>2. k \in DOMAIN Thresholds /\ bands[k].hitRate = HitRate(samples, k)
      BY <1>1, <3>1 DEF BuildCalibrationReport
    <3>3. BandMove(samples, k) > 0
      BY <1>1, <3>1, <3>2, OwnBand
    <3> QED BY <3>2, <3>3, BandEarned, WinsCount
  <2> QED BY <2>1, <2>2, <2>3
<1>2. ASSUME CInv, NEW r \in calibration, NEW k \in DOMAIN r.bands, NEW f \in DOMAIN r.byFamily,
             r.byFamily[f][k].moveBps > 0
      PROVE  r.byFamily[f][k].hitRate.wins > 0 /\ r.bands[k].hitRate.wins > 0
  <2>1. PICK samples \in Seq(Measured) : /\ r.bands = BuildCalibrationReport(samples)
                                         /\ r.byFamily = BuildPerFamilyCalibration(samples)
    BY <1>2 DEF CInv, CReport
  <2>2. k \in DOMAIN Thresholds /\ r.bands[k].hitRate = HitRate(samples, k)
    BY <1>2, <2>1 DEF BuildCalibrationReport
  <2>3. r.byFamily[f] = BuildCalibrationReport(OfFamily(samples, f))
    BY <1>2, <2>1 DEF BuildPerFamilyCalibration
  <2>4. /\ r.byFamily[f][k].moveBps = BandMove(OfFamily(samples, f), k)
        /\ r.byFamily[f][k].hitRate = HitRate(OfFamily(samples, f), k)
    BY <2>2, <2>3 DEF BuildCalibrationReport
  <2> QED BY <1>2, <2>2, <2>4, FamilyEarned
<1>3. CInv => EdgeIsEarned
  BY <1>1, <1>2 DEF EdgeIsEarned
<1> QED BY <1>3, CalibrationInvariant, PTL

=============================================================================
