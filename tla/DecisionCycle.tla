---------------------------- MODULE DecisionCycle ----------------------------
(***************************************************************************)
(* One decision cycle of worker.ts against its own watch loop.  The main   *)
(* loop reads the quotes, pays for data and takes a context (BeginCycle),  *)
(* reads pools and evaluates its candidates against the context many       *)
(* awaits later (Evaluate), and hands the winner to the executor, which    *)
(* asks the policy again with what the process has spent.  In between, the *)
(* watch loop sells positions and moves the cash, the loss streak and the  *)
(* measured cost under the context that was taken.                         *)
(*                                                                         *)
(* A dry process takes the same decisions over the same files and signs    *)
(* nothing: no entry, and no exit either.                                  *)
(***************************************************************************)
EXTENDS Perception, X402Payment, SequencesExt

CONSTANTS
  Markets,      \* what the market may be
  Scout,        \* the stable-to-stable candidate
  Weather,      \* what a cycle may find: regime, drawdowns, week budget, calibration
  Outcomes,     \* an exit: proceeds and price in percent of those of the entry
  CostSamples,  \* round trips the rolling cost is the mean of
  MaxDays, MaxRestarts   \* bounds

ASSUME CycleAssumption ==
  /\ \A m \in Markets : \A s \in DOMAIN m.quotes : m.quotes[s].change24h \in Int
  /\ Scout.scout /\ Scout.tokenIn = "listed" /\ Scout.tokenOut = "listed"
  /\ \A w \in Weather : w.windowDd \in Nat /\ w.dailyDd \in Nat
  /\ \A o \in Outcomes : o.pct \in Nat /\ o.pricePct \in Nat \ {0}
  /\ CostSamples \in Nat \ {0} /\ MaxDays \in Nat /\ MaxRestarts \in Nat

VARIABLES
  live,         \* the process has a TWAK signer
  place,        \* main loop: "sleep", "evaluate" or "sign"
  ctx,          \* PipelineContext, {} outside a cycle
  winner,       \* the approved result to sign, {} when there is none
  cash, held,   \* walletCashUsd; openPositions, [slot, notional]
  streak,       \* consecutive realized losses
  samples,      \* measured round trips in bps, the last CostSamples of them
  spent,        \* spentTodayUsd of this process
  legs, entries,     \* the ledger's legs of the UTC day, and its entries and scouts
  days, restarts,    \* what the bounds count
  onChain, lost      \* history: spent on chain today, and of it without a receipt

books == <<cash, held, streak, samples, legs, entries>>
bounds == <<days, restarts>>
history == <<onChain, lost>>
vars == <<live, place, ctx, winner, books, spent, bounds, history>>

Init ==
  /\ live = TRUE
  /\ place = "sleep" /\ ctx = {} /\ winner = {}
  /\ cash = Config.startingCapital /\ held = {} /\ streak = 0 /\ samples = <<>>
  /\ spent = 0 /\ legs = 0 /\ entries = 0
  /\ days = 0 /\ restarts = 0
  /\ onChain = 0 /\ lost = 0

(* core/ledgers.ts: the rolling cost of a round trip. *)

\* Shortfall of the proceeds against the price move, and the gas of two legs.
MeasureRoundTripBps(notional, o, gas) ==
  Greatest(0, 10000 - (10000 * o.pct) \div o.pricePct + (20000 * gas) \div notional)

RecordRoundTrip(bps) ==
  LET s == Append(samples, bps)
  IN SubSeq(s, Greatest(1, Len(s) - CostSamples + 1), Len(s))

\* {} until a round trip was measured: the candidate's own model is used instead.
RealRoundTripBps ==
  IF samples = <<>> THEN {} ELSE {FoldLeft(LAMBDA a, b : a + b, 0, samples) \div Len(samples)}
-----------------------------------------------------------------------------
Worth == cash + MapThenSumSet(LAMBDA p : p.notional, held)
-----------------------------------------------------------------------------
\* From the valuation of the wallet to the PipelineContext literal.
Context(w, payment) ==
  [portfolio |-> Worth, deployable |-> Greatest(0, cash - Config.gasReserve),
   windowDd |-> w.windowDd, dailyDd |-> w.dailyDd,
   openPositions |-> Cardinality(held), tradesToday |-> entries,
   survival |-> w.windowDd >= Config.internalWindowDrawdownPct
                \/ streak >= Config.survivalLossStreak,
   calibrationStale |-> w.calibrationStale, regime |-> w.regime,
   minimumScore |-> w.minimumScore, netEdgeBonusBps |-> w.netEdgeBonusBps,
   measuredBps |-> RealRoundTripBps, payment |-> payment]

\* The reads that fail before the context is taken leave everything as it was.
BeginCycle ==
  /\ place = "sleep"
  /\ \E m \in Markets : Readable(m)
  /\ \E w \in Weather, payment \in Payments(live) : ctx' = Context(w, payment)
  /\ place' = "evaluate"
  /\ UNCHANGED <<live, winner, books, spent, bounds, history>>

Rest == place' = "sleep" /\ ctx' = {} /\ winner' = {}

Approved(m) == {r \in {EvaluateCandidate(c, ctx) : c \in CandidatesOf(m)} : r.approved}

\* The highest score wins.
Attack(approved) ==
  /\ legs < Config.maxTradesPerDay
  /\ \E r \in approved :
       /\ \A other \in approved : other.score <= r.score
       /\ winner' = {r}

\* The closing hours of the day, with its minimum of legs unmet.
LastResort(approved) ==
  /\ approved = {}
  /\ legs < Config.minTradesPerDay
  /\ held = {} /\ cash >= Config.microScout
  /\ EvaluateCandidate(Scout, ctx).approved
  /\ winner' = {EvaluateCandidate(Scout, ctx)}

Evaluate ==
  /\ place = "evaluate"
  /\ \E m \in Markets :
       /\ Readable(m) /\ PoolsAnswer(m)
       /\ LET approved == Approved(m) IN Attack(approved) \/ LastResort(approved)
  /\ place' = "sign"
  /\ UNCHANGED <<live, ctx, books, spent, bounds, history>>

\* Nothing is approved, the scheduler holds, or a pool could not be read.
Hold ==
  /\ place = "evaluate"
  /\ Rest
  /\ UNCHANGED <<live, books, spent, bounds, history>>
-----------------------------------------------------------------------------
Order == CHOOSE r \in winner : TRUE
IsScout == Order.candidate.scout

Signing == place = "sign" /\ live /\ ~X402Blocks(live, ctx.payment)

\* A dry process, a cycle that has not paid, an order the policy refuses, or a
\* CLI that fails before it broadcasts.
NotSigned ==
  /\ place = "sign"
  /\ Rest
  /\ UNCHANGED <<live, books, spent, bounds, history>>

\* A plausible mistake: only entries count.
SpentAfterEntries(r) == IF r.candidate.scout THEN spent ELSE spent + r.size

SpentAfter(r) == spent + r.size

FreeSlot == CHOOSE i \in 1..(Cardinality(held) + 1) : \A p \in held : p.slot # i

\* The receipt: a scout moves its dollars to the other stable, an entry opens
\* a position, under an id of its own.
Fill ==
  /\ Signing /\ PolicyCode(Order.intent, spent) = "none"
  /\ IF IsScout THEN UNCHANGED <<cash, held>>
     ELSE /\ cash' = cash - Order.size
          /\ held' = held \cup {[slot |-> FreeSlot, notional |-> Order.size]}
  /\ spent' = SpentAfter(Order) /\ onChain' = onChain + Order.size
  /\ legs' = legs + 1 /\ entries' = entries + 1
  /\ Rest
  /\ UNCHANGED <<live, streak, samples, bounds, lost>>

\* Broadcast, and the call threw: nothing is counted and nothing is tracked.
LoseReceipt ==
  /\ Signing /\ PolicyCode(Order.intent, spent) = "none" /\ lost = 0
  /\ onChain' = onChain + Order.size /\ lost' = lost + Order.size
  /\ Rest
  /\ UNCHANGED <<live, books, spent, bounds>>
-----------------------------------------------------------------------------
GasPerLeg == 2    \* cents, what the watch loop last saw of the gas price

ExitIntent(p) ==
  [action |-> "exit", amount |-> p.notional, slippageBps |-> Config.exitMaxSlippageBps,
   nonSpot |-> FALSE, routerListed |-> TRUE, spenderListed |-> TRUE, toListed |-> TRUE,
   tokenIn |-> "listed", tokenOut |-> "listed"]

\* A safety exit of the watch loop: it passes the same policy, with nothing spent.
WatchExit ==
  /\ live
  /\ \E p \in held, o \in Outcomes :
    LET proceeds == (p.notional * o.pct) \div 100
    IN /\ PolicyCode(ExitIntent(p), 0) = "none"
       /\ held' = held \ {p} /\ cash' = cash + proceeds
       /\ streak' = IF proceeds < p.notional THEN streak + 1 ELSE 0
       /\ samples' = RecordRoundTrip(MeasureRoundTripBps(p.notional, o, GasPerLeg))
       /\ legs' = legs + 1
       /\ UNCHANGED <<live, place, ctx, winner, spent, entries, bounds, history>>

\* Without an executor there is no sale: the stop is logged as dry and the
\* position leaves the store, its tokens stay in the wallet.
DryExit ==
  /\ ~live
  /\ \E p \in held : held' = held \ {p}
  /\ UNCHANGED <<live, place, ctx, winner, cash, streak, samples, legs, entries, spent,
                 bounds, history>>

NewDay ==      \* the process does not notice: what it spent stays
  /\ days < MaxDays
  /\ days' = days + 1 /\ legs' = 0 /\ entries' = 0 /\ onChain' = 0 /\ lost' = 0
  /\ restarts' = 0
  /\ UNCHANGED <<live, place, ctx, winner, cash, held, streak, samples, spent>>

\* loss-streak.json, book.json, positions.json, wallet-cost.json and the ledger
\* are written with every change, and read back.
BooksReloaded == UNCHANGED books

\* The mode of the process decides whether there is an executor.
SignerChosen == live' \in BOOLEAN

Restart ==
  /\ restarts < MaxRestarts
  /\ restarts' = restarts + 1 /\ spent' = 0
  /\ SignerChosen /\ BooksReloaded
  /\ Rest
  /\ UNCHANGED <<days, history>>

Next == \/ BeginCycle \/ Evaluate \/ Hold \/ NotSigned \/ Fill \/ LoseReceipt
        \/ WatchExit \/ DryExit \/ NewDay \/ Restart

Spec == Init /\ [][Next]_vars
-----------------------------------------------------------------------------
\* An order signed on a context that is several awaits old fits the book it
\* meets: an entry takes no more than its share of the cash that is there, has a
\* free slot, and leaves the gas reserve.
OrdersFitTheBook ==
  (place = "sign" /\ ~IsScout) =>
    /\ 100 * Order.size <= Config.maxPositionPct * (cash - Config.gasReserve)
    /\ Order.size > 0
    /\ Cardinality(held) < Config.maxConcurrentPositions

\* A drawdown that has used up its day or its week buys nothing, whatever the
\* edge: no gate of riskConstitution.ts asks for the daily layer, the governor's
\* headroom has to reach zero and the zero has to be refused as incoherent.
NothingAtTheDrawdownCap ==
  (place = "sign" /\ ~IsScout) =>
    /\ ctx.windowDd < Config.internalWindowDrawdownPct
    /\ ctx.dailyDd < Config.maxDailyDrawdownPct

\* What goes on chain in a UTC day stays within the allowance of each process of
\* that day, but for the trades whose receipt was lost.
SpendCapHolds == onChain <= (restarts + 1) * Policy.maxDailySpend + lost

\* The loss-streak pause has no way out: once the book is empty and the cycle
\* under way knows of the streak, no position is ever opened again, and so the
\* streak, which only an exit can end, stays.
Paused == /\ streak >= Config.survivalLossStreak /\ held = {}
          /\ place # "sleep" => ctx.survival
PauseIsFinal == [][Paused => Paused']_vars
=============================================================================
