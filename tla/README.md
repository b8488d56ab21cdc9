# Verification of the WARDENCLAW BSC trading agent

TLA+ modules, TLC configurations and TLAPS proofs about the TypeScript sources
of this repository. Paths are relative to the repository root; `worker.ts` is
`apps/worker/src/worker.ts`, `core/`, `bnb-agent/`, `twak-adapter/`,
`cmc-adapter/` and `bsc-adapter/` are the `src` directories under `packages/`.

1. The system, 2. What is modelled, 3. Runs, 4. Findings and limits of the
code, 5. Proofs, 6. What is left.

## 1. The system

The agent trades spot tokens on BSC during a competition week. One Node process
(the *worker*) runs two loops on one thread: the **main loop** decides every few
minutes (perception, payment for data, risk gates, one winner) and buys; the
**watch loop** looks at each open position every few seconds, ratchets its
trailing stop and sells. Both execute through the `twak` CLI, a child process
that signs and broadcasts. All memory that must outlive the process is in small
JSON files under `data/runtime`. pm2 restarts the process; a restart reconciles
what a crash left behind before anything may trade. Two timers around the
competition window make the worker live and stand it down.

| component | source | state | hard behaviour | what makes it correct | modules |
|---|---|---|---|---|---|
| trade lifecycle | `worker.ts` (execution, saves, start, both loops), `twak-adapter/executor.ts`, `cliExecutor.ts` | `pending.json`, `recorded-fills.json`, the state files and their working copies | two loops share files; a crash between any two writes; a CLI call that times out after its broadcast | no fill is lost or booked twice, nothing held is unwatched, review halts | TradeLifecycle, FillCustody |
| crash recovery | `core/recovery.ts` | pure over `pending.json` and the chain | receipts missing, unmined, reverted; no hash at all | a marker is dropped only when its fill is on the books or never happened | TradeLifecycle |
| audit log | `core/auditLogger.ts` | last hash, the log file | two loops append across an await | the chain breaks only where two appends overlap | AuditLog |
| position watch | `core/trailingStop.ts`, `positionWatch.ts`, `watchdog.ts` | trail per position, verdict maps | blind feed, verdicts that change across awaits, restart | the saved stop never falls; RED empties the book | PositionWatch, Watchdog |
| week doctrine | `core/weekLedger.ts`, `weekBudget.ts`, `competitionWindow.ts`, `bnb-agent/scheduler.ts`; the scout reserve of `worker.ts` | legs, PRESS flag, side of the reserve | midnight, window edges, a budget older than the fill, fills never recorded | one PRESS per week, caps bind, the daily trade happens | WeekDoctrine, TradingWeek |
| regime analyst | `core/regimeAnalyst.ts` | committed regime, pending count | noise, a restart between two reads | a switch needs consecutive confirmations | RiskState |
| drawdown anchors, governor | `core/dailyDrawdown.ts`, `windowDrawdown.ts`, `drawdownGovernor.ts`, `ledgers.ts` | peaks, cost samples | valuation across awaits while the watch loop sells | size is 0 at a cap; a peak belongs to its period | RiskState, CandidateGates, DecisionCycle |
| pipeline and gates | `bnb-agent/pipeline.ts`, `core/riskConstitution.ts` and the gates it calls | pure | order of gates, exemptions of scouts | what is approved passed every gate that applies | CandidateGates, RiskConfig |
| entry quality | `core/signalHistory.ts`, `catalystEntry.ts`, `rsContinuation.ts` | observations per token | one quote polled twice, restarts between two quotes | a confirmation is two quotes; no vertical is bought | EntryGates, RsContinuation |
| TWAK policy | `twak-adapter/policy.ts` | `spentTodayUsd` | restart, midnight, a lost receipt | caps per trade and per day | CandidateGates, DecisionCycle |
| perception, x402 | `cmc-adapter/perception.ts`, `client.ts`, `x402.ts`, `bsc-adapter/liveQuoter.ts`, `twak-adapter/x402.ts` | none | parts of a feed missing, a payment that moves money without an answer | no cycle trades on a payment that failed (one guard of DecisionCycle, not a property) | Perception, X402Payment |
| calibration collector | `core/calibrationCollector.ts`, `edgeCalibration.ts`, `scripts/collect-calibration.ts`, `calibrate-edge.ts` | two sample files, the report | cron job and worker rewrite the same file | an observation matures once | Calibration |
| history calibration, backtest | `scripts/calibrate-history.ts`, `core/backtester.ts`, `run-skill-backtest.ts` | offline | missing days | no trade looks ahead but over a missing day; a band pays in both halves | HistoryCalibration, Backtest, HistoryEvidence |
| go-live controller, pm2, kill switch | `ops/golive/*`, `ops/pm2.config.cjs`, `apps/api` | process, saved process, flags, timers | outage, reboot, crash, flags between two steps | goes live when the gates hold, stays down after the window | GoLive |

Interactions: the loops share the working copies, `pending.json` and the flags;
the main loop hands verdicts (regime, week state, watchdog) to the watch loop in
shared variables; the API writes the kill flag that both loops poll; the worker
and a cron job share the calibration files, whose report the gates load; a start
reads every file. Correspondingly, RsContinuation is used by EntryGates and by
Backtest, Lists by Calibration, HistoryCalibration and Backtest, CandidateGates by Perception, which DecisionCycle (the live loop) and
HistoryCalibration (the script) both build on, RiskConfig by every module that
reads the configuration, WeekDoctrine by TradingWeek, Watchdog by PositionWatch.

## 2. What is modelled

A JavaScript loop is cut where it awaits: between two awaits no other callback
runs, so what stands there is one action, and shared memory is read and written
in the step that reads and writes it in the code. Where a crash between two
synchronous file writes matters, the step is cut there as well.

### TradeLifecycle

The execution protocol of both loops, the files it leaves, crash, restart,
operator and chain. **Data abstraction:** money is left out. A fill *is* its
transaction, and every runtime file is the set of fills whose effect it
contains; the position list holds a position when it contains its entry and no
exit of it. This is exactly what the properties need: whether a file contains
the effect of a fill, not by how much it changed.

| variable | code |
|---|---|
| `fate`, `owner` | the chain: what became of a transaction, the pending id it was sent for |
| `orphan` | CLI children (`execFile`) that outlived a crashed worker |
| `marker` | `pending.json`: `None`, `Building` (`pending_build`) or the hash (`submitted`) |
| `commit` | `recorded-fills.json` |
| `disk`, `mem` | state files and the working copies of them |
| `review`, `kill` | `manual-review.json`, `kill.flag.json` |
| `up` | the process is past its start gates |
| `used` | mandate ids issued (an id contains run id and cycle) |
| `pc`, `job`, `hash`, `at`, `todo` | local state of each loop: place, trade, its receipt, next file to write, rest of the watch pass |

Steps are cut at every `await` and, because a crash can fall between two file
writes, at every file write. `Busy` says when a loop is between two awaits, so
that the other one cannot run (Node runs one callback at a time) although a
crash can still happen there. Actions: `MainPoll` (kill and review checks),
`MainHold`/`MainPlan` (scheduler and caps, with the week-ledger save of each
cycle), `MainExecute` (markPending, executor), `CliBroadcasts`,
`CliReturnsReceipt` (with or without a realized output), `PolicyRefuses`,
`ClearRefused`, `ArmReview`, `FoldFill`, `SaveNext` (one file each, in the
code's order, exits folding as they go), `MarkRecorded`, `AuditFill`,
`ClearRecorded`, the three catch blocks (`MainTradeThrows`, `WatchTradeThrows`,
and `WatchPassThrows` for what stands after the exit's try), the watch pass
(`WatchPoll`, `WatchKeep`, `WatchExit`, `WatchEndPass`, `WatchRest`), `Crash`,
`ProcessExits`, `StartResumes` and `StartEscalates` (reconcile with isRecorded),
`OperatorResolves`, `ToggleKill`, `ChainSettles`.

External, modelled from how the code uses them: the chain, the CLI process, the
event loop, the operating system and the operator of `docs/OPERATIONS.md`, who
waits for the chain, rebuilds the files from it, removes the flag, and may or
may not empty `pending.json`. The operator acts on a stopped worker.

Left out: dry mode and bounded rehearsal runs; fills outside the competition
window (they skip the week ledger); a corrupt or torn file (the start throws);
the 200-record limit of `recorded-fills.json`; the nonce branch of `reconcile`
(the worker never stores a nonce); `restart` limits of pm2.

### FillCustody

The promise behind the protocol, without files or loops: a trade fills at most
once and only while it is in custody, and custody of a filled trade ends only
when the fill is on the books. `TradeLifecycle` implements it for entries and
scouts with `custody` read off `pending.json` and the files
(`ImplementsCustody`). Exits are left out of the promise because the code does
not keep it for them (section 4).

### AuditLog

The hash chain of one run's log and the two loops that append to it. `append()`
reads the last hash, awaits the write of the line, then moves the last hash;
the model cuts it there (`AppendStarts`, `LineLands`, `AppendResumes`,
`AppendFails`). `file`, `lastHash` are the log and `AuditLogger.lastHash`;
`flight` what each loop awaits; `mandate`, `place` where the main loop is in a
candidate's events (`worker.ts` 1851-1883, 1993); `overlapped` is a history
variable. **Data abstraction:** a digest is the sequence of everything it
covers, so two digests agree only if all of that does (no collisions); contents
are numbers used once. **Left out:** a line torn by a crash, the mandate file
and the replay view. A run has its own file, so a restart begins another chain.
Losing the *last* line is not noticed by `verifyChain`, which is why
`EditsDetected` does not speak of it.

### PositionWatch

The trailing stop (`UpdateTrailingStop` and its parts, in integers: distances
are basis points and a stop counts ten-thousandths of a price unit), the watch
pass (`WatchStarts`, `TickBlind`, `TickThrows`, `TickHolds`, `TickExits`,
`ExitSold`, `ExitFails`, `ExitUnconfirmed`, `WatchEnds`), the main loop as far
as it hands verdicts over or enters (`MainReadsWeek`, `MainReadsRegime`,
`JudgeStarts`, `JudgeAnswers`, `MainFails`, `MainHolds`, `MainEnters`), and
`CrashAndRestart`.

| variable | code |
|---|---|
| `open`, `trail` | `openPositions`: the order of the live array, the trail of each |
| `diskOpen`, `diskTrail` | `positions.json` |
| `red`, `diskRed`, `defend` | `regimeRed`, `regime.json`, `defendTightTrail` |
| `force`, `tighten` | `watchdogForceExit`, `watchdogTighten` |
| `main`, `asked`, `next` | main loop: place, position whose pool it awaits, index of the live iteration |
| `watch`, `todo` | watch loop: place (`cut`: a pass that ended without its save), rest of the copied list |
| `danger`, `review`, `entered` | portfolio reading of the cycle, `manual-review.json`, positions ever opened |

A trail of `diskTrail` means what the file held when its position was last
saved. **Left out:** alerts (a missing price, however long, changes no state;
`WATCH_STALENESS_ACTION=reduce` only reaches the text of the alert); a change of
the ATR (the worker never passes one); failing file writes, markers and the
kill flag, which TradeLifecycle has.

`Watchdog` is `evaluateWatchdog`, all of its actions; PositionWatch gives it the
readings of `worker.ts` 1590-1628 and keeps the two answers the worker uses
(force the exit, tighten the trail).

### WeekDoctrine and TradingWeek

`WeekDoctrine` is the pure part: `DayOf`, `InWindow` (both ends included),
`RecordLeg`, `ConsumePress`, `Sanitize`, the leg counts by UTC day,
`CompetitionDay`, `LegsScarce`, `EvaluateWeekBudget` (HUNT, PRESS, DEFEND) and
`DecideTradePlan`. An instant is a number of units from a UTC midnight.

`TradingWeek` lets the clock run under the loops: `BeginCycle` takes the budget
and the window flag, the decision actions use them with the ledger and the clock
of *their* moment (`DecideAttack`, `DecideScout`, `ScoutRejected`,
`NoScoutOutside`, `DecideHold`), `Fill` folds the leg at the moment of the fill,
`Exit` is the watch loop, `LostFill` and `CrashAfterBroadcast` are fills that are
never recorded, `Start`, `StartHalts`, `OperatorResolves` the way back.

| variable | code |
|---|---|
| `ledger`, `disk` | `weekLedger`, `weekLedger.json` |
| `budget`, `order` | what the cycle's context holds; the order in the executor |
| `reserve` | `scout-reserve.json`: on which stable the scouts' stake is |
| `marker`, `review` | what became of `pending.json`; `manual-review.json` |
| `filled`, `lost`, `pressFills`, `pressLost`, `parked`, `strayed`, `excused` | history: what happened on chain, whatever the ledger says |

Abstracted: a candidate has an edge or not, an exit brings a week return of a
small set. The peak and start values of the ledger feed only the dashboard.

### RiskState

The valuation of the wallet, cut at each await of a price (`BeginValuation`,
`ValueNext`), while `WatchExit` sells; `Measure`, everything up to the week state
without an await: both anchors and their files (`windowAnchor`, `dailyAnchor`),
both drawdowns; `ReadRegime` with the votes of `RawRegime` and the hysteresis of
`EvaluateRegime`, whose state survives `Restart`. A position is one unit of its
token; prices move between valuations. `worth`, `windowTop`, `dayTop` and `reads`
are history.

### RiskConfig, CandidateGates

`RiskConfig` has the configuration as a constant record and the checks
`loadRiskConfig` makes as an assumption; money is in cents, fractions in percent.
`CandidateGates` is `evaluateCandidate` with everything it calls: score, the
calibrated move, governor, stop-coherent size, friction, net edge, wallet floor,
shadow fill, eligibility, the gates of the risk constitution and the policy. A
chain of checks is a sequence of gates and the first failing one names the
reject code. The net edge margin of DEFEND is computed and vetoes nothing, as in
the code (section 4).

### EntryGates, RsContinuation

The observations of one token: the feed publishes or repeats a quote, the cycle
records it once (`Recorded` compares the stamp), saves, reads pools and
evaluates `EvaluateCatalystEntry` and `EvaluateRsContinuation` on the window of
recent observations. A failing write ends the cycle with the observation in
memory; `Restart` reads the file.

### Perception, X402Payment, DecisionCycle

`Perception` turns a market (quotes, trending list, benchmarks, pools, histories)
into candidates: which reads fail a cycle, which skip a token, the score inputs
of the three families. `X402Payment` is the choice of the path, the outcomes of
the CLI and of the HTTP exchange, and the receipt with its audit record.

`DecisionCycle` runs them: `BeginCycle` takes the context, `Evaluate` approves
against it later and picks the winner, `Fill` asks the policy again with what the
process has spent; `WatchExit` sells in between and moves cash, streak and
measured costs; `LoseReceipt` is a broadcast whose call threw; a dry process
takes the same decisions and drops positions unsold (`DryExit`); `Restart`
reloads the books and chooses the mode; `NewDay` passes midnight unnoticed by
`spent`. The closing hours of the scheduler are TradingWeek's subject: here a
scout may be due in any cycle.

### GoLive

`wardenclaw-mode.sh` as the line it is (`GatesPass`/`GatesFail`, `Recreate`,
`Save`, `Verified`/`VerifyTimesOut`, the banner of a start that has yet to recover counts as
verified) under its lock, both timers with
`Persistent=true`, pm2 (process, saved process, give-up after `MaxFails`), the
gates of the worker's start, outages, crashes, kill, review and the operator.
Days are the unit of time. `spoiled` and `handled` record what the liveness
properties exclude.

### Calibration

Worker and collector over `pending-samples.json` and `samples.json`: each reads,
computes, truncates and writes; a truncated file is torn and reads as empty;
either may die anywhere. The collector is cut at its awaits: `CollectorReads` takes
the rows and the symbols that are due by its clock, `CollectorQuotes` receives their
prices, and `CollectorMatures` judges the age of every row on a later clock. `CalibrateEdge` builds the report and the report by family
(a hit rate is the fraction itself; the code keeps four digits of it), and
`LoadCalibration` is what a start of the worker takes of it: a live process
throws without a report or with an old one, a dry one without a report seeds
itself. The two awaited writes of `calibrate-edge.ts` are one step. `clean` is history: no two
passes overlapped and none died in a write.

### Backtest, HistoryCalibration, HistoryEvidence

`Backtest` is `runBacktest` bar by bar with the momentum and rs_continuation
runners of the skill backtest, the alignment of a token's series with BNB's, and
the report line. A size below a cent is zero in cents; the code computes with the
fraction, whose gas is over any friction budget, and both end in
`REJECT_STOP_COHERENCE`. `HistoryCalibration` is `calibrate-history.ts`: samples,
the split by days, the bands and their qualification. A half or a band is the set
of the positions of its samples. The confidence bound is compared without its
square root, money and moves are integers. The script skips a next quote of the
same date; the days of the model are distinct, so that skip never occurs.
`Lists` has the two reductions that several scripts make, as recursive functions.

`HistoryEvidence` grows the two series by a day at a time, which both have (`Day`), or
that is missing in one of them (`TokenGap`, `BnbGap`); `today` is the day, `token` and
`bnb` are the bars. `AlignedToken` and `AlignedBnb` are the series as the runner pairs
them, `BookOfPairs` what a run of the first of these pairs makes. `HistoryAssumption` says what
the parameters and the quotes are: positive capital, prices and windows (a quote
without any price, which the backtest would read as zero, is left out), a stop of
at least a basis point (`fetchCmcDailyBars` puts at least 50 into the volatility),
and a position limit that leaves room for the friction of the position
(`maxPositionPct * (10000 + frictionBudgetBps) <= 1000000`). The runs of the
script take both from `defaults.json`: 70 percent and 120 bps. With a limit of 100
percent, which the load of the live configuration accepts, a total loss of the
price would leave a sleeve in debt by its friction.

## 3. Runs

| run | bounds | what it shows |
|---|---|---|
| `lifecycle_safety` | 2 mandates, 3 transactions, 2 open positions | the runtime files never lie about a fill; the custody refinement holds |
| `lifecycle_liveness` | 2 mandates, 2 transactions | `ReviewHalts`, `StartsOrEscalates` under `FairSpec` |
| `blind_resubmission` | 1 mandate, 3 transactions | `NoBlindResubmission` is violated (section 4) |
| `audit_log` | 6 appends | what is left of the chain when appends fail or overlap |
| `position_watch` | 2 positions, 3 prices | the trails, and `RedEmptiesTheBook` under `FairSpec` |
| `entry_gates` | 6 quotes, window of 4, 6 kinds of quote | two confirmations are two quotes; no vertical is bought |
| `decision_cycle` | 5 markets, 4 weathers, 2 outcomes, 1 midnight, 1 restart a day | what is signed fits the book and the caps; the loss-streak pause is final |
| `trading_week` | 2 days of 3 units and an edge on both sides, 3 trades, 1 crash | one PRESS, daily cap and minimum, the scout reserve |
| `risk_state` | 2 tokens, 2 prices, 3 signals, 1 midnight | no overstatement, no foreign peak, no unconfirmed regime |
| `golive` | 4 days, 1 outage, 1 crash or review, 1 operator action | goes live, stands down, stays down |
| `calibration` | 5 hours, 2 cycles, 2 collector runs | samples are measured and neither lost nor doubled |
| `history_evidence` | 4 days, 5 kinds of token day, 2 of BNB day, any of them missing | what is seen ahead and what is not, honest report lines, bands that pay twice |

**Bounds, and why they are enough.** In TradeLifecycle `Mandate` and `Tx` are
the only bounds; files, flags, crashes and restarts are unbounded. Two mandates
let an entry or scout of the main loop overlap an exit of the watch loop; three
transactions are an entry, its exit and one more. Mandates and transactions are
interchangeable, so the safety run uses their permutations as symmetry; the
liveness run does not. Six appends are more than the five events of a candidate
plus one of the other loop in between. In PositionWatch each position is opened
once and ticks, passes, cycles and crashes are unbounded; the prices are one
below the initial stop, one between that and the breakeven, and a runner that
arms it, with the multiples of `.env.example`, and two positions are what the
iteration over the live list needs.

A window of four observations out of six lets a spike leave the window and keeps
a pullback of `Cooldown` checks inside it. DecisionCycle has two slots and sizes
near the daily allowance, so that a second entry, a lost receipt and a restart
each decide whether the cap holds; its markets have a candidate that wins, one
that only the pool or the history stops, one where nothing may be bought, and two
that cannot be read. The trading week is two UTC days because PRESS, the cap and
the minimum compare a day with the next one, with a unit before and after the
window; the daily cap is 2 so that three trades can break it. RiskState needs two
tokens for an exit in the middle of a valuation, at a place before and after the
iterator. Two cycles and two collector runs let each process read between any two
writes of the other. Four days hold an entry, a stop, a second
position that is open at the end, both rejections, and both halves of the calibration
split; with a gap of the token they hold a trade of rs_continuation on pairs whose BNB
day is the later one.

Deadlock is not checked where a bound or manual review stops the system.

**Fairness.** In TradeLifecycle, `FairSpec` assumes weak fairness of each loop's
own steps (the event loop resumes settled awaits, and the CLI call has a timeout
of 120 s in `cliExecutor.ts`), of the exit of a process whose loops have ended,
and of the restart (`autorestart` in `ops/pm2.config.cjs`). Nothing is assumed of
the chain, the CLI, the operator, the API or crashes, and what a loop then does is
not chosen for it. In PositionWatch, `FairSpec` assumes that the watch timer and
its awaits return and that a price, and the outcome of an exit, do not fail to
come for ever when asked for again and again (strong fairness: crashes, cut passes
and missing prices may come in between). In GoLive, the machine comes back, due
timers fire, the script is a straight line with a timeout and pm2 restarts what
exits (weak fairness); nothing makes the days pass, and what goes wrong in pm2 or
at the lock is excluded by name in the properties, not by fairness.

**Properties.**
- `CommitRecordsAreTrue`: a record names a mined fill of that marker, contained
  in every state file: what makes `isRecorded` sound at a restart.
- `EntryFillsTraced`: an entry or scout that may be on chain is in every file or
  has its marker. `NoUnwatchedHolding`, `PositionsWereBought`: the position file
  neither misses a holding (unless a marker will stop the next start) nor invents
  one.
- `ExecutionsAreMarked`: whatever the other loop clears, refuses or catches, the marker
  of a running execution stands. `ResumeForgetsNothing`: a start that
  resumes drops no marker of a mined fill that is not entirely on disk.
- `ImplementsCustody`, `StartsOrEscalates`. `ReviewHalts`: once review is armed both
  loops come to rest, and at rest neither begins a cycle, a pass or an execution while
  the flag stands, across crashes and restarts.
- `IntactUnlessOverlapped`, `ForksJoinTwoLoops`: what is left of the chain when
  appends fail or overlap. `TrailsReadInOrder`: the promise of the replay
  timeline. `EditsDetected`: a verified chain shows the loss of a
  line but the last, two lines swapped, the content of one changed, and a line put in
  before another, a copy or a made-up one that follows its predecessor.
- `RatchetOnly`: "never lower or widen the stop" for the saved trail, across
  passes, entries that save in the middle of a pass, exits and crashes.
  `BreakevenCovers`, `StopBelowPeak`: stop, latch and peak agree (the latter only
  when the trigger exceeds the round-trip cost; otherwise the tick that arms the
  breakeven sells at once). `RedEmptiesTheBook`: RED rotates every position out,
  or ends in review.
- `LedTwice`, `NeverBuysTheVertical`: the two promises of the entry gates over
  what was published, not over what was polled.
- `OrdersFitTheBook`: an order signed on a context several awaits old fits the
  cash, the slots and the gas reserve that are there.
  `NothingAtTheDrawdownCap`: no gate asks for the daily layer; the governor's
  zero has to become an incoherent size. `SpendCapHolds`: one allowance per
  process. `PauseIsFinal` states what the loss-streak pause amounts to (section 4).
- `PressOnce`, `DailyCap`, `DailyMinimum`, `ReserveIsWhereItSays`: each with the
  exact excuse the code leaves (a fill never recorded, closing hours without a
  chance).
- `ValueNeverOverstated`, `PeaksAreOfTheirPeriod`, `RegimeIsConfirmed`.
- `StaysStoodDown`, `GoesLive`, `StandsDown`.
- `NothingLostOrDoubled`, `EdgeIsEarned`. `MovesAreMeasured`: a sample is of a recorded
  observation, judged a horizon after it or later, on a quote that is no older than
  the observation and was asked for an observation of the symbol that was due.
- `NoLookAhead`: at each pair of bars the backtest trades on the pairs up to it, whatever
  days are missing. `AheadOnlyOverAGap`: a pair is of two days only where one series
  lacks a later day of the other, so over series with the same days `NoLookAhead` is
  about days; over others it is not (section 4). `ReportTellsTheLoss`,
  `BandsPayInBothHalves`.

Each property of a passing run has a mutant: an operator next to the definition
it replaces, marked "A plausible mistake".

## 4. Findings and limits of the code

**Blind resubmission of exits** (run `blind_resubmission`).
`docs/OPERATIONS.md:62-65` and `core/recovery.ts:53-54` promise no blind
resubmission. The catch of an exit (`worker.ts:1188-1194`, "retry next tick")
also runs when the CLI call timed out after its broadcast: the position is still
listed, the next pass overwrites the marker and sells again.

Met while modelling, and true of the models although no run is about them:

- *Review does not halt an execution in progress* (`docs/OPERATIONS.md:63-64`):
  each loop reads the flag at the top of a cycle or pass only, so what it had begun
  before the flag was set, an entry or the rest of a watch pass, may still be sent. What
  does hold is `ReviewHalts`.
- *The audit chain forks without tampering* (`worker.ts:1848-1850`): two appends
  in flight chain from one hash. What does hold is `IntactUnlessOverlapped`.
- *A restart may resume an older trail* (`positionStore.ts:2-5`): it is saved
  once per pass. *A watchdog verdict may be skipped* (`worker.ts:820-822`) when
  the watch loop removes an earlier position of the live array.
- *The net-edge margin of DEFEND vetoes nothing* (`pipeline.ts:331-339`,
  `riskConstitution.ts:194-201`; `.env.example:127,140` announces it).
- *The drawdown governor is not monotone* in the drawdown where the binding layer
  changes (`drawdownGovernor.ts:6-7`).
- *`spentTodayUsd`* is "USD already spent today" (`policy.ts:48`), starts at zero
  with each process and is never reset at midnight: `SpendCapHolds` counts one
  allowance per process. x402 payments are outside it.
- *The loss-streak pause is final once the book is empty*: the streak is only
  ended by an exit, and nothing may be opened (`PauseIsFinal`). Likewise measured
  round trips above the dust ceiling refuse every entry for good.
- *`TWAK_MAX_EXIT_SLIPPAGE_BPS` below `EXIT_MAX_SLIPPAGE_BPS`* refuses every
  safety exit; the load checks do not compare them (`ExitsFit` in RiskConfig).
- *`marketDataStale`* is a literal false (`worker.ts:1495`, against
  `docs/SAFETY.md:28`).
- *Week*: fills after the end of the window are not recorded, so their legs and
  PRESS flags are not counted; an attack that is refused in every cycle of the
  closing hours starves the scout; a lost scout leaves the reserve on the wrong
  side, and a scout out of USDC that is not there is refused for good.
- *Valuation* while the watch loop sells understates (never overstates) the
  wallet.
- *Dry worker over live files*: positions leave the store unsold (`DryExit`).
- *Go-live*: after an outage that spans the close both timers fire; the lock
  drops one of two overlapping runs for good; a kill or review flag aborts the
  stand-down; a failing `pm2 save` is only a warning, so a reboot may bring the
  old mode back; a failing `pm2 start` after the delete leaves no worker; a crash
  with an aged calibration cannot come back live.
- *Calibration*: a torn file reads as an empty one; a collector that overlaps a
  cycle writes rows back over the cycle's; one symbol's two families share the
  gap (`calibrationCollector.ts:45-50`), so one of them is not recorded. An observation
  that passes its horizon between the quotes and the verdict
  (`collect-calibration.ts:59-81`) is measured on a quote from before its horizon, when
  an older observation of its symbol had it quoted; lines 5-8 of the script say that the
  quote follows.
- *x402*: the data that was paid for is discarded; the raw-key path signs
  whatever the 402 response asks for; a failed audit append blocks a trade whose
  payment went through.
- *The skill backtest looks ahead over a missing day*: it aligns the series by their
  ends (`run-skill-backtest.ts:561-563`), whatever their days. A day that the token
  lacks pairs each of its earlier bars with a later day of BNB, whose change is in the
  lead of that bar, so rs_continuation trades on a day it has not seen; a day that BNB
  lacks pairs them with an earlier one. A gap also pairs the bars anew, so that the
  trades of the days before it change. `AheadOnlyOverAGap` says that this is the only
  way, and no document of the repository speaks of missing days.
  *calibrate-history*, which looks BNB up by its day: a gap makes
  the "24h" move longer, and the outcome of the last day of the first part lies
  in the second.
- *Watchdog*: a loss streak of 2 is hard-coded, and its actions other than exit
  and tighten have no consumer in the worker.

## 5. Proofs

`TradeLifecycle_proofs` proves, for every set of
mandates and transactions and every position cap, what the safety run checks on
a small instance. Assumptions: `ConstantsAssumption` only (`MaxOpen` a natural
number; the markers `None` and `Building` differ from transactions and keys).

No safety property is inductive alone: that a record is true when it is written
depends on what the loop has saved before it got there. `IInv` adds that
- what is sent has an owner (`SentByOwner`), and only mined fills are in files
  (`FilesTrue`);
- working copies are ahead of their files while the process lives (`MemAhead`),
  so no later write of the other loop takes a fill out of a file;
- the place of a loop tells what it has done (`JobOK`, `SavingOK`): its hash is
  its own broadcast, mined from `filled` on, folded into the next file to write
  and contained in those already written;
- what may still broadcast for a trade has not done so yet (`Fresh`), ids are
  issued once (`Issued`), so a trade key owns one transaction at most
  (`OneTxPerTrade`);
- a stopped worker is idle and an orphaned CLI call has left its `Building`
  marker (`DownIdle`, `OrphansMarked`).

Frame lemmas say once which actions change which variables; then each part of
`IInv` has its step lemma, and `Invariant` combines them. The theorems
`TypeCorrect`, `CommitsTrue`, `FillsTraced`, `Marking`, `NothingUnwatched`,
`NoPhantoms` and `ResumeIsSafe` follow. `CustodyKept` proves the refinement:
with `IInv` the custody of a trade is a function of its marker and of the chain
(`CustodyShape`), so a step that neither fills a trade nor adds a marker
resolves custody, the only step that adds one opens a fresh trade, and the only
one that fills is the chain settling a transaction whose marker is still there.

`AuditLog_proofs`: the invariant says that each line follows from its own
predecessor hash, that what is in flight was built on the pointer of its time,
and that a loop's own events never share a predecessor; when no two appends
have overlapped, the last line is the pointer. `TimelinesInOrder` proves
`TrailsReadInOrder` from `TrailInv`: of the current candidate the file has no
stage beyond the main loop's place, and none missing before it unless the place
is the execution event. What appending a line does to a trail are two lemmas
about logs (`OthersDoNotCount`, `NextStageCounts`). `EditsShow` rests on
`TypeOK` alone: in a log that verifies every line follows from the one before it
(`VerifyFindsABreak`); a changed line then breaks at itself, a missing or moved one
at its successor, since a digest covers everything before it
(`DigestCoversItsPast`); the line after an inserted one no longer follows, or the
inserted one does not (`InsertionIsDetected`).

`PositionWatch_proofs`: `Good` says of one trail, live or saved, that it is
typed, armed exactly at its peak's gain, covered by the breakeven once armed,
and below its peak when the trigger exceeds the cost. `UpdateGood` proves that a
tick keeps `Good` and only tightens, for every price and distance; the arithmetic
lemmas under it are about products of distances. The invariant `PInv` is `Good`
of every trail with `MemoryAhead` and `SavedBetweenPasses`, and `StopNeverFalls`
follows: a step leaves the saved trails, or writes the live ones, which are
ahead, or begins the trail of a new position. Assumptions: prices and the entry
are positive, distances are positive, the cost is not negative
(`initTrailingStop` and `updateTrailingStop` throw otherwise).

`TradingWeek_proofs` (`ReserveFollowsStake`): `ReserveInv` bounds the difference
of stake and file by the scouts lost so far; `OthersLeaveReserve` leaves three
steps that touch either, and an attack's fill moves neither.
`OnePressTrade`, `CapEveryDay` and `MinimumEveryDay` share `WInv`. Its hard part is
that the ledger in memory is not simply what was traded: before the window it may
hold legs of another week (`Untouched`), and from the first fold on it is the file
and agrees, leg by leg, with what was filled (`InStep`); which of the two holds is
tied to the place of the cycle (`WPlace`). `WPress` then follows the PRESS flag from
the budget to the fold, `WMinimum` the excuse of a day from the last cycle of its
last unit to midnight. That `Sanitize` keeps the legs of the window, and only
those, is `FilterFacts`. Assumptions: `ConfigAssumption` and the window's.

`RiskState_proofs`: `RegimeConfirmed` needs that the pending count is below
`hysteresisChecks` and that as many of the last reads equal the pending regime
(`Confirming`), also after a restart, since `regime.json` is written with every
read. `PeaksOfTheirPeriod` needs what an anchor holds *before* its period has
measured anything: nothing of that period, or a peak of zero (`PeaksKept`), and
that the valuation adds naturals (`BookTyped`). `ValueIsNoMoreThanWorth` has
`Valuing`: what has been counted plus what is left of the iteration is at most
what the book was worth at the beginning, with the place of the iterator in the
list as it is now; an exit takes its position out of the list before or after
that place (`SaleLeavesLess`). Assumptions: `ConfigAssumption`
(what `loadRiskConfig` checks) and `RiskStateAssumption`.

`Evidence_proofs`, entry gates: `GInv` says that the history, in memory and on disk, is of
ever newer quotes and none newer than the feed's; with it two different
observations are two publications, and a restart, which may only lose the last
one, leaves both gates' evidence in place. The loop of `retraced()` is met by its
least observation from the end. Assumption: `GateAssumption`.

`Evidence_proofs`, scripts: the inductive invariant, `HInv`, is small (typed quotes,
each series of ever later days); the work is in what the recursive
functions of the model return. `IterationExists` gives, for any step that leads from
the values one position may have to those of the next, a function that takes these
steps and stays within them; sums (`SumIs`), concatenations (`FlattenTyped`) and the
books of a run (`BooksAre`) are instances of it, and two functions that take the same
steps agree as far as both go (`BooksAgree`).
`BandsAreEarned` then needs that the samples of any history have integer moves
(`SamplesTyped`), and that a mean whose lower bound is met is met by the total
(`HalfPays`). For `ReportIsOfTheTrades` every book of a run is in `BooksAt`: the
capital is what the trades made of it, the open position is covered with its friction
(`Covered`), so that no price leaves a debt (`NeverInDebt`), and the curve stays at the
capital until a position is taken (`Flat`), which needs a first bar without a signal;
that the drawdown is no smaller than the loss is arithmetic of two different wholes,
the peak and the capital (`FallCoversTheLoss`). Both this and `NothingLooksAhead` are
about the pairs, which the runner makes first (`RunsThePairs`). For the latter the signals
of the pairs so far do not change with a pair more (`SignalsStand`: the averages and the
observations are of the bars up to theirs), so the longer run is the shorter one and one
bar (`BooksGrow`), and a bar only adds to what a book has recorded (`NextBookIs`).
`PairsPartOnlyAtGaps` is a pigeonhole: from a pair of a later day on, the other series
has one bar more than this one has after it, and no two of them are of one day
(`OneDayMore`).
Assumption: `HistoryAssumption`.

`DecisionCycle_proofs`: `DInv` relates the context of a cycle, taken several
awaits ago, to the book of the moment: cash, slots, streak and measured costs only
move in the direction that keeps an approval sound while no trade of the cycle is
filled (`ContextHolds`, `NoBetter`), and an order that was approved fits what the
context said (`OrderFits`); what the process has spent is counted (`SpendCounted`).
`OrdersAreCovered`, `DrawdownBuysNothing`, `AllowancePerProcess` and
`PauseHasNoWayOut` follow. `DrawdownBuysNothing` is arithmetic: at the cap the
governor's fraction is zero and a stop-coherent size of zero has a reject code.
Assumptions: `ConfigAssumption`, `BandsAssumption`, `CycleAssumption`.

`Operations_proofs`, go-live: for `StandDownIsFinal`, `StoodInv` ties pm2's process and
its saved process to the mode of the script's step: past `recreate` the process runs in
that mode, at `verify` with a successful save the saved one does too, which is
what a reboot brings back.

`Operations_proofs`, calibration: `CInv` holds whatever overlaps or dies in its first
half: lists are in the order of scoring without a row twice (`Listed`), samples measured
(`Measured`), everything made of what the worker recorded (`CTraced`), and what was
measured or dropped is older than this hour (`COld`), so that a new observation is none of
it. `CBalanced`, the second half, holds while `clean`: pending rows, samples and dropped
rows share out what was recorded, where the three are found goes with the place of the
process under way, a torn file included. `CalibrationMoves` and `CalibrationConserves` are
the two halves. `CalibrationEarns` needs that reports are of measured samples
(`CReport`), that a band's sum is positive only if a member is (`BandEarned`), and that a
threshold maps to its own band (`OwnBand`). What the filters and the loop of the recording
return are `FilterFacts` and `RecordFacts`. Assumption: `CalibrationAssumption` (a gap
and a horizon of at least an hour, positive prices and finite scores as `recordPending`
demands, thresholds in order as `buildCalibrationReport` sorts them; that they differ,
as those of the script do).

Liveness stays with TLC: the prover has no support for it.

The prover has no induction over data. Where a proof needs one, the least
counterexample takes its place: a non-empty set of naturals has a least member
(`LeastNat`), a family of finite sets a smallest (`SmallestSet`), since `<` is
well-founded on the naturals. With it a recursive function is first shown to exist
(`FilterExists`, `FoldExists`, `IterationExists`) and then to return what it should, a fold in any
order of the members (`FoldAnyOrder`). These few lemmas stand in each module that
needs them.

## 6. What is left

**Theorems left.** Every safety property a passing run checks has a theorem. Liveness
(`ReviewHalts`, `StartsOrEscalates`, `RedEmptiesTheBook`, `GoesLive`, `StandsDown`) is
model-checked only: it rests on fairness and ENABLED, which are out of the prover's
reach.

**Compositions not made**: TradeLifecycle with an operator who clears the flag
while a loop still runs; TradingWeek with DecisionCycle (each abstracts the other:
an edge there, closing hours here).

**Not modelled**: RPC failover (`RpcManager` is constructed by its tests only);
the upkeep of the worker (registration reminder, approval monitor, heartbeats,
hourly snapshots: no trade depends on their files; an alert is marked as sent
even when its delivery failed, learned spenders are forgotten by a restart); LLM
clients and prompts, and the strategy explanation (text, no part in a decision);
mandate files and replay, and the dashboard (read-only); the identity sidecar
(one-off calls of an external SDK); demo, rehearsal and verification scripts; the
fixture sweep of the skill backtest and `backtest-bsc`; wire formats and the
signing of an authorization; bounded rehearsal runs; a corrupt position file (the
start throws); `max_restarts` of pm2; the 200-record limit of
`recorded-fills.json`.
