--------------------------- MODULE CandidateGates ---------------------------
(***************************************************************************)
(* The gate chain of one candidate: evaluateCandidate of                   *)
(* bnb-agent/pipeline.ts with every module of core it calls, and the local *)
(* policy of twak-adapter/policy.ts that the signer applies again.         *)
(*                                                                         *)
(* A candidate is a record: score inputs, entry ("none" when it carries no *)
(* history, else whether EntryGates approved it), the legs and the route   *)
(* (what an allowlist would say of them), the ATR and reserves of its      *)
(* pair, gas, the shadow fill, and whether it is the stable-to-stable      *)
(* scout.  A context (ctx) is what the main loop knew when the cycle       *)
(* began.  A chain of checks is a sequence of gates; the first that fails  *)
(* names the reject code.                                                  *)
(***************************************************************************)
EXTENDS RiskConfig, Sequences, FiniteSets

CONSTANT Bands    \* calibration report: records of min score, move in bps, hit rate in percent

ASSUME BandsAssumption ==
  IsFiniteSet(Bands) /\ \A b \in Bands : b.minScore \in Int /\ b.moveBps \in Int /\ b.hitPct \in Int

Least(a, b) == IF a <= b THEN a ELSE b
Greatest(a, b) == IF a >= b THEN a ELSE b
Least3(a, b, c) == Least(a, Least(b, c))

Gate(code, passes) == [code |-> code, passes |-> passes]
Failing(gates) == {i \in 1..Len(gates) : ~gates[i].passes}
FirstReject(gates) ==
  IF Failing(gates) = {} THEN "none"
  ELSE gates[CHOOSE i \in Failing(gates) : \A j \in Failing(gates) : i <= j].code
-----------------------------------------------------------------------------
(* core/signalScorer.ts and core/edgeCalibration.ts *)

Clamp(x) == Least(100, Greatest(0, x))

ScoreBsc(in) ==    \* weights in percent; Math.round
  (35 * Clamp(in.momentum) + 20 * Clamp(in.liquiditySafety)
   + 15 * Clamp(in.relativeStrength) + 15 * Clamp(in.sentiment)
   + 10 * Clamp(in.volatilitySafety) + 5 * Clamp(in.walletRiskState) + 50) \div 100

Met(score) == {b \in Bands : score >= b.minScore}
HighestMet(score) == CHOOSE b \in Met(score) : \A o \in Met(score) : o.minScore <= b.minScore
ExpectedMoveBps(score) == IF Met(score) = {} THEN 0 ELSE HighestMet(score).moveBps
EdgePct(score) == IF Met(score) = {} THEN 0 ELSE Clamp(HighestMet(score).hitPct)
-----------------------------------------------------------------------------
(* core/drawdownGovernor.ts *)

Layers(windowDd, dailyDd) ==
  LET Layer(cap, used) == [cap |-> cap, left |-> Greatest(0, cap - used)]
  IN <<Layer(Config.competitionDqDrawdownPct, windowDd),
       Layer(Config.internalWindowDrawdownPct, windowDd),
       Layer(Config.maxDailyDrawdownPct, dailyDd)>>

Binding(layers) ==    \* the least headroom, the first of equals
  layers[CHOOSE i \in 1..3 :
           \A j \in 1..3 : /\ layers[i].left <= layers[j].left
                           /\ layers[i].left = layers[j].left => i <= j]

KellyOnly(windowDd, dailyDd, edgePct) ==   \* A plausible mistake: the budget left is ignored
  Least(Config.kellyPct * edgePct, 100 * Config.maxPositionPct)

\* The allowed share of the deployable capital, in basis points.
Governor(windowDd, dailyDd, edgePct) ==
  LET bound == Binding(Layers(windowDd, dailyDd))
      cap == 100 * Config.maxPositionPct
  IN Greatest(0, Least3(Config.kellyPct * edgePct, (cap * bound.left) \div bound.cap, cap))
-----------------------------------------------------------------------------
(* core/frictionModel.ts, core/scoredCost.ts and expectedSlippageBps of    *)
(* bsc-adapter/router.ts, for a notional in cents.                         *)

SlippageBps(size, reserveIn) == (10000 * size) \div (reserveIn + size)

RealFrictionBps(c, size) ==
  (20000 * c.gas) \div Greatest(size, 100)
  + 2 * (SlippageBps(size, c.reserveIn) + c.poolFeeBps + Config.twakFeeBps)

ScoredFrictionBps == 2 * Config.scoringSimCostBps
FrictionBps(c, size) == RealFrictionBps(c, size) + ScoredFrictionBps

(* core/stopCoherence.ts: the size follows from the stop *)
StopBps(c) == (Config.stopAtrTenths * c.atrBps) \div 10

StopSize(c, ctx) == (100 * Config.perTradeRiskPct * ctx.portfolio) \div StopBps(c)

StopSizeUncapped(c, ctx, governorCap) == StopSize(c, ctx)    \* A plausible mistake

CoherentSize(c, ctx, governorCap) ==
  Least3(StopSize(c, ctx), (Config.maxPositionPct * ctx.deployable) \div 100, governorCap)

Coherent(c, size) == size > 0 /\ FrictionBps(c, size) <= Config.frictionBudgetBps

(* core/netEdgeGate.ts: the scored gate, then the wallet floor *)
NetEdge(move, minBps, realBps) == move >= ScoredFrictionBps + minBps
WalletFloor(move, realBps) == 100 * move >= Config.walletFloorPct * realBps

(* core/shadowFill.ts: only an adverse deviation beyond the tolerance fails *)
ShadowFill(c) ==
  10000 * (c.shadow.simulated - c.shadow.expected)
    >= -(Config.shadowFillToleranceBps * c.shadow.expected)
-----------------------------------------------------------------------------
(* core/riskConstitution.ts.  The pipeline pins the chain to 56 and asks    *)
(* for the approval of exactly the notional, so neither can fail here.      *)

\* assertLegsEligible of core/eligibleTokens.ts, tokenIn before tokenOut.
LegCode(leg) ==
  CASE leg = "native" -> "REJECT_HELD_NATIVE_OR_WBNB"
    [] leg = "unlisted" -> "REJECT_INELIGIBLE_CONTRACT"
    [] OTHER -> "none"
LegGates(c) == <<Gate(LegCode(c.tokenIn), c.tokenIn = "listed"),
                 Gate(LegCode(c.tokenOut), c.tokenOut = "listed")>>

VenueGates(c) ==
  <<Gate("REJECT_NON_SPOT", ~c.nonSpot),
    Gate("REJECT_ROUTER_NOT_ALLOWED", c.routerListed),
    Gate("REJECT_SPENDER_NOT_ALLOWED", c.spenderListed)>>

\* A plausible mistake: the survival pause is left to the governor.
StateGatesWithoutPause(entry, ctx) ==
  <<Gate("REJECT_STALE_CALIBRATION", ~ctx.calibrationStale),
    Gate("REJECT_DANGER_THRESHOLD", entry => ctx.portfolio > Config.dangerPortfolioValue),
    Gate("REJECT_REGIME_RED", entry => ctx.regime # "RED"),
    Gate("REJECT_MAX_CONCURRENT", entry => ctx.openPositions < Config.maxConcurrentPositions),
    Gate("REJECT_MAX_DAILY_TRADES", ctx.tradesToday < Config.maxTradesPerDay)>>

StateGates(entry, ctx) ==
  <<Gate("REJECT_STALE_CALIBRATION", ~ctx.calibrationStale),
    Gate("REJECT_DANGER_THRESHOLD", entry => ctx.portfolio > Config.dangerPortfolioValue),
    Gate("REJECT_DRAWDOWN_BUDGET", entry => ~ctx.survival),
    Gate("REJECT_REGIME_RED", entry => ctx.regime # "RED"),
    Gate("REJECT_MAX_CONCURRENT", entry => ctx.openPositions < Config.maxConcurrentPositions),
    Gate("REJECT_MAX_DAILY_TRADES", ctx.tradesToday < Config.maxTradesPerDay)>>

RiskGates(c, ctx, size, move, realBps) ==
  VenueGates(c) \o LegGates(c) \o StateGates(~c.scout, ctx) \o
  <<Gate("REJECT_DUST_TRADE", c.scout \/ realBps <= Config.dustRoundTripCeilingBps),
    Gate("REJECT_NET_EDGE", c.scout \/ NetEdge(move, Config.netEdgeMinBps, realBps)),
    Gate("REJECT_WALLET_FLOOR", c.scout \/ WalletFloor(move, realBps)),
    Gate("REJECT_SHADOW_FILL", ShadowFill(c))>>
-----------------------------------------------------------------------------
(* twak-adapter/policy.ts, which the pipeline asks with nothing spent and   *)
(* the executor with what the process has spent.                            *)

SlippageCap(intent) ==
  IF intent.action = "exit" THEN Greatest(Policy.maxSlippageBps, Policy.maxExitSlippageBps)
  ELSE Policy.maxSlippageBps

PolicyGates(intent, spent) ==
  VenueGates(intent)
  \o <<Gate("REJECT_CONTRACT_NOT_ALLOWED", intent.toListed)>> \o LegGates(intent) \o
  <<Gate("REJECT_SLIPPAGE", intent.slippageBps <= SlippageCap(intent)),
    Gate("REJECT_OVER_MAX_TRADE", intent.amount <= Policy.maxTrade),
    Gate("REJECT_OVER_DAILY_SPEND", spent + intent.amount <= Policy.maxDailySpend)>>

PolicyCode(intent, spent) == FirstReject(PolicyGates(intent, spent))
-----------------------------------------------------------------------------
(* bnb-agent/pipeline.ts *)

Intent(c, size, action, slippageBps) ==
  [action |-> action, amount |-> size, slippageBps |-> slippageBps, nonSpot |-> c.nonSpot,
   routerListed |-> c.routerListed, spenderListed |-> c.spenderListed, toListed |-> c.toListed,
   tokenIn |-> c.tokenIn, tokenOut |-> c.tokenOut]

EntrySlippage(c, size) ==
  Least(Policy.maxSlippageBps, SlippageBps(size, c.reserveIn) + Config.swapSlippageBufferBps)

\* The doctrine's multiplier of the deployable cash (pipeline.ts, 236) is 1 in each
\* of its three states (weekBudget.ts, 69).
GovernorCap(ctx, score) ==
  (Governor(ctx.windowDd, ctx.dailyDd, EdgePct(score)) * ctx.deployable) \div 10000

PositionSize(c, ctx) ==
  IF c.scout THEN Config.microScout
  ELSE CoherentSize(c, ctx, GovernorCap(ctx, ScoreBsc(c.inputs)))

\* Net edge of the mandate's economics, with the margin DEFEND asks for; the
\* verdict is recorded and vetoes nothing, RiskGates asks without it.
NetEdgePassed(c, ctx, move, realBps) ==
  c.scout \/ (NetEdge(move, Config.netEdgeMinBps + ctx.netEdgeBonusBps, realBps)
              /\ WalletFloor(move, realBps))

LateGates(c, ctx, size, move, realBps, intent) ==
  RiskGates(c, ctx, size, move, realBps) \o PolicyGates(intent, 0)

\* What a round trip costs the wallet: as measured, or else as modelled at the size.
RoundTrip(c, ctx, size) ==
  IF ctx.measuredBps = {} THEN RealFrictionBps(c, size)
  ELSE CHOOSE m \in ctx.measuredBps : TRUE

EvaluateCandidate(c, ctx) ==
  LET score == ScoreBsc(c.inputs)
      move == IF c.scout THEN 0 ELSE ExpectedMoveBps(score)
      size == PositionSize(c, ctx)
      realBps == RoundTrip(c, ctx, size)
      intent == Intent(c, size, "enter_long", EntrySlippage(c, size))
      early == <<Gate("REJECT_LOW_SCORE", c.scout \/ score >= ctx.minimumScore),
                 Gate("REJECT_ENTRY", c.scout \/ c.entry # "failed"),
                 Gate("REJECT_STOP_COHERENCE", c.scout \/ Coherent(c, size))>>
      code == IF FirstReject(early) # "none" THEN FirstReject(early)
              ELSE FirstReject(LateGates(c, ctx, size, move, realBps, intent))
  IN [candidate |-> c, approved |-> code = "none", code |-> code, score |-> score,
      size |-> size, intent |-> intent, netEdgePassed |-> NetEdgePassed(c, ctx, move, realBps)]
=============================================================================
