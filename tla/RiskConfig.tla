----------------------------- MODULE RiskConfig -----------------------------
(***************************************************************************)
(* The configuration of core/config.ts and the TWAK policy the worker      *)
(* builds from the environment, as two constants, and the checks           *)
(* loadRiskConfig makes before it returns: a process with a configuration  *)
(* that fails them throws while it loads and never runs.                   *)
(*                                                                         *)
(* Money is in cents, fractions in percent, and ATR multiples in tenths,   *)
(* so that the arithmetic of the gates is one of integers.                 *)
(***************************************************************************)
EXTENDS Integers

CONSTANTS
  Config,    \* RiskConfig, with its field names
  Policy     \* TwakPolicyConfig

ConfigLoads ==
  LET c == Config
  IN /\ c.startingCapital \in Nat \ {0} /\ c.gasReserve \in 0..c.startingCapital
     /\ c.maxConcurrentPositions \in 1..10
     /\ c.perTradeRiskPct \in 1..10 /\ c.maxPositionPct \in 1..100
     /\ c.competitionDqDrawdownPct \in 1..100
     /\ c.internalWindowDrawdownPct \in 1..c.competitionDqDrawdownPct
     /\ c.maxDailyDrawdownPct \in 1..c.internalWindowDrawdownPct
     /\ c.softDrawdownPct \in 1..c.maxDailyDrawdownPct
     /\ c.dangerPortfolioValue \in 0..c.startingCapital
     /\ c.maxSlippageBps \in 1..500
     /\ c.swapSlippageBufferBps \in 0..c.maxSlippageBps
     /\ c.exitMaxSlippageBps \in c.maxSlippageBps..500
     /\ c.walletFloorPct \in 0..200
     /\ c.survivalLossStreak \in 1..20
     /\ c.microScoutDeadlineHours \in 1..23
     /\ c.minTradesPerDay <= c.targetTradesPerDay
     /\ c.targetTradesPerDay <= c.maxTradesPerDay

\* The rest of the code divides by these, or compares them with counts.
PositiveFields ==
  /\ Config.stopAtrTenths \in Nat \ {0} /\ Config.minTradesPerDay \in Nat
  /\ Config.targetTradesPerDay \in Nat /\ Config.maxTradesPerDay \in Nat
  /\ Config.kellyPct \in Nat /\ Config.netEdgeMinBps \in Nat /\ Config.microScout \in Nat \ {0}
  /\ Policy.maxTrade \in Nat \ {0} /\ Policy.maxDailySpend \in Nat \ {0}

\* The exit ceiling of the policy is an environment variable of its own: a
\* deployment that sets it below exitMaxSlippageBps has every safety exit refused.
ExitsFit == Policy.maxExitSlippageBps >= Config.exitMaxSlippageBps

ASSUME ConfigAssumption == ConfigLoads /\ PositiveFields /\ ExitsFit
=============================================================================
