------------------------------- MODULE MCRisk -------------------------------
(* The default configuration of core/config.ts and .env.example, in the     *)
(* units of RiskConfig, for the models that are about one part of it.       *)
EXTENDS Integers

DefaultConfig ==
  [startingCapital |-> 4000, gasReserve |-> 200, maxConcurrentPositions |-> 1,
   perTradeRiskPct |-> 3, stopAtrTenths |-> 15, maxPositionPct |-> 70, microScout |-> 500,
   minTradesPerDay |-> 1, targetTradesPerDay |-> 2, maxTradesPerDay |-> 3,
   microScoutDeadlineHours |-> 8,
   weeklyLegBudget |-> 14, flatBandLoPct |-> -2, flatBandHiPct |-> 3, defendTriggerPct |-> 25,
   huntMinScore |-> 80, pressMinScore |-> 65, defendMinScore |-> 90,
   netEdgeDefendBonusBps |-> 50, pressStartDay |-> 6,
   competitionDqDrawdownPct |-> 30, internalWindowDrawdownPct |-> 15,
   maxDailyDrawdownPct |-> 6, softDrawdownPct |-> 4, survivalLossStreak |-> 2,
   dangerPortfolioValue |-> 800,
   netEdgeMinBps |-> 30, frictionBudgetBps |-> 120, scoringSimCostBps |-> 8, twakFeeBps |-> 8,
   walletFloorPct |-> 75, dustRoundTripCeilingBps |-> 350, maxSlippageBps |-> 50,
   swapSlippageBufferBps |-> 25, exitMaxSlippageBps |-> 250, shadowFillToleranceBps |-> 40,
   kellyPct |-> 25]

DefaultPolicy ==
  [maxTrade |-> 3000, maxDailySpend |-> 2000, maxSlippageBps |-> 50, maxExitSlippageBps |-> 250]
=============================================================================
