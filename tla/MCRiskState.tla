----------------------------- MODULE MCRiskState -----------------------------
(* Two tokens at two prices, a wallet of ten dollars, the window from day 1.  *)
EXTENDS RiskState, MCRisk

MCConfig ==
  [DefaultConfig EXCEPT !.startingCapital = 10, !.gasReserve = 0,
                        !.maxConcurrentPositions = 2, !.dangerPortfolioValue = 6]

MCRegimeCfg ==
  [redBenchmarkPct |-> -4, greenBenchmarkPct |-> 2, redFearGreed |-> 25, greenFearGreed |-> 60,
   redBreadthPct |-> 30, greenBreadthPct |-> 60, highVolatilityPct |-> 150,
   hysteresisChecks |-> 2]

Quiet == [change24h |-> 0, btcChange24h |-> 1, shortChange |-> 0, aboveMean |-> TRUE,
          fearGreed |-> 50, breadthPct |-> 50, volatilityPct |-> 100]
Rally == [change24h |-> 3, btcChange24h |-> 2, shortChange |-> 1, aboveMean |-> TRUE,
          fearGreed |-> 50, breadthPct |-> 80, volatilityPct |-> 100]
Rout == [change24h |-> -5, btcChange24h |-> -2, shortChange |-> -1, aboveMean |-> FALSE,
         fearGreed |-> 20, breadthPct |-> 40, volatilityPct |-> 200]
MCSignals == {Quiet, Rally, Rout}
=============================================================================
