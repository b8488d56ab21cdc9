-------------------------- MODULE MCHistoryEvidence --------------------------
(* The reference parameters of defaults.json; short windows, few samples.    *)
EXTENDS HistoryEvidence, MCRisk

MCSleeve ==
  [startingCapital |-> 4000, perTradeRiskPct |-> 3, stopAtrTenths |-> 15, maxPositionPct |-> 70,
   netEdgeMinBps |-> 30, frictionBudgetBps |-> 120, scoringSimCostBps |-> 10, gasPerLeg |-> 2,
   slippageBps |-> 8, lpFeeBps |-> 25, safetyBufferBps |-> 5, huntMinScore |-> 80,
   scoreFloor |-> 50, bpsPerScorePoint |-> 12]

MCFearGreed == [d \in 1..8 |-> 60]
MCThresholds == <<50, 75>>

D(price, change, volume, atrBps) ==
  [price |-> price, change |-> change, change1h |-> 0, volume |-> volume, atrBps |-> atrBps]

\* A base, a small rise, a spike on a volume above it, a fall below every stop,
\* and a rise too volatile for a sleeve of 40 dollars.
MCTokenDays == {D(100, 0, 9, 400), D(104, 5, 10, 400), D(110, 8, 99, 400), D(90, -9, 99, 400),
                D(106, 6, 12, 900)}
MCBnbDays == {D(600, 0, 99, 200), D(600, 4, 99, 200)}
=============================================================================
