--------------------------- MODULE MCDecisionCycle ---------------------------
(* Two slots, a 10 dollar allowance per process and trade sizes near it.     *)
EXTENDS DecisionCycle, MCRisk

MCConfig == [DefaultConfig EXCEPT !.maxConcurrentPositions = 2, !.maxPositionPct = 25]
MCPolicy == [DefaultPolicy EXCEPT !.maxTrade = 900, !.maxDailySpend = 1500]

MCBands == {[minScore |-> 60, moveBps |-> 30, hitPct |-> 60],
            [minScore |-> 80, moveBps |-> 90, hitPct |-> 80],
            [minScore |-> 90, moveBps |-> 85, hitPct |-> 100]}

MCMajors == {"ETH", "XRP"}
MCEligible == {"ETH", "XRP", "CAKE"}

Quote(change24h) == [change24h |-> change24h, change1h |-> 0, volume |-> 99]
Pool(reserve, simulated) ==
  [answer |-> "reserves", reserveIn |-> reserve, shadow |-> [expected |-> 1500, simulated |-> simulated]]
Deep == Pool(10000000, 1500)

\* A strong major with a wide stop, a milder one and a token on the rise.
Rally == [quotes |-> [s \in MCEligible |->
                        CASE s = "ETH" -> Quote(8) [] s = "XRP" -> Quote(4) [] OTHER -> Quote(10)],
          trending |-> [s \in {"CAKE", "DOGE"} |-> 1], benchmarks |-> {"BNB", "BTC"}, bnb |-> 0, fearGreed |-> 70,
          gas |-> 1, pools |-> [s \in MCEligible |-> Deep],
          history |-> [s \in MCEligible |-> "passed"]]

\* Only the milder major may be bought: a thin pool, a history that says no.
Mild == [Rally EXCEPT !.pools["ETH"] = Pool(20000, 1500), !.history["CAKE"] = "failed"]

\* Nothing may be bought: a flat major, a second quote below the first, no pool.
Flat == [Rally EXCEPT !.quotes["ETH"] = Quote(0), !.pools["XRP"] = Pool(10000000, 1490),
         !.pools["CAKE"].answer = "none"]

\* A pool that does not answer, a benchmark that is missing.
Unreadable == [Rally EXCEPT !.pools["XRP"].answer = "error"]
NoBtc == [Rally EXCEPT !.benchmarks = {"BNB"}]

MCMarkets == {Rally, Mild, Flat, Unreadable, NoBtc}

MCScout == [CandidateFor(Rally, <<"momentum", "XRP">>) EXCEPT !.scout = TRUE,
            !.inputs = [i \in DOMAIN @ |-> 0], !.atrBps = 10]

Calm == [regime |-> "NEUTRAL", windowDd |-> 0, dailyDd |-> 0, calibrationStale |-> FALSE,
         minimumScore |-> 80, netEdgeBonusBps |-> 0]
MCWeather == {Calm, [Calm EXCEPT !.regime = "RED"],
              [Calm EXCEPT !.windowDd = 12, !.dailyDd = 5, !.minimumScore = 65],
              [Calm EXCEPT !.dailyDd = 6]}

\* Sold below the price it was bought at, and sold flat in a price that rose 4 percent.
MCOutcomes == {[pct |-> 90, pricePct |-> 90], [pct |-> 100, pricePct |-> 104]}
=============================================================================
