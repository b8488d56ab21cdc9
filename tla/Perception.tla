----------------------------- MODULE Perception -----------------------------
(***************************************************************************)
(* What a cycle of worker.ts reads of the market, and the candidates it    *)
(* makes of it: the CMC client and the score inputs of cmc-adapter, the    *)
(* reserves and quotes of bsc-adapter/liveQuoter.ts, and the list of       *)
(* candidate specs of the main loop.                                       *)
(*                                                                         *)
(* A market is a record: quotes (a function from the symbols CMC quotes to *)
(* their 24h and 1h changes in percent and their 24h volume in millions),  *)
(* trending (symbols to ranks), benchmarks (which of BNB and BTC CMC        *)
(* answered), bnb (its 24h change), fearGreed, gas (cents per leg), pools   *)
(* (what the reads of each pair answer: reserves, no pair, or an error) and *)
(* history (what EntryGates says of the observations of a symbol).         *)
(* Score inputs are percent, rounded down.                                 *)
(***************************************************************************)
EXTENDS CandidateGates

CONSTANTS
  Majors,      \* STARTER_MAJORS, the symbols asked for in every cycle
  Eligible     \* symbols of eligible-tokens.json

Magnitude(x) == IF x < 0 THEN -x ELSE x
-----------------------------------------------------------------------------
(* cmc-adapter/perception.ts *)

NormMomentum(pct, saturation) == Clamp(50 + (50 * pct) \div saturation)

\* log10(v / 1M + 1) / 2 for volumes one below a power of ten.
LiquiditySafety(millions) ==
  IF millions <= 0 THEN 0
  ELSE Clamp(50 * (CHOOSE d \in 0..6 : 10^d <= millions + 1 /\ millions + 1 < 10^(d + 1)))

VolatilitySafety(change1h) == Clamp(100 - (100 * Magnitude(change1h)) \div 12)

WalletRiskState == 70     \* a literal of the main loop

Inputs(quote, fearGreed, momentum, relativeStrength) ==
  [momentum |-> momentum, liquiditySafety |-> LiquiditySafety(quote.volume),
   relativeStrength |-> relativeStrength, sentiment |-> Clamp(fearGreed),
   volatilitySafety |-> VolatilitySafety(quote.change1h),
   walletRiskState |-> WalletRiskState]

MomentumInputs(quote, bnb, fearGreed) ==
  Inputs(quote, fearGreed, NormMomentum(quote.change24h, 8),
         NormMomentum(quote.change24h - bnb, 10))

RsContinuationInputs(quote, bnb, fearGreed) ==
  Inputs(quote, fearGreed, NormMomentum(quote.change24h, 8),
         NormMomentum(quote.change24h - bnb, 8))

TrendBoost(rank) == Clamp(100 - 5 * (rank - 1))

CatalystInputs(quote, rank, fearGreed) ==
  Inputs(quote, fearGreed,
         Clamp((NormMomentum(quote.change1h, 6) + TrendBoost(rank)) \div 2),
         NormMomentum(quote.change24h, 12))
-----------------------------------------------------------------------------
(* The reads of a cycle, cmc-adapter/client.ts and bsc-adapter/liveQuoter.ts. *)

\* getQuotes leaves out what CMC does not answer and throws when nothing is left;
\* the cycle throws without its benchmarks.  A failed trending read is no failure.
Readable(m) == DOMAIN m.quotes \cap Majors # {} /\ m.benchmarks = {"BNB", "BTC"}

Trending(m) == DOMAIN m.trending \cap Eligible
Tradable(m) == DOMAIN m.quotes \cap Eligible

\* ATR is taken from the change of the day, with a floor of 2 percent.
AtrBps(quote) == Greatest(200, 100 * Magnitude(quote.change24h))

CandidateOf(m, symbol, inputs, entry) ==
  [inputs |-> inputs, entry |-> entry, scout |-> FALSE,
   tokenIn |-> "listed", tokenOut |-> "listed", nonSpot |-> FALSE,
   routerListed |-> TRUE, spenderListed |-> TRUE, toListed |-> TRUE,
   atrBps |-> AtrBps(m.quotes[symbol]), reserveIn |-> m.pools[symbol].reserveIn,
   poolFeeBps |-> 25, gas |-> m.gas, shadow |-> m.pools[symbol].shadow]

\* The specs, as pairs of a family and a symbol: momentum on every major,
\* rs_continuation on those ahead of BNB, catalyst on what is trending.
Specs(m) ==
  {<<"momentum", s>> : s \in Tradable(m) \cap Majors}
  \cup {<<"rs_continuation", s>> :
          s \in {t \in Tradable(m) \cap Majors : m.quotes[t].change24h > m.bnb}}
  \cup {<<"catalyst", s>> : s \in Tradable(m) \cap Trending(m)}

Symbols(m) == {spec[2] : spec \in Specs(m)}

\* One read of a pool per token and cycle: without a pool the token is skipped,
\* any other failure ends the cycle for every token.
PoolsAnswer(m) == \A s \in Symbols(m) : m.pools[s].answer # "error"

CandidateFor(m, spec) ==
  LET s == spec[2]
      q == m.quotes[s]
  IN CASE spec[1] = "momentum" ->
            CandidateOf(m, s, MomentumInputs(q, m.bnb, m.fearGreed), "none")
       [] spec[1] = "rs_continuation" ->
            CandidateOf(m, s, RsContinuationInputs(q, m.bnb, m.fearGreed), m.history[s])
       [] spec[1] = "catalyst" ->
            CandidateOf(m, s, CatalystInputs(q, m.trending[s], m.fearGreed), m.history[s])

CandidatesOf(m) == {CandidateFor(m, spec) : spec \in {p \in Specs(m) : m.pools[p[2]].answer = "reserves"}}
=============================================================================
