----------------------------- MODULE EntryGates -----------------------------
(***************************************************************************)
(* The history of a token (core/signalHistory.ts), kept by the main loop   *)
(* of apps/worker/src/worker.ts across cycles and restarts, and the two    *)
(* entry-quality gates that read it: core/catalystEntry.ts, here, and      *)
(* RsContinuation.  One token: histories never mix.                        *)
(*                                                                         *)
(* An observation is the CMC quote of a cycle: asOf stands for lastUpdated *)
(* (also the checkIso it is recorded under), lead for its 24h change less  *)
(* that of BNB in basis points, rank for its place on the trending list,   *)
(* Off when it is not on it.  Fractions of the configuration are percent,  *)
(* so that every comparison of the code is one of integers.                *)
(***************************************************************************)
EXTENDS RsContinuation, SequencesExt, FiniteSetsExt

CONSTANTS
  Says,                         \* what a quote may say: price, volume, lead, rank
  TrendingDeltaMin, TrendingTopN, VolumePct, SpikePct, RetracePct, Cooldown,
  MaxLen,                       \* observations kept of a token
  Window,                       \* ENTRY_WINDOW, what the gates are shown
  MaxAsOf                       \* bound: quotes published in a behaviour

Off == 0
QuotesAt(n) ==
  {[asOf |-> n, price |-> q.price, volume |-> q.volume, lead |-> q.lead, rank |-> q.rank] :
     q \in Says}

ASSUME GateAssumption ==
  /\ Says \subseteq [price : Nat \ {0}, volume : Nat, lead : Int, rank : Nat]
  /\ Window \in Nat \ {0} /\ MaxLen \in Nat /\ MaxLen >= Window /\ Cooldown \in Nat \ {0}
  /\ SpikePct \in Int /\ RetracePct \in Nat

VARIABLES
  feed,      \* the quote CMC serves now
  hist,      \* signalHistory of the token
  disk,      \* signalHistory.json
  place,     \* of the main loop: "start" of a cycle, or "gates" to evaluate
  entered    \* what the cycle's gates approved: a set of families

vars == <<feed, hist, disk, place, entered>>
-----------------------------------------------------------------------------
(* core/catalystEntry.ts *)

LastN(s, n) == IF Len(s) <= n THEN s ELSE SubSeq(s, Len(s) - n + 1, Len(s))
RecentObservations == LastN(hist, Window)
AppendObservation(h, obs) == LastN(Append(h, obs), MaxLen)

RankOf(obs, i) == IF i < 1 THEN Off ELSE obs[i].rank

TrendingDelta(obs) ==
  LET curr == RankOf(obs, Len(obs))
      prev == RankOf(obs, Len(obs) - 1)
  IN /\ curr # Off
     /\ IF prev = Off THEN curr <= TrendingTopN ELSE prev - curr >= TrendingDeltaMin

VolumeExpansion(obs) ==
  LET prior == Front(obs)
      total == FoldLeft(LAMBDA sum, o : sum + o.volume, 0, prior)
  IN Len(obs) > 1 /\ total > 0 /\ 100 * Last(obs).volume * Len(prior) >= VolumePct * total

PricesTo(obs, i) == {obs[k].price : k \in 1..i}
RunBaseUpTo(obs, i) == Min(PricesTo(obs, i))

IsSpike(high, base) == 100 * (high - base) >= SpikePct * base

Peaks(obs) ==   \* the tops that ended a run-up of at least a spike
  {i \in 1..(Len(obs) - 1) : /\ obs[i + 1].price < obs[i].price
                             /\ IsSpike(obs[i].price, RunBaseUpTo(obs, i))}

HoldsTheBase(obs, peak) ==
  LET high == obs[peak].price
      floor == 100 * high - RetracePct * (high - RunBaseUpTo(obs, peak))
  IN /\ Len(obs) - peak >= Cooldown
     /\ \A k \in (peak + 1)..Len(obs) : 100 * obs[k].price >= floor
     /\ \A k \in (peak + 1)..(Len(obs) - 1) : Last(obs).price >= obs[k].price

NoFirstSpikeOnlyPeaks(obs) ==   \* A plausible mistake: no peak yet, so no spike
  Peaks(obs) # {} => HoldsTheBase(obs, Min(Peaks(obs)))

NoFirstSpike(obs) ==
  \/ Len(obs) < 2
  \/ IF Peaks(obs) = {}
     THEN ~IsSpike(Max(PricesTo(obs, Len(obs))), RunBaseUpTo(obs, Len(obs)))
     ELSE HoldsTheBase(obs, Min(Peaks(obs)))

EvaluateCatalystEntry(obs) == TrendingDelta(obs) /\ VolumeExpansion(obs) /\ NoFirstSpike(obs)
-----------------------------------------------------------------------------
(* The main loop of the worker. *)

Init ==
  /\ feed \in QuotesAt(1)
  /\ hist = <<>> /\ disk = <<>>
  /\ place = "start" /\ entered = {}

\* CMC publishes a newer quote; until then it serves the same one again.
Publish ==
  /\ feed.asOf < MaxAsOf
  /\ feed' \in QuotesAt(feed.asOf + 1)
  /\ UNCHANGED <<hist, disk, place, entered>>

Recorded(h, quote) ==
  IF h # <<>> /\ Last(h).asOf = quote.asOf THEN h ELSE AppendObservation(h, quote)

\* The cycle records the quote and writes the file; a failing write ends the
\* cycle with the observation in memory.
Observe ==
  /\ place = "start"
  /\ hist' = Recorded(hist, feed)
  /\ \/ disk' = hist' /\ place' = "gates"
     \/ UNCHANGED <<disk, place>>
  /\ entered' = {}
  /\ UNCHANGED feed

\* Pools are read between the recording and the gates, which use the history
\* and not the feed.  rs_continuation is a candidate only while it leads.
Approves(family, obs) ==
  IF family = "catalyst"
  THEN Last(obs).rank # Off /\ EvaluateCatalystEntry(obs)
  ELSE Last(obs).lead > 0 /\ EvaluateRsContinuation(obs)

Evaluate ==
  /\ place = "gates"
  /\ entered' = {f \in {"catalyst", "rs_continuation"} : Approves(f, RecentObservations)}
  /\ place' = "start"
  /\ UNCHANGED <<feed, hist, disk>>

Restart ==
  /\ hist' = disk
  /\ place' = "start" /\ entered' = {}
  /\ UNCHANGED <<feed, disk>>

Next == Publish \/ Observe \/ Evaluate \/ Restart

Spec == Init /\ [][Next]_vars
-----------------------------------------------------------------------------
(* Properties. *)

\* rsContinuation.ts wants two consecutive checks: an approval stands on two
\* different quotes of CMC that both led BNB, never on one seen twice, also when
\* the worker restarted between them.
LedTwice ==
  "rs_continuation" \in entered =>
    \E i, j \in 1..Len(hist) :
      /\ hist[i].asOf < hist[j].asOf /\ j = Len(hist)
      /\ hist[i].lead >= LeadMinBps /\ hist[j].lead >= LeadMinBps

\* catalystEntry.ts never buys a vertical move: a price a spike above the lowest
\* of the window is bought only after a pullback at least Cooldown checks ago,
\* and never below the middle ground the retracement allows since.
NeverBuysTheVertical ==
  "catalyst" \in entered =>
    LET obs == RecentObservations
        low == RunBaseUpTo(obs, Len(obs))
    IN IsSpike(Last(obs).price, low) =>
         \E i \in 1..(Len(obs) - Cooldown) :
           /\ obs[i + 1].price < obs[i].price
           /\ \A k \in (i + 1)..Len(obs) :
                100 * obs[k].price >= 100 * obs[i].price - RetracePct * (obs[i].price - low)
=============================================================================
