--------------------------- MODULE RsContinuation ---------------------------
(* core/rsContinuation.ts: a token that leads BNB, twice in a row and with   *)
(* rising volume.  The main loop asks it of a token's history                *)
(* (EntryGates), the skill backtest of every prefix of a series (Backtest).  *)
EXTENDS Integers, Sequences

CONSTANT LeadMinBps     \* rsOutperformMinBps

LedOnAverage(obs) ==   \* A plausible mistake: the mean lead of the last two checks
  LET n == Len(obs)
  IN n >= 2 /\ obs[n - 1].lead + obs[n].lead >= 2 * LeadMinBps
            /\ obs[n].volume > obs[n - 1].volume

EvaluateRsContinuation(obs) ==
  LET n == Len(obs)
  IN n >= 2 /\ obs[n - 1].lead >= LeadMinBps /\ obs[n].lead >= LeadMinBps
            /\ obs[n].volume > obs[n - 1].volume
=============================================================================
