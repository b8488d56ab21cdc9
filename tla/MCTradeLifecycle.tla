-------------------------- MODULE MCTradeLifecycle --------------------------
(***************************************************************************)
(* TradeLifecycle with finite sets for TLC.  Mandates and transactions are *)
(* interchangeable, so states that differ by a permutation of them are     *)
(* explored once in the runs without liveness.                             *)
(***************************************************************************)
EXTENDS TradeLifecycle, TLC

Symmetry == Permutations(Mandate) \cup Permutations(Tx)
=============================================================================
