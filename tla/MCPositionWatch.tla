-------------------------- MODULE MCPositionWatch --------------------------
(***************************************************************************)
(* PositionWatch for TLC: an entry at 100 and an ATR of 2 %, with the      *)
(* multiples of .env.example (1.5, 1.5, 1.5, tight 1.0).  The prices are   *)
(* one below the initial stop, one between it and the breakeven, and a     *)
(* runner that arms the breakeven.  Two positions: one may exit while the  *)
(* other is judged or enters.  No symmetry, as a liveness property is      *)
(* checked.                                                                *)
(***************************************************************************)
EXTENDS PositionWatch
=============================================================================
