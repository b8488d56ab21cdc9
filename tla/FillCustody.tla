---------------------------- MODULE FillCustody ----------------------------
(***************************************************************************)
(* What the worker promises of every trade it opens, without saying how:   *)
(* a trade fills at most once, only while it is in custody (the worker     *)
(* still knows it may have been sent), and custody of a filled trade ends  *)
(* only when the fill is on the books.                                     *)
(***************************************************************************)
CONSTANT Trade

VARIABLES
  custody,   \* what the durable files say of each trade
  filled     \* the trades the chain has filled

Init ==
  /\ custody = [k \in Trade |-> "clear"]
  /\ filled = {}

Open(k) ==
  /\ custody[k] = "clear" /\ k \notin filled
  /\ custody' = [custody EXCEPT ![k] = "open"]
  /\ UNCHANGED filled

Fill(k) ==
  /\ custody[k] = "open" /\ k \notin filled
  /\ filled' = filled \cup {k}
  /\ UNCHANGED custody

\* Custody of any number of trades ends at once (a restart): the filled ones
\* are booked, the others never happened.
Resolve ==
  /\ custody' \in [Trade -> {"clear", "open", "booked"}]
  /\ \A k \in Trade :
       \/ custody'[k] = custody[k]
       \/ /\ custody[k] = "open"
          /\ custody'[k] = IF k \in filled THEN "booked" ELSE "clear"
  /\ UNCHANGED filled

Next == \/ \E k \in Trade : Open(k) \/ Fill(k)
        \/ Resolve

Spec == Init /\ [][Next]_<<custody, filled>>
=============================================================================
