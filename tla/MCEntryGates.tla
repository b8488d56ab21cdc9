---------------------------- MODULE MCEntryGates ----------------------------
(***************************************************************************)
(* EntryGates for TLC: a base price, one a small step above it, one a      *)
(* spike (8 %) above it and one above that, with or without the volume,    *)
(* the lead over BNB and the place on the trending list that let a gate    *)
(* pass.  Six quotes and a window of four: a spike can leave the window.   *)
(***************************************************************************)
EXTENDS EntryGates

Q(price, volume, lead, rank) ==
  [price |-> price, volume |-> volume, lead |-> lead, rank |-> rank]

MCSays == {Q(100, 1, 0, Off), Q(104, 2, 400, 12), Q(110, 1, 200, 30),
           Q(104, 1, 200, Off), Q(112, 4, 200, 2), Q(106, 4, 0, 12)}
=============================================================================
