---------------------------- MODULE MCCalibration ----------------------------
(* A major that two families score in one cycle, and a trending token of the *)
(* same band: against the two quotes the first gains or stands still, the    *)
(* other loses or stands still.                                              *)
EXTENDS Calibration

MCEvaluations ==
  {<<[symbol |-> "cake", family |-> "momentum", score |-> 92, price |-> 10],
     [symbol |-> "cake", family |-> "rs_continuation", score |-> 70, price |-> 10]>>,
   <<[symbol |-> "doge", family |-> "catalyst", score |-> 92, price |-> 11]>>}

MCThresholds == <<65, 90>>
=============================================================================
