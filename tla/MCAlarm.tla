------------------------------ MODULE MCAlarm ------------------------------
(* Instances of Alarm for TLC: a clock of 25 or 32 values, of which the   *)
(* guard keeps the last 6 or 7 free: a dozen instructions reach it.        *)
EXTENDS Alarm, TLC

Symmetry == Permutations(Alarm \ {VideoAlarm, EventAlarm})
=============================================================================
