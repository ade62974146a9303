----------------------------- MODULE MCIeeeBus -----------------------------
(* An instance of IeeeBus for TLC: one device that VICE answers for, one   *)
(* drive with a CPU, one number with nothing behind.                       *)
EXTENDS IeeeBus, TLC

Name == <<1, 2>>

(* A drive with a CPU next to a machine that holds the bus when it turns   *)
(* it round; the other machines alone, one of them with resets.            *)
Sound ==
  {[machine |-> "new", drive |-> TRUE, resets |-> 0],
   [machine |-> "old", drive |-> FALSE, resets |-> 1],
   [machine |-> "cbm610", drive |-> FALSE, resets |-> 0]}

OldPetAndDrive == {[machine |-> "old", drive |-> TRUE, resets |-> 0]}
=============================================================================
