---------------------------- MODULE MCInterrupt ----------------------------
(* Instances of Interrupt for TLC: chips and trap functions are model      *)
(* values, and a chip reports a line change at most a cycle late.          *)
EXTENDS Interrupt, TLC

CONSTANTS cia, acia, save, sync

Chips == {cia, acia}

Symmetric == Permutations(Chips)
=============================================================================
