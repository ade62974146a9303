------------------------------ MODULE CiaPair ------------------------------
(***************************************************************************)
(* The CIA of core/ciacore.c beside a chip that is clocked in every cycle: *)
(* both get the same accesses in the same cycles, and a program cannot     *)
(* tell them apart.  The chip is a history variable: it never guards a     *)
(* step of the CIA.                                                        *)
(***************************************************************************)
EXTENDS Cia

CONSTANTS
  MaxAccesses         \* accesses, FLAG pulses and resets of a behaviour

VARIABLES
  chip,               \* the clocked chip
  accesses            \* left

pair == <<vars, chip, accesses>>

Chip == INSTANCE CiaChip

Core(tm) == [state |-> tm.state, latch |-> tm.latch, cnt |-> tm.cnt]

InitPair ==
  /\ Init
  /\ chip = [ta |-> Core(cia.ta), tb |-> Core(cia.tb), cra |-> cia.cra,
             crb |-> cia.crb, icr |-> cia.icr, irqflags |-> {}, tat |-> 0,
             tbt |-> 0, since |-> 2, int |-> Chip!NoInterrupt,
             model |-> cia.model]
  /\ accesses = MaxAccesses

(* Time passes on both.                                                    *)
Run ==
  /\ \/ \E n \in Lengths : Instruction(n) /\ chip' = Chip!RunFor[chip, n]
     \/ accesses > 0 /\ FetchAccess /\ chip' = Chip!RunFor[chip, Fetch]
     \/ Finish /\ chip' = Chip!RunFor[chip, 1]
  /\ UNCHANGED accesses

(* What the emulation does for itself is nothing on the chip, and what is  *)
(* read changes it only in the case of the interrupt register.             *)
Unseen ==
  /\ DispatchA \/ DispatchB \/ ciacore_idle \/ ciacore_clk_overflow_callback
  /\ UNCHANGED <<chip, accesses>>

Look ==
  /\ accesses > 0
  /\ \/ ReadTimers
     \/ PeekIcr /\ cia' # cia
  /\ accesses' = accesses - 1
  /\ UNCHANGED chip

Accesses ==
  /\ \/ \E byte \in Byte :
          \/ StoreTal(byte) /\ chip' = [chip EXCEPT !.ta = LatchLo(@, byte)]
          \/ StoreTah(byte) /\ chip' = [chip EXCEPT !.ta = LatchHi(@, byte)]
          \/ StoreTbl(byte) /\ chip' = [chip EXCEPT !.tb = LatchLo(@, byte)]
          \/ StoreTbh(byte) /\ chip' = [chip EXCEPT !.tb = LatchHi(@, byte)]
     \/ \E byte \in ControlA : StoreCra(byte) /\ chip' = Chip!WriteCra(chip, byte)
     \/ \E byte \in ControlB : StoreCrb(byte) /\ chip' = Chip!WriteCrb(chip, byte)
     \/ \E icr \in NextMasks : StoreIcr(icr) /\ chip' = Chip!WriteIcr(chip, icr)
     \/ ReadIcr /\ chip' = Chip!ReadIcr(chip)
  /\ accesses' = accesses - 1

(* The emulation may lose a toggle by the last underflow before a reset.   *)
(* A pulse that comes before the alarm of a timer's underflow in the same  *)
(* cycle brings the interrupt forward.                                     *)
Events ==
  /\ accesses > 0
  /\ \/ /\ ciacore_set_flag
        /\ chip' = [Chip!FlagPin(chip) EXCEPT
             !.int.in = IF cia'.int.on /\ ~cia.int.on THEN 0 ELSE @]
     \/ /\ ciacore_reset
        /\ chip' = [Chip!ResetPin(chip) EXCEPT !.tat = cia.tat, !.tbt = cia.tbt]
  /\ accesses' = accesses - 1

NextPair == Run \/ Unseen \/ Look \/ Accesses \/ Events

SpecPair == InitPair /\ [][NextPair]_pair

-----------------------------------------------------------------------------
(* What an access would see.                                               *)
Seen == Updated(cia, clk)

SameTimers(c) ==
  /\ Core(c.ta) = chip.ta /\ Core(c.tb) = chip.tb
  /\ c.tat = chip.tat /\ c.tbt = chip.tbt

(* Brought up to date, the timers and their toggles are those of the chip: *)
(* no shortcut miscounts, however late it is taken.                        *)
TimersAgree == SameTimers(Seen)

(* Brought up to date, the interrupt flags are those of the chip: a read   *)
(* of the register shows what every cycle of the chip has left there.      *)
FlagsAgree == Chip!Shown(Seen.irqflags) = chip.irqflags

(* The line itself, without bringing anything up to date: when every alarm *)
(* due has been dispatched the interrupt of the chip is there, dated in    *)
(* the same cycle.  An alarm that was skipped as unneeded never is.        *)
InterruptOnTime ==
  (\A at \in Alarms : clk < at) =>
     /\ cia.int.on = chip.int.on
     /\ chip.int.on /\ chip.int.in > 0 => cia.int.clk = clk + chip.int.in
     /\ chip.int.on /\ chip.int.in = 0 => cia.int.clk <= clk

(* An alarm that is set is set for the timer's next underflow: none is     *)
(* left behind by a store, a step or a stop, and none comes for nothing.   *)
AlarmsMatch ==
  \A tm \in {cia.ta, cia.tb} : tm.alarmclk \in {ClockMax, NextUnderflow[tm]}
=============================================================================
