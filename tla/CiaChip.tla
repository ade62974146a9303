------------------------------ MODULE CiaChip ------------------------------
(***************************************************************************)
(* What the timers and the interrupt line of a CIA promise: a chip that is *)
(* clocked in every cycle, never looks ahead and raises its interrupt in   *)
(* the cycle an enabled source sets its flag (or the next, on the old      *)
(* chip).  core/ciacore.c computes the same chip lazily, at accesses and   *)
(* alarms; CiaPair.tla puts the two beside each other.                     *)
(*                                                                         *)
(* The chip has no clock of its own: since is the age of the last read of  *)
(* the interrupt register (2: two cycles or more), and the interrupt line  *)
(* holds the cycles until the CPU sees it.                                 *)
(***************************************************************************)
EXTENDS CiaTimer

CrBits == {"START", "PBON", "ONESHOT", "FLOAD", "CNT", "INA"}

Sources == {"TA", "TB", "FLG"}

Chip ==
  LET Core == [state : SUBSET StateBits, latch : Word, cnt : Word]
  IN [ta : Core, tb : Core, cra : SUBSET CrBits, crb : SUBSET CrBits,
      icr : SUBSET Sources, irqflags : SUBSET (Sources \cup {"TBB", "IR"}),
      tat : 0 .. 1, tbt : 0 .. 1, since : 0 .. 2,
      int : [on : BOOLEAN, in : 0 .. 2], model : {"6526", "6526A"}]

NoInterrupt == [on |-> FALSE, in |-> 0]

(* The flag of timer B is lost, "timer b bug", when the register is read   *)
(* in the cycle before; TBB says so until the interrupt is up or the next  *)
(* underflow sets the flag for good.                                       *)
Shown(flags) ==
  IF {"IR", "TBB"} \subseteq flags THEN flags \ {"TB", "TBB"} ELSE flags

(* An interrupt whose source is up now (delay 0) or was enabled just now   *)
(* and is up in the next cycle (delay 1).                                  *)
Interrupt(c, delay) ==
  LET old == c.model = "6526"
      late == delay + (IF old \/ c.since = 1 - delay THEN 1 ELSE 0)
  IN IF \/ c.irqflags \cap c.icr = {}
        \/ old /\ delay = 0 /\ c.since = 0
       THEN c
       ELSE [c EXCEPT !.irqflags = Shown(@ \cup {"IR"}),
                      !.int = IF @.on THEN @ ELSE [on |-> TRUE, in |-> late]]

(* A timer that stands is not clocked: a step that it got in the cycle it  *)
(* was stopped waits for its next start.                                   *)
Clock(tm) == IF Stopped(tm.state) /\ ~Loading(tm.state) THEN tm ELSE Count(tm)

(* A cycle: both timers count, timer A's underflow steps a timer B that    *)
(* counts it, and an underflow may interrupt.                              *)
Clocked(c) ==
  LET a == Clock(c.ta)
      b == Clock(c.tb)
      since == IF c.since = 2 THEN 2 ELSE c.since + 1
      lost == since = 1 /\ c.model = "6526"
      ta == Settle(a)
      tb == IF Underflows(a) /\ {"START", "INA"} \subseteq c.crb
              THEN SingleStep(Settle(b)) ELSE Settle(b)
      flags == (IF Underflows(b) THEN (c.irqflags \ {"TBB"}) \cup {"TB"}
                                      \cup (IF lost THEN {"TBB"} ELSE {})
                ELSE c.irqflags)
                 \cup (IF Underflows(a) THEN {"TA"} ELSE {})
      next == [c EXCEPT !.ta = ta, !.tb = tb, !.since = since,
                        !.irqflags = Shown(flags),
                        !.tat = IF Underflows(a) THEN 1 - @ ELSE @,
                        !.tbt = IF Underflows(b) THEN 1 - @ ELSE @,
                        !.int.in = IF @ = 0 THEN 0 ELSE @ - 1]
  IN IF Underflows(a) \/ Underflows(b) THEN Interrupt(next, 0) ELSE next

RunFor[c \in Chip, n \in Nat] == IF n = 0 THEN c ELSE RunFor[Clocked(c), n - 1]

-----------------------------------------------------------------------------
(* Accesses of the CPU.                                                    *)

(* Starting a timer puts its toggle high; a timer B that counts timer A    *)
(* counts no cycles.                                                       *)
WriteCra(c, byte) ==
  [c EXCEPT !.ta = Control(@, byte), !.cra = byte \ {"FLOAD"},
            !.tat = IF "START" \in byte \ c.cra THEN 1 ELSE @]

WriteCrb(c, byte) ==
  LET count == IF "INA" \in byte THEN byte \cup {"CNT"} ELSE byte
  IN [c EXCEPT !.tb = Control(@, count), !.crb = byte \ {"FLOAD"},
               !.tbt = IF "START" \in byte \ c.crb THEN 1 ELSE @]

WriteIcr(c, icr) == Interrupt([c EXCEPT !.icr = icr], 1)

(* The interrupt register is cleared by the read and takes back the line.  *)
ReadIcr(c) ==
  [c EXCEPT !.irqflags = {}, !.int = NoInterrupt, !.since = 0]

(* A falling edge on the FLAG pin.                                         *)
FlagPin(c) ==
  LET up == "FLG" \in c.icr
      flags == c.irqflags \cup {"FLG"} \cup (IF up THEN {"IR"} ELSE {})
  IN [c EXCEPT !.irqflags = Shown(flags),
               !.int = IF @.on \/ ~up THEN @ ELSE [on |-> TRUE, in |-> 0]]

(* The reset line; it leaves the toggles alone.                            *)
ResetPin(c) ==
  LET Full == [state |-> {}, latch |-> ByteSize * ByteSize - 1,
               cnt |-> ByteSize * ByteSize - 1]
  IN [c EXCEPT !.ta = Full, !.tb = Full, !.cra = {}, !.crb = {}, !.icr = {},
               !.irqflags = {}, !.since = 2, !.int = NoInterrupt]

=============================================================================
