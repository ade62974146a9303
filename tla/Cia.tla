-------------------------------- MODULE Cia --------------------------------
(***************************************************************************)
(* The timers and the interrupt register of a CIA as core/ciacore.c        *)
(* emulates them: a timer is brought up to date when one of its registers  *)
(* is accessed, when its alarm comes, and when the idle alarm says that it *)
(* fell behind too far.  An alarm is set for an underflow only when        *)
(* somebody waits for it.                                                  *)
(*                                                                         *)
(* clk is the cycle the bus is in.  The CPU dispatches alarms between      *)
(* instructions (insn = "start"), so they come late; it accesses the CIA once in *)
(* an instruction, after it has fetched it, and a store, whose clock is    *)
(* one ahead, is dated back by write_offset.  Ports, the clock of the day, *)
(* the shift register and the two stores of a read-modify-write            *)
(* instruction are left out.                                               *)
(***************************************************************************)
EXTENDS CiaTimer

CONSTANTS
  ControlA, ControlB,     \* bytes written to CRA and CRB, as sets of bits
  Masks,                  \* sources in a byte written to ICR
  Lengths,                \* of the instructions that do not access the CIA
  Fetch,                  \* cycles of an instruction before its access
  MaxIdle,                \* CIA_MAX_IDLE_CYCLES
  ClkMaxValue, SubMin,    \* of the clock guard, CLKGUARD_SUB_MIN
  Latches                 \* what the timers are loaded with at first

CrBits == {"START", "PBON", "ONESHOT", "FLOAD", "CNT", "INA"}

Sources == {"TA", "TB", "FLG"}

ASSUME CiaAssumption ==
  /\ Lengths \subseteq Nat \ {0}
  /\ {Fetch, MaxIdle, ClkMaxValue} \subseteq Nat \ {0}
  /\ SubMin \in 2 .. ClkMaxValue
  /\ ControlA \cup ControlB \subseteq SUBSET CrBits
  /\ Masks \subseteq SUBSET Sources
  /\ Latches \subseteq Word

VARIABLES
  clk,              \* *clk_ptr
  cia,              \* cia_context
  idle_alarm,       \* cycle of the idle alarm
  insn              \* the CPU is at an instruction's "start", "access" or "end"

vars == <<clk, cia, idle_alarm, insn>>

Context ==
  [ta : Timer, tb : Timer, cra : SUBSET CrBits, crb : SUBSET CrBits,
   icr : SUBSET Sources, irqflags : SUBSET (Sources \cup {"TBB", "IR"}),
   tat : 0 .. 1, tbt : 0 .. 1, rdi : 0 .. ClockMax,
   int : [on : BOOLEAN, clk : 0 .. ClockMax], model : {"6526", "6526A"}]

-----------------------------------------------------------------------------
(* The interrupt line and the updates that the alarm functions share.      *)

(* my_set_int; interrupt_set_irq keeps the clock of a line that is up.     *)
my_set_int(c, value, rclk) ==
  [c EXCEPT !.int = IF value /\ @.on THEN @
                    ELSE [on |-> value, clk |-> IF value THEN rclk ELSE 0]]

(* On the new chip an interrupt acknowledged while it rises is late, on    *)
(* the old one every interrupt is, and a read in this cycle swallows it.   *)
cia_do_set_int[c \in Context, rclk \in Nat] ==
  LET old == c.model = "6526"
      late == IF old \/ c.rdi = rclk - 1 THEN rclk + 1 ELSE rclk
      flags == IF "TBB" \in c.irqflags THEN c.irqflags \ {"TB", "TBB"}
               ELSE c.irqflags
  IN IF c.irqflags \cap c.icr = {} \/ (old /\ c.rdi = rclk) THEN c
     ELSE my_set_int([c EXCEPT !.irqflags = flags \cup {"IR"}], TRUE, late)

cia_do_update_ta[c \in Context, rclk \in Nat] ==
  LET u == ciat_update(c.ta, rclk)
  IN [c EXCEPT !.ta = u.tm,
               !.irqflags = IF u.n > 0 THEN @ \cup {"TA"} ELSE @,
               !.tat = (@ + u.n) % 2]

(* Timer B's flag is marked when the register was read a cycle ago.        *)
cia_do_update_tb[c \in Context, rclk \in Nat] ==
  LET u == ciat_update(c.tb, rclk)
      bug == IF c.model = "6526" /\ c.rdi = rclk - 1 THEN {"TBB"} ELSE {}
  IN [c EXCEPT !.tb = u.tm,
               !.irqflags = IF u.n > 0 THEN (@ \ {"TBB"}) \cup {"TB"} \cup bug ELSE @,
               !.tbt = (@ + u.n) % 2]

-----------------------------------------------------------------------------
(* The alarm functions.                                                    *)

NeedsAlarmB(c) ==
  /\ c.crb \cap {"START", "ONESHOT", "CNT", "INA"} = {"START"}
  /\ "TB" \in c.icr

AlarmB[c \in Context] ==
  [c EXCEPT !.tb = IF NeedsAlarmB(c) THEN ciat_set_alarm(@) ELSE ciat_ack_alarm(@)]

ciacore_inttb[c \in Context, rclk \in Nat] ==
  cia_do_set_int[AlarmB[cia_do_update_tb[c, rclk]], rclk]

(* cia_update_tb without the update of timer A it starts with.  The alarms *)
(* due are run first, each at its own cycle, and each is a cycle after the *)
(* one before it.                                                          *)
RunTb[c \in Context, last \in Nat, rclk \in Nat] ==
  IF c.tb.alarmclk <= rclk
    THEN RunTb[ciacore_inttb[c, c.tb.alarmclk], c.tb.alarmclk, rclk]
    ELSE IF last # rclk THEN cia_do_update_tb[c, rclk] ELSE c

UpdateTb(c, rclk) == RunTb[c, 0, rclk]

(* Slip: a timer B that counts timer A is not reckoned with.               *)
NeedsAlarmA_NoCascade(c) ==
  /\ c.cra \cap {"START", "ONESHOT", "CNT"} = {"START"}
  /\ ("TA" \in c.icr /\ "IR" \notin c.irqflags) \/ "PBON" \in c.cra

(* "If we do not need alarm, no PB6, no shift register, and not timer B    *)
(* counting timer A, then we can safely skip alarms".                      *)
NeedsAlarmA(c) ==
  /\ c.cra \cap {"START", "ONESHOT", "CNT"} = {"START"}
  /\ \/ "TA" \in c.icr /\ "IR" \notin c.irqflags
     \/ "PBON" \in c.cra
     \/ "INA" \in c.crb

AlarmA[c \in Context] ==
  [c EXCEPT !.ta = IF NeedsAlarmA(c) THEN ciat_set_alarm(@) ELSE ciat_ack_alarm(@)]

(* An underflow of timer A steps a timer B that counts it.                 *)
Cascade[c \in Context, rclk \in Nat] ==
  IF {"START", "INA"} \subseteq c.crb
    THEN [UpdateTb(c, rclk) EXCEPT !.tb = ciat_single_step(@)]
    ELSE c

ciacore_intta[c \in Context, rclk \in Nat] ==
  cia_do_set_int[Cascade[AlarmA[cia_do_update_ta[c, rclk]], rclk], rclk]

-----------------------------------------------------------------------------
(* Everywhere but in the alarm functions.                                  *)

RunTa[c \in Context, last \in Nat, rclk \in Nat] ==
  IF c.ta.alarmclk <= rclk
    THEN RunTa[ciacore_intta[c, c.ta.alarmclk], c.ta.alarmclk, rclk]
    ELSE IF last # rclk THEN cia_do_update_ta[c, rclk] ELSE c

cia_update_ta(c, rclk) == RunTa[c, 0, rclk]

cia_update_tb(c, rclk) ==
  UpdateTb(IF {"START", "INA"} \subseteq c.crb THEN cia_update_ta(c, rclk) ELSE c, rclk)

Updated(c, rclk) == cia_update_tb(cia_update_ta(c, rclk), rclk)

(* Slip: a read of the interrupt register leaves the alarms alone.         *)
SetAlarms_None(c) == c

(* Look for both underflows again.                                         *)
SetAlarms(c) ==
  [c EXCEPT !.ta = ciat_set_alarm(@), !.tb = ciat_set_alarm(@)]

-----------------------------------------------------------------------------
(* Time and alarms.                                                        *)

Alarms == {cia.ta.alarmclk, cia.tb.alarmclk, idle_alarm}

(* An instruction starts when no alarm is due.  The clock guard has been   *)
(* called by then; the machines call it once in a frame.                   *)
Start ==
  /\ insn = "start"
  /\ \A at \in Alarms : clk < at
  /\ clk < ClkMaxValue
  /\ UNCHANGED <<cia, idle_alarm>>

(* An instruction that does not access the CIA.                            *)
Instruction(n) == Start /\ clk' = clk + n /\ UNCHANGED insn

(* One that does, up to its access, and its end.                           *)
FetchAccess == Start /\ clk' = clk + Fetch /\ insn' = "access"

Finish ==
  /\ insn = "end"
  /\ insn' = "start"
  /\ clk' = clk + 1
  /\ UNCHANGED <<cia, idle_alarm>>

(* Due now, and no alarm is earlier.                                       *)
Due(at) ==
  /\ insn = "start"
  /\ at <= clk
  /\ \A other \in Alarms : at <= other

DispatchA ==
  /\ Due(cia.ta.alarmclk)
  /\ cia' = ciacore_intta[cia, cia.ta.alarmclk]
  /\ UNCHANGED <<clk, idle_alarm, insn>>

DispatchB ==
  /\ Due(cia.tb.alarmclk)
  /\ cia' = ciacore_inttb[cia, cia.tb.alarmclk]
  /\ UNCHANGED <<clk, idle_alarm, insn>>

ciacore_idle ==
  /\ Due(idle_alarm)
  /\ cia' = Updated(cia, idle_alarm)
  /\ idle_alarm' = idle_alarm + MaxIdle
  /\ UNCHANGED <<clk, insn>>

(* The clock guard, called from the video chip's alarm: it takes sub off   *)
(* the clock, the CIA catches up and takes it off its own, and the alarms  *)
(* and the interrupt line follow.                                          *)
ciacore_clk_overflow_callback ==
  LET sub == ClkMaxValue - SubMin
      Less(at) == IF at > sub THEN at - sub ELSE 0
      c == Updated(cia, clk)
  IN /\ insn = "start" /\ clk >= ClkMaxValue
     /\ clk' = clk - sub
     /\ idle_alarm' = idle_alarm - sub
     /\ cia' = [c EXCEPT !.ta = ciat_prevent_clock_overflow(@, sub),
                         !.tb = ciat_prevent_clock_overflow(@, sub),
                         !.rdi = Less(@),
                         !.int.clk = Less(@)]
     /\ UNCHANGED insn

-----------------------------------------------------------------------------
(* Accesses.                                                               *)

Access(c) ==
  /\ insn = "access"
  /\ cia' = c
  /\ insn' = "end"
  /\ UNCHANGED <<clk, idle_alarm>>

StoreTal(byte) ==
  Access([cia_update_ta(cia, clk) EXCEPT !.ta = ciat_set_latchlo(@, byte)])

StoreTah(byte) ==
  Access([cia_update_ta(cia, clk) EXCEPT !.ta = ciat_set_latchhi(@, byte)])

StoreTbl(byte) ==
  Access([cia_update_tb(cia, clk) EXCEPT !.tb = ciat_set_latchlo(@, byte)])

StoreTbh(byte) ==
  Access([cia_update_tb(cia, clk) EXCEPT !.tb = ciat_set_latchhi(@, byte)])

(* The toggle is set before the timer is brought up to date.               *)
StoreCra(byte) ==
  LET start == [cia EXCEPT !.tat = IF "START" \in byte \ cia.cra THEN 1 ELSE @]
  IN Access([cia_update_ta(start, clk) EXCEPT !.ta = ciat_set_ctrl(@, byte), !.cra = byte \ {"FLOAD"}])

(* A timer B that counts timer A counts no cycles, and wants A's alarms.   *)
StoreCrb(byte) ==
  LET start == [cia EXCEPT !.tbt = IF "START" \in byte \ cia.crb THEN 1 ELSE @]
      counts_ta == "INA" \in byte
      count == IF counts_ta THEN byte \cup {"CNT"} ELSE byte
  IN Access([Updated(start, clk) EXCEPT
               !.ta = IF counts_ta THEN ciat_set_alarm(@) ELSE @,
               !.tb = ciat_set_ctrl(@, count),
               !.crb = byte \ {"FLOAD"}])

MaskAlarms(c) ==
  [c EXCEPT !.ta = IF "TA" \in c.icr THEN ciat_set_alarm(@) ELSE @,
            !.tb = IF "TB" \in c.icr THEN ciat_set_alarm(@) ELSE @]

StoreIcr(icr) ==
  Access(MaskAlarms(cia_do_set_int[[Updated(cia, clk) EXCEPT !.icr = icr], clk + 1]))

(* The masks a store can leave: it sets or clears some sources.            *)
NextMasks == UNION {{cia.icr \cup mask, cia.icr \ mask} : mask \in Masks}

(* The program reads a counter, a control register or the port pins the    *)
(* timers drive: what it may see is brought up to date.                    *)
ReadTimers ==
  \E c \in {cia_update_ta(cia, clk), cia_update_tb(cia, clk), Updated(cia, clk)} :
    Access(c)

ReadIcr ==
  LET c == SetAlarms(Updated([cia EXCEPT !.rdi = clk], clk))
  IN Access(my_set_int([c EXCEPT !.irqflags = {}], FALSE, clk))

(* The monitor looks at the interrupt register, between two instructions.  *)
PeekIcr ==
  /\ insn = "start"
  /\ cia' = SetAlarms(Updated(cia, clk))
  /\ UNCHANGED <<clk, idle_alarm, insn>>

ciacore_set_flag ==
  LET c == [cia EXCEPT !.irqflags = @ \cup {"FLG"}]
  IN /\ cia' = IF "FLG" \in cia.icr
                 THEN my_set_int([c EXCEPT !.irqflags = @ \cup {"IR"}], TRUE, clk)
                 ELSE c
     /\ UNCHANGED <<clk, idle_alarm, insn>>

ciacore_reset ==
  /\ insn = "start"
  /\ cia' = my_set_int([cia EXCEPT !.ta = Reset(clk), !.tb = Reset(clk),
                                   !.cra = {}, !.crb = {}, !.icr = {},
                                   !.irqflags = {}, !.rdi = 0],
                       FALSE, clk)
  /\ UNCHANGED <<clk, idle_alarm, insn>>

-----------------------------------------------------------------------------
(* A CIA whose timer A was loaded and stands.  Timer B stands too, waits   *)
(* for underflows of timer A, or has been counting for a while; no source  *)
(* or every one is enabled.  The alarms are what the stores that led here  *)
(* have left, and the idle alarm is on its way.                            *)
Standing(latch) == [Reset(SubMin) EXCEPT !.latch = latch, !.cnt = latch]

Waiting(latch) == [Standing(latch) EXCEPT !.state = {"CR_START"}]

Running(latch, cnt) ==
  ciat_set_alarm([Reset(SubMin) EXCEPT !.latch = latch, !.cnt = cnt,
    !.state = {"CR_START", "PHI2IN", "COUNT2", "COUNT3", "COUNT"}])

TimerB(latch) ==
  {[crb |-> {}, tb |-> Standing(latch)],
   [crb |-> {"START", "INA"}, tb |-> Waiting(latch)]}
  \cup {[crb |-> {"START"}, tb |-> Running(latch, cnt)] : cnt \in 1 .. latch}

Init ==
  /\ clk = SubMin
  /\ idle_alarm = SubMin + MaxIdle \div 2
  /\ insn = "start"
  /\ \E model \in {"6526", "6526A"}, latch \in Latches, icr \in {{}, UNION Masks} :
     \E b \in TimerB(latch) :
       cia = [ta |-> Standing(latch), tb |-> b.tb, cra |-> {}, crb |-> b.crb,
              icr |-> icr, irqflags |-> {}, tat |-> 0, tbt |-> 0, rdi |-> 0,
              int |-> [on |-> FALSE, clk |-> 0], model |-> model]

Next ==
  \/ \E n \in Lengths : Instruction(n)
  \/ FetchAccess \/ Finish
  \/ DispatchA \/ DispatchB \/ ciacore_idle \/ ciacore_clk_overflow_callback
  \/ \E byte \in Byte :
       StoreTal(byte) \/ StoreTah(byte) \/ StoreTbl(byte) \/ StoreTbh(byte)
  \/ \E byte \in ControlA : StoreCra(byte)
  \/ \E byte \in ControlB : StoreCrb(byte)
  \/ \E icr \in NextMasks : StoreIcr(icr)
  \/ ReadTimers \/ ReadIcr \/ PeekIcr \/ ciacore_set_flag \/ ciacore_reset

Spec == Init /\ [][Next]_vars
=============================================================================
