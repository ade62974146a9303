------------------------------ MODULE CiaTimer ------------------------------
(***************************************************************************)
(* A timer of the 6526 CIA (core/ciatimer.h, core/ciatimer.c).  Its state  *)
(* word is the set of the pipeline bits that are on; a timer also holds    *)
(* its latch, its counter, the cycle clk up to which it was computed and   *)
(* the cycle alarmclk its alarm is set for.  A byte has ByteSize values,   *)
(* so that latch and counter go up to ByteSize^2 - 1 (0xffff).             *)
(*                                                                         *)
(* Nothing here keeps state: the operators map a timer to a timer, and     *)
(* Cia.tla calls them the way core/ciacore.c does.                         *)
(***************************************************************************)
EXTENDS Naturals

CONSTANTS
  ByteSize,       \* values of a byte, 256 in the code
  ClockMax        \* CLOCK_MAX, "no alarm"

ASSUME TimerAssumption == ByteSize \in Nat \ {0, 1} /\ ClockMax \in Nat

Byte == 0 .. ByteSize - 1
Word == 0 .. ByteSize * ByteSize - 1

StateBits == {"CR_START", "CR_ONESHOT", "CR_FLOAD", "PHI2IN", "STEP", "COUNT2",
              "COUNT3", "COUNT", "LOAD1", "LOAD", "ONESHOT0", "ONESHOT", "OUT"}

Timer == [state : SUBSET StateBits, latch : Word, cnt : Word,
          clk : 0 .. ClockMax, alarmclk : 0 .. ClockMax]

(* ciat_reset: the counter and its latch are full and the timer stands.    *)
Reset(cclk) == [state |-> {}, latch |-> ByteSize * ByteSize - 1,
                cnt |-> ByteSize * ByteSize - 1,
                clk |-> cclk, alarmclk |-> ClockMax]

-----------------------------------------------------------------------------
(* One cycle of the pipeline.                                              *)

(* ciat_table: the state bits of the next cycle.                           *)
Table(t) ==
  LET On(f) == CASE f \in {"CR_START", "CR_ONESHOT", "PHI2IN"} -> f \in t
                 [] f = "COUNT2" -> {"CR_START", "PHI2IN"} \subseteq t
                 [] f = "COUNT3" -> \/ "COUNT2" \in t
                                    \/ {"STEP", "CR_START"} \subseteq t
                 [] f = "COUNT" -> "COUNT3" \in t
                 [] f = "LOAD1" -> "CR_FLOAD" \in t
                 [] f = "LOAD" -> "LOAD1" \in t
                 [] f = "ONESHOT0" -> "CR_ONESHOT" \in t
                 [] f = "ONESHOT" -> "ONESHOT0" \in t
                 [] OTHER -> FALSE
  IN {f \in StateBits : On(f)}

(* The counter counts down to 0 and stays there until it is loaded.        *)
Count(tm) ==
  [tm EXCEPT !.cnt = IF @ # 0 /\ "COUNT3" \in tm.state THEN @ - 1 ELSE @,
             !.state = Table(@)]

(* The branch "inc" of ciat_update and of ciat_set_alarm.                  *)
Inc(tm) == [Count(tm) EXCEPT !.clk = @ + 1]

Underflows(tm) == tm.cnt = 0 /\ "COUNT3" \in tm.state

(* What every pass of the two loops ends with: an underflow loads the      *)
(* counter and puts the output high, and stops a one-shot timer.           *)
Settle(tm) ==
  LET t == tm.state \cup IF Underflows(tm) THEN {"LOAD", "OUT"} ELSE {}
      ended == "OUT" \in t /\ t \cap {"ONESHOT", "ONESHOT0"} # {}
      off == (IF "LOAD" \in t THEN {"COUNT3"} ELSE {})
               \cup (IF ended THEN {"CR_START", "COUNT2"} ELSE {})
  IN [tm EXCEPT !.state = t \ off, !.cnt = IF "LOAD" \in t THEN tm.latch ELSE @]

-----------------------------------------------------------------------------
(* The shortcuts.                                                          *)

(* The one-shot bit has gone through the pipeline.                         *)
OneshotSettled(t) ==
  t \cap {"CR_ONESHOT", "ONESHOT0", "ONESHOT"}
    \in {{}, {"CR_ONESHOT", "ONESHOT0", "ONESHOT"}}

(* "warp counting": the pipeline counts every cycle and nothing else is in *)
(* it.                                                                     *)
Counting(t) ==
  /\ {"CR_START", "PHI2IN", "COUNT2", "COUNT3", "COUNT"} \subseteq t
  /\ t \cap {"CR_FLOAD", "LOAD1", "LOAD"} = {}
  /\ OneshotSettled(t)

(* "warp stopped": nothing counts, and nothing will.                       *)
Stopped(t) ==
  /\ t \cap {"COUNT2", "COUNT3", "COUNT"} = {}
  /\ "CR_START" \notin t \/ t \cap {"PHI2IN", "STEP"} = {}
  /\ OneshotSettled(t)

Loading(t) == t \cap {"CR_FLOAD", "LOAD1", "LOAD"} # {}

(* Every second cycle underflows.                                          *)
LatchOne(tm) ==
  /\ tm.state = {"COUNT", "OUT", "LOAD", "PHI2IN", "COUNT2", "CR_START"}
  /\ tm.cnt = 1 /\ tm.latch = 1

-----------------------------------------------------------------------------
(* The cycle of the next underflow, ClockMax when there is none: what      *)
(* ciat_set_alarm finds.                                                   *)
NextUnderflow[tm \in Timer] ==
  LET t == tm.state
      next == Inc(tm)
  IN CASE Counting(t) -> tm.clk + tm.cnt
       [] Stopped(t) -> ClockMax
       [] Underflows(next) -> next.clk
       [] OTHER -> NextUnderflow[Settle(next)]

ciat_set_alarm(tm) == [tm EXCEPT !.alarmclk = NextUnderflow[tm]]

ciat_ack_alarm(tm) == [tm EXCEPT !.alarmclk = ClockMax]

-----------------------------------------------------------------------------
(* ciat_update: bring the timer to the cycle cclk and count underflows.    *)

(* Slip: the whole periods are skipped and not counted.                    *)
Warp_Uncounted(u, cclk) ==
  LET tm == u.tm
      zero == tm.clk + tm.cnt
      left == IF zero > cclk THEN zero - cclk ELSE 0
      whole == IF zero > cclk \/ "CR_ONESHOT" \in tm.state THEN 0
               ELSE (cclk - zero) \div (tm.latch + 1)
  IN [tm |-> [tm EXCEPT !.cnt = left,
                        !.clk = IF zero > cclk THEN cclk
                                ELSE zero + whole * (tm.latch + 1)],
      n |-> u.n]

(* "warp counting" to cclk or to the last underflow before it; the periods *)
(* a continuous timer runs through on the way are counted at once.         *)
Warp(u, cclk) ==
  LET tm == u.tm
      zero == tm.clk + tm.cnt
      left == IF zero > cclk THEN zero - cclk ELSE 0
      whole == IF zero > cclk \/ "CR_ONESHOT" \in tm.state THEN 0
               ELSE (cclk - zero) \div (tm.latch + 1)
  IN [tm |-> [tm EXCEPT !.cnt = left,
                        !.clk = IF zero > cclk THEN cclk
                                ELSE zero + whole * (tm.latch + 1)],
      n |-> u.n + whole]

(* One pass of the loop; u holds the timer and the underflows so far.      *)
Move(u, cclk) ==
  LET tm == u.tm
      t == tm.state
      even == ((cclk - tm.clk) \div 2) * 2
  IN CASE Counting(t) -> Warp(u, cclk)
       [] Stopped(t) /\ ~Loading(t) -> [u EXCEPT !.tm.clk = cclk]
       [] LatchOne(tm) /\ even # 0 ->
            [tm |-> [tm EXCEPT !.clk = @ + even], n |-> u.n + even \div 2]
       [] OTHER -> [u EXCEPT !.tm = Inc(tm)]

Settled(u) ==
  [tm |-> Settle(u.tm), n |-> IF Underflows(u.tm) THEN u.n + 1 ELSE u.n]

Pass(u, cclk) == Settled(Move(u, cclk))

(* The timer and the underflows so far, until the timer is at cclk.        *)
UpdateFrom[tm \in Timer, n \in Nat, cclk \in Nat] ==
  IF tm.clk >= cclk THEN [tm |-> tm, n |-> n]
  ELSE LET u == Pass([tm |-> tm, n |-> n], cclk) IN UpdateFrom[u.tm, u.n, cclk]

ciat_update(tm, cclk) == UpdateFrom[tm, 0, cclk]

-----------------------------------------------------------------------------
(* The timer's registers.  The timer has been updated to the cycle of the  *)
(* access before.                                                          *)

SingleStep(tm) ==
  IF "CR_START" \in tm.state THEN [tm EXCEPT !.state = @ \cup {"STEP"}] ELSE tm

LatchLo(tm, byte) ==
  LET Lo(word) == (word \div ByteSize) * ByteSize + byte
  IN [tm EXCEPT !.latch = Lo(@),
                !.cnt = IF "LOAD" \in tm.state THEN Lo(@) ELSE @]

LatchHi(tm, byte) ==
  LET latch == byte * ByteSize + (tm.latch % ByteSize)
  IN [tm EXCEPT !.latch = latch,
                !.cnt = IF "LOAD" \in tm.state \/ "CR_START" \notin tm.state
                          THEN latch ELSE @]

(* The bits of CIAT_CR_MASK come from the control byte; the timer counts   *)
(* cycles when the byte's count bit is off.                                *)
Control(tm, byte) ==
  LET cr == (IF "START" \in byte THEN {"CR_START"} ELSE {})
              \cup (IF "ONESHOT" \in byte THEN {"CR_ONESHOT"} ELSE {})
              \cup (IF "FLOAD" \in byte THEN {"CR_FLOAD"} ELSE {})
              \cup (IF "CNT" \in byte THEN {} ELSE {"PHI2IN"})
      mask == {"CR_START", "CR_ONESHOT", "CR_FLOAD", "PHI2IN"}
  IN [tm EXCEPT !.state = (@ \ mask) \cup cr]

(* Each of them looks for the next underflow again.                        *)
ciat_single_step(tm) ==
  IF "CR_START" \in tm.state THEN ciat_set_alarm(SingleStep(tm)) ELSE tm

ciat_set_latchlo(tm, byte) == ciat_set_alarm(LatchLo(tm, byte))

ciat_set_latchhi(tm, byte) == ciat_set_alarm(LatchHi(tm, byte))

(* Slip: a stopped or restarted timer keeps its old alarm.                 *)
ciat_set_ctrl_KeepsAlarm(tm, byte) == Control(tm, byte)

ciat_set_ctrl(tm, byte) == ciat_set_alarm(Control(tm, byte))

ciat_prevent_clock_overflow(tm, sub) ==
  [tm EXCEPT !.clk = @ - sub,
             !.alarmclk = IF @ < ClockMax THEN @ - sub ELSE @]
=============================================================================
