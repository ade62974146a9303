---------------------------- MODULE AlarmService ----------------------------
(***************************************************************************)
(* What an alarm context promises the rest of the emulator (alarm.h): every*)
(* armed alarm has a number of cycles left until it is due; the CPU only   *)
(* runs while nothing is due; and when something is due, the alarm called  *)
(* back is an earliest one.  Time is relative here, so the rebasing of the *)
(* absolute clock by clkguard.c must be invisible.                         *)
(***************************************************************************)
EXTENDS Integers

CONSTANTS
  Alarm,      \* the alarms of one context
  NoAlarm     \* "no callback is running"

VARIABLES
  due,        \* function from the armed alarms to the cycles left
  running     \* the alarm whose callback is running

vars == <<due, running>>

Init ==
  /\ DOMAIN due \subseteq Alarm
  /\ \A a \in DOMAIN due : due[a] \in Int
  /\ running = NoAlarm

(* The result of arming one alarm, of disarming one, or of neither.        *)
Armed(d) ==
  \E a \in Alarm : /\ DOMAIN d = DOMAIN due \cup {a}
                   /\ d[a] \in Int
                   /\ \A b \in DOMAIN due \ {a} : d[b] = due[b]

Disarmed(d) ==
  \E a \in DOMAIN due : d = [b \in DOMAIN due \ {a} |-> due[b]]

Change == Armed(due') \/ Disarmed(due') \/ UNCHANGED due

(* Any code, inside a callback or outside, arms and disarms alarms.        *)
Rearrange ==
  /\ Change
  /\ UNCHANGED running

(* The CPU executes; it may only do so while no alarm is due.  The same    *)
(* number of cycles passes for every armed alarm.                          *)
Run ==
  /\ running = NoAlarm
  /\ \A a \in DOMAIN due : due[a] > 0
  /\ DOMAIN due' = DOMAIN due
  /\ \A a \in DOMAIN due : due'[a] \in Int /\ due'[a] < due[a]
  /\ \A a, b \in DOMAIN due : due[a] - due'[a] = due[b] - due'[b]
  /\ UNCHANGED running

(* A due alarm that no other armed alarm precedes is called back.          *)
Fire(a) ==
  /\ running = NoAlarm
  /\ a \in DOMAIN due
  /\ due[a] <= 0
  /\ \A b \in DOMAIN due : due[a] <= due[b]
  /\ running' = a
  /\ UNCHANGED due

(* The callback ends.                                                      *)
Return ==
  /\ running # NoAlarm
  /\ Change
  /\ running' = NoAlarm

Next == Rearrange \/ Run \/ Return \/ \E a \in Alarm : Fire(a)

Spec == Init /\ [][Next]_vars
=============================================================================
