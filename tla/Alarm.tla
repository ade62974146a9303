------------------------------- MODULE Alarm -------------------------------
(***************************************************************************)
(* One alarm context (alarm.h, alarm.c), the CPU loop that dispatches it   *)
(* (PROCESS_ALARMS in 6510core.c) and the guard that rebases the CPU clock *)
(* before it overflows (clkguard.c).  Every emulated CPU owns one: the     *)
(* main CPU, whose video chip keeps its raster alarm armed at all times    *)
(* and calls the guard from that alarm's callback, and each drive's CPU,   *)
(* which has no such alarm and whose guard the main CPU calls.             *)
(*                                                                         *)
(* Most alarms are armed relative to the cycle in which they are armed.    *)
(* That of the event history (event.c) is not: while recording it is kept  *)
(* a second after the last time it was due, and while playing back it is   *)
(* armed for the clock that was recorded, be it past or far ahead.         *)
(*                                                                         *)
(* pending_alarms holds the slots 0 .. num_pending_alarms - 1; what the C  *)
(* array keeps beyond them is not read.  Clocks are unsigned and wrap.     *)
(***************************************************************************)
EXTENDS Integers

CONSTANTS
  Alarm,          \* the alarms a context can hold
  NoAlarm,        \* "no callback is running"
  VideoAlarm,     \* the raster alarm, or NoAlarm in a drive's context
  EventAlarm,     \* event_alarm, or NoAlarm
  MaxPending,     \* ALARM_CONTEXT_MAX_PENDING_ALARMS
  ClockMax,       \* CLOCK_MAX
  SubMin,         \* CLKGUARD_SUB_MIN
  ClkBase,        \* clk_base of the guard (1 where the code leaves it 0)
  FrameCycles,    \* cycles between two calls of the guard
  MaxStep,        \* longest instruction
  Horizon,        \* how far ahead of an instruction's start chips arm alarms
  Second,         \* machine_get_cycles_per_second()
  MaxEvents,      \* the longest history that is played back
  RecordedClk     \* the clocks in such histories

ClkMaxValue == ClockMax - SubMin

ASSUME AlarmAssumption ==
  /\ NoAlarm \notin Alarm
  /\ VideoAlarm \in Alarm \cup {NoAlarm}
  /\ EventAlarm \in (Alarm \ {VideoAlarm}) \cup {NoAlarm}
  /\ {MaxPending, ClockMax, SubMin, ClkBase, FrameCycles, MaxStep, Horizon,
      Second, MaxEvents} \subseteq Nat \ {0}

(* CLKGUARD_SUB_MIN is 0xfffff: a frame and an instruction are far below   *)
(* it on every machine, and nothing is armed ahead by all of a CLOCK.      *)
ASSUME GuardAssumption ==
  /\ ClkMaxValue >= 3 * SubMin
  /\ ClkBase <= SubMin
  /\ FrameCycles + MaxStep < SubMin
  /\ FrameCycles <= Horizon /\ Horizon <= ClockMax /\ Second <= ClockMax

(* What is played back was recorded: its clocks are those of a CPU.        *)
ASSUME RecordedAssumption ==
  RecordedClk \subseteq 0 .. ClkMaxValue + FrameCycles + MaxStep - 1

(* Not assumed, but a hypothesis where it is needed: whatever is armed     *)
(* ahead fits beside them.  A chip's alarms do, but for an ACIA at its     *)
(* slowest; a second does on the machines of 1 MHz only.                   *)
Fits(ahead) == FrameCycles + MaxStep + ahead <= SubMin

CLOCK == 0 .. ClockMax

Slot == [alarm : Alarm, clk : CLOCK]

Slots(n) == 0 .. n - 1

VARIABLES
  alarms,                   \* the alarms that exist
  pending_alarms,
  num_pending_alarms,
  next_pending_alarm_clk,
  next_pending_alarm_idx,
  pending_idx,              \* alarm->pending_idx; -1: not pending
  clk,                      \* the CPU clock
  running,                  \* the alarm whose callback runs, or NoAlarm
  offset,                   \* how late that callback was called (0 if unused)
  frame,                    \* cycles since the guard was last called
  event_mode,               \* "record", "playback" or "none"
  events,                   \* playback: how many are left, the end included
  next_timestamp_clk        \* record: the clock event_alarm is armed for

context == <<pending_alarms, num_pending_alarms, next_pending_alarm_clk,
             next_pending_alarm_idx, pending_idx>>
history == <<event_mode, events, next_timestamp_clk>>
vars == <<alarms, context, clk, running, offset, frame, history>>

(* The result of an addition to, or a subtraction from, a CLOCK.           *)
Wrap(x) ==
  IF x < 0 THEN x + ClockMax + 1
  ELSE IF x > ClockMax THEN x - ClockMax - 1
  ELSE x

pending == {a \in Alarm : pending_idx[a] >= 0}

DueClk(a) == pending_alarms[pending_idx[a]].clk

-----------------------------------------------------------------------------
(* alarm_context_init; the video chip's initialisation arms its alarm.     *)
InitContext ==
  IF VideoAlarm = NoAlarm
  THEN /\ pending_alarms = [i \in Slots(0) |-> 0]
       /\ num_pending_alarms = 0
       /\ next_pending_alarm_clk = ClockMax
       /\ next_pending_alarm_idx = -1
       /\ pending_idx = [a \in Alarm |-> -1]
  ELSE \E c \in 1 .. FrameCycles :
         /\ pending_alarms =
              [i \in Slots(1) |-> [alarm |-> VideoAlarm, clk |-> c]]
         /\ num_pending_alarms = 1
         /\ next_pending_alarm_clk = c
         /\ next_pending_alarm_idx = 0
         /\ pending_idx = [a \in Alarm |-> IF a = VideoAlarm THEN 0 ELSE -1]

Init ==
  /\ alarms \in SUBSET Alarm
  /\ {VideoAlarm, EventAlarm} \subseteq alarms \cup {NoAlarm}
  /\ InitContext
  /\ clk = 0
  /\ running = NoAlarm
  /\ offset = 0
  /\ frame = 0
  /\ event_mode = "none"
  /\ events = 0
  /\ next_timestamp_clk = 0

-----------------------------------------------------------------------------
(* The functions of alarm.h and alarm.c, as changes of the context.        *)

(* The <= of the loop makes the last of several earliest slots win.        *)
alarm_context_update_next_pending(slots) ==
  \E i \in DOMAIN slots :
    /\ \A j \in DOMAIN slots : /\ slots[i].clk <= slots[j].clk
                               /\ slots[i].clk = slots[j].clk => j <= i
    /\ next_pending_alarm_clk' = slots[i].clk
    /\ next_pending_alarm_idx' = i

(* Slip: the array has no limit.                                           *)
SetNew_Unlimited(a, c) ==
  /\ pending_alarms' = [i \in Slots(num_pending_alarms + 1) |->
                          IF i = num_pending_alarms
                          THEN [alarm |-> a, clk |-> c]
                          ELSE pending_alarms[i]]
  /\ num_pending_alarms' = num_pending_alarms + 1
  /\ next_pending_alarm_clk' = IF c < next_pending_alarm_clk THEN c
                               ELSE next_pending_alarm_clk
  /\ next_pending_alarm_idx' = IF c < next_pending_alarm_clk
                               THEN num_pending_alarms
                               ELSE next_pending_alarm_idx
  /\ pending_idx' = [pending_idx EXCEPT ![a] = num_pending_alarms]

SetNew(a, c) ==
  /\ num_pending_alarms < MaxPending
  /\ pending_alarms' = [i \in Slots(num_pending_alarms + 1) |->
                          IF i = num_pending_alarms
                          THEN [alarm |-> a, clk |-> c]
                          ELSE pending_alarms[i]]
  /\ num_pending_alarms' = num_pending_alarms + 1
  /\ IF c < next_pending_alarm_clk
     THEN /\ next_pending_alarm_clk' = c
          /\ next_pending_alarm_idx' = num_pending_alarms
     ELSE UNCHANGED <<next_pending_alarm_clk, next_pending_alarm_idx>>
  /\ pending_idx' = [pending_idx EXCEPT ![a] = num_pending_alarms]

(* Slip: moving the next alarm back does not look for another one.         *)
SetAgain_KeepsNext(a, c) ==
  LET idx == pending_idx[a]
      slots == [pending_alarms EXCEPT ![idx] = [alarm |-> a, clk |-> c]]
  IN  /\ pending_alarms' = slots
      /\ IF next_pending_alarm_clk > c
         THEN alarm_context_update_next_pending(slots)
         ELSE UNCHANGED <<next_pending_alarm_clk, next_pending_alarm_idx>>
      /\ UNCHANGED <<num_pending_alarms, pending_idx>>

SetAgain(a, c) ==
  LET idx == pending_idx[a]
      slots == [pending_alarms EXCEPT ![idx] = [alarm |-> a, clk |-> c]]
  IN  /\ pending_alarms' = slots
      /\ IF next_pending_alarm_clk > c \/ idx = next_pending_alarm_idx
         THEN alarm_context_update_next_pending(slots)
         ELSE UNCHANGED <<next_pending_alarm_clk, next_pending_alarm_idx>>
      /\ UNCHANGED <<num_pending_alarms, pending_idx>>

alarm_set(a, c) ==
  \/ pending_idx[a] < 0 /\ SetNew(a, c)
  \/ pending_idx[a] < 0 /\ num_pending_alarms >= MaxPending /\ UNCHANGED context
  \/ pending_idx[a] >= 0 /\ SetAgain(a, c)

(* Slip: the alarm of the slot that moves keeps its old index.             *)
Remove_StaleIndex(a) ==
  LET idx == pending_idx[a]
      last == num_pending_alarms - 1
      slots == [i \in Slots(last) |-> IF i = idx THEN pending_alarms[last]
                                      ELSE pending_alarms[i]]
  IN  /\ num_pending_alarms > 1
      /\ pending_alarms' = slots
      /\ num_pending_alarms' = last
      /\ IF next_pending_alarm_idx = idx
         THEN alarm_context_update_next_pending(slots)
         ELSE /\ next_pending_alarm_idx' =
                   IF next_pending_alarm_idx = last THEN idx
                   ELSE next_pending_alarm_idx
              /\ UNCHANGED next_pending_alarm_clk
      /\ pending_idx' = [pending_idx EXCEPT ![a] = -1]

(* Slip: the next alarm's slot moves and the cached index does not follow. *)
Remove_StaleNext(a) ==
  LET idx == pending_idx[a]
      last == num_pending_alarms - 1
      slots == [i \in Slots(last) |-> IF i = idx THEN pending_alarms[last]
                                      ELSE pending_alarms[i]]
  IN  /\ num_pending_alarms > 1
      /\ pending_alarms' = slots
      /\ num_pending_alarms' = last
      /\ IF next_pending_alarm_idx = idx
         THEN alarm_context_update_next_pending(slots)
         ELSE UNCHANGED <<next_pending_alarm_clk, next_pending_alarm_idx>>
      /\ pending_idx' =
           [b \in Alarm |-> IF b = a THEN -1
                            ELSE IF b = pending_alarms[last].alarm THEN idx
                            ELSE pending_idx[b]]

(* The last slot moves into the one that is given up.                      *)
Remove(a) ==
  LET idx == pending_idx[a]
      last == num_pending_alarms - 1
      slots == [i \in Slots(last) |-> IF i = idx THEN pending_alarms[last]
                                      ELSE pending_alarms[i]]
  IN  /\ num_pending_alarms > 1
      /\ pending_alarms' = slots
      /\ num_pending_alarms' = last
      /\ IF next_pending_alarm_idx = idx
         THEN alarm_context_update_next_pending(slots)
         ELSE /\ next_pending_alarm_idx' =
                   IF next_pending_alarm_idx = last THEN idx
                   ELSE next_pending_alarm_idx
              /\ UNCHANGED next_pending_alarm_clk
      /\ pending_idx' =
           [b \in Alarm |-> IF b = a THEN -1
                            ELSE IF b = pending_alarms[last].alarm THEN idx
                            ELSE pending_idx[b]]

RemoveOnly(a) ==
  /\ num_pending_alarms <= 1
  /\ pending_alarms' = [i \in Slots(0) |-> 0]
  /\ num_pending_alarms' = 0
  /\ next_pending_alarm_clk' = ClockMax
  /\ next_pending_alarm_idx' = -1
  /\ pending_idx' = [pending_idx EXCEPT ![a] = -1]

alarm_unset(a) ==
  \/ pending_idx[a] < 0 /\ UNCHANGED context
  \/ pending_idx[a] >= 0 /\ (Remove(a) \/ RemoveOnly(a))

(* Slip: only the cached clock is rebased.                                 *)
alarm_context_time_warp_NextOnly(sub) ==
  /\ next_pending_alarm_clk' = Wrap(next_pending_alarm_clk - sub)
  /\ UNCHANGED <<pending_alarms, num_pending_alarms, next_pending_alarm_idx,
                 pending_idx>>

(* The last assignment is made whether or not an alarm is pending.         *)
alarm_context_time_warp(sub) ==
  /\ pending_alarms' = [i \in DOMAIN pending_alarms |->
                          [pending_alarms[i] EXCEPT !.clk = Wrap(@ - sub)]]
  /\ next_pending_alarm_clk' = Wrap(next_pending_alarm_clk - sub)
  /\ UNCHANGED <<num_pending_alarms, next_pending_alarm_idx, pending_idx>>

-----------------------------------------------------------------------------
(* What the emulated chips do, in a callback or in an instruction: before  *)
(* that starts the loop has left nothing to dispatch.  An alarm is armed   *)
(* after the cycle in which the chip acts.  In an instruction that is its  *)
(* first one at the earliest, so that the alarm may be late at its end; in *)
(* a callback it is the one the callback's alarm was due at, a few cycles  *)
(* ago.                                                                    *)
ChipsAct == running # NoAlarm \/ clk < next_pending_alarm_clk

alarm_new(a) ==
  /\ ChipsAct
  /\ a \notin alarms
  /\ alarms' = alarms \cup {a}
  /\ UNCHANGED <<context, clk, running, offset, frame, history>>

alarm_destroy(a) ==
  /\ ChipsAct
  /\ a \in alarms \ {VideoAlarm, EventAlarm, running}
  /\ alarm_unset(a)
  /\ alarms' = alarms \ {a}
  /\ UNCHANGED <<clk, running, offset, frame, history>>

Arm(a) ==
  /\ ChipsAct
  /\ a \in alarms \ {VideoAlarm, EventAlarm, running}
  /\ \E d \in 1 - offset .. Horizon : alarm_set(a, Wrap(clk + d))
  /\ UNCHANGED <<alarms, clk, running, offset, frame, history>>

Disarm(a) ==
  /\ ChipsAct
  /\ a \in alarms \ {VideoAlarm, EventAlarm}
  /\ alarm_unset(a)
  /\ UNCHANGED <<alarms, clk, running, offset, frame, history>>

-----------------------------------------------------------------------------
(* The CPU loop.                                                           *)

(* One instruction of n cycles: the loop has left nothing to dispatch.  A  *)
(* drive's CPU only runs up to the clock of the main CPU, which calls the  *)
(* guards once a frame.                                                    *)
Execute(n) ==
  /\ running = NoAlarm
  /\ clk < next_pending_alarm_clk
  /\ VideoAlarm = NoAlarm => frame < FrameCycles
  /\ clk' = Wrap(clk + n)
  /\ frame' = frame + n
  /\ UNCHANGED <<alarms, context, running, offset, history>>

(* The handlers of the event history make no use of their offset: a played *)
(* event acts now, however old it is.                                      *)
alarm_context_dispatch ==
  /\ running = NoAlarm
  /\ clk >= next_pending_alarm_clk
  /\ next_pending_alarm_idx \in DOMAIN pending_alarms
  /\ running' = pending_alarms[next_pending_alarm_idx].alarm
  /\ offset' = IF running' = EventAlarm THEN 0
               ELSE clk - next_pending_alarm_clk
  /\ UNCHANGED <<alarms, context, clk, frame, history>>

Returns == running' = NoAlarm /\ offset' = 0

(* A chip's callback leaves its alarm disarmed, or armed for later than it *)
(* was due: a timer runs on from there.                                    *)
Ahead(a) == IF a = VideoAlarm THEN FrameCycles ELSE Horizon

CallbackReturn ==
  /\ running \notin {NoAlarm, EventAlarm}
  /\ running = VideoAlarm => frame = 0
  /\ \/ \E d \in 1 .. Ahead(running) :
          alarm_set(running, Wrap(clk - offset + d))
     \/ running # VideoAlarm /\ alarm_unset(running)
  /\ Returns
  /\ UNCHANGED <<alarms, clk, frame, history>>

-----------------------------------------------------------------------------
(* clkguard.c: the guard of the main CPU is called at the end of a frame,  *)
(* in the callback of the raster alarm; a drive's between two executions.  *)

clk_guard_clock_sub == ((ClkMaxValue - SubMin) \div ClkBase) * ClkBase

(* Slip: event.c does not notice that the clock is moved back.             *)
clk_overflow_callback_Missing(sub) == UNCHANGED history

(* What event.c does when the clock is moved back.                         *)
clk_overflow_callback(sub) ==
  /\ next_timestamp_clk' = IF next_timestamp_clk = 0 THEN 0
                           ELSE Wrap(next_timestamp_clk - sub)
  /\ UNCHANGED <<event_mode, events>>

clk_guard_prevent_overflow ==
  /\ running = VideoAlarm
  /\ IF clk < ClkMaxValue
     THEN UNCHANGED <<context, clk, history>>
     ELSE /\ clk' = Wrap(clk - clk_guard_clock_sub)
          /\ alarm_context_time_warp(clk_guard_clock_sub)
          /\ clk_overflow_callback(clk_guard_clock_sub)
  /\ frame' = 0
  /\ UNCHANGED <<alarms, running, offset>>

-----------------------------------------------------------------------------
(* event.c.  The traps come between two instructions, before which the     *)
(* loop has left nothing to dispatch, and the loop follows them.           *)

Trapped == running = NoAlarm /\ clk < next_pending_alarm_clk

(* A history that starts with a reset starts at clock 0: the reset follows *)
(* in the same DO_INTERRUPT.                                               *)
event_record_start_trap ==
  /\ EventAlarm # NoAlarm
  /\ Trapped
  /\ \E c \in {clk, 0} : /\ next_timestamp_clk' = c
                         /\ alarm_set(EventAlarm, c)
  /\ event_mode' = "record"
  /\ events' = 0
  /\ UNCHANGED <<alarms, clk, running, offset, frame>>

(* What next_timestamp_clk holds is not read again: it is given up here.   *)
event_record_stop ==
  /\ event_mode = "record"
  /\ ChipsAct /\ running # EventAlarm
  /\ alarm_unset(EventAlarm)
  /\ event_mode' = "none"
  /\ next_timestamp_clk' = 0
  /\ UNCHANGED <<alarms, clk, running, offset, frame, events>>

(* An event from before the clock was last moved back is brought forward.  *)
next_alarm_set(new_value) ==
  alarm_set(EventAlarm,
            IF clk > SubMin /\ new_value < clk - SubMin
            THEN Wrap(new_value + clk_guard_clock_sub)
            ELSE new_value)

event_playback_start_trap ==
  /\ EventAlarm # NoAlarm
  /\ Trapped
  /\ event_mode = "none"
  /\ \E c \in RecordedClk : next_alarm_set(c)
  /\ event_mode' = "playback"
  /\ events' \in 1 .. MaxEvents
  /\ UNCHANGED <<alarms, clk, running, offset, frame, next_timestamp_clk>>

event_playback_stop ==
  /\ event_mode = "playback"
  /\ ChipsAct /\ running # EventAlarm
  /\ alarm_unset(EventAlarm)
  /\ event_mode' = "none"
  /\ events' = 0
  /\ UNCHANGED <<alarms, clk, running, offset, frame, next_timestamp_clk>>

(* event_alarm_handler disarms its alarm, then the event is played, which  *)
(* may change other alarms, and then the alarm is armed for the next one:  *)
(* a second on, or when the next event of the list is due, whose clock may *)
(* be the same.                                                            *)
EventBegins ==
  /\ running = EventAlarm
  /\ EventAlarm \in pending
  /\ alarm_unset(EventAlarm)
  /\ UNCHANGED <<alarms, clk, running, offset, frame, history>>

TimestampSet ==
  /\ event_mode = "record"
  /\ next_timestamp_clk' = Wrap(next_timestamp_clk + Second)
  /\ alarm_set(EventAlarm, next_timestamp_clk')
  /\ UNCHANGED <<event_mode, events>>

(* Slip: the list is not advanced.                                         *)
NextEvent_Same ==
  /\ event_mode = "playback"
  /\ events > 1
  /\ next_alarm_set(clk)
  /\ UNCHANGED history

NextEvent ==
  /\ event_mode = "playback"
  /\ events > 1
  /\ events' = events - 1
  /\ \E c \in RecordedClk : next_alarm_set(c)
  /\ UNCHANGED <<event_mode, next_timestamp_clk>>

LastEvent ==
  /\ event_mode = "playback"
  /\ events = 1
  /\ event_mode' = "none"
  /\ events' = 0
  /\ UNCHANGED <<context, next_timestamp_clk>>

EventEnds ==
  /\ running = EventAlarm /\ EventAlarm # NoAlarm
  /\ EventAlarm \notin pending
  /\ TimestampSet \/ NextEvent \/ LastEvent
  /\ Returns
  /\ UNCHANGED <<alarms, clk, frame>>

-----------------------------------------------------------------------------
Next ==
  \/ \E a \in Alarm : alarm_new(a) \/ alarm_destroy(a) \/ Arm(a) \/ Disarm(a)
  \/ \E n \in 1 .. MaxStep : Execute(n)
  \/ alarm_context_dispatch
  \/ CallbackReturn
  \/ clk_guard_prevent_overflow
  \/ event_record_start_trap \/ event_record_stop
  \/ event_playback_start_trap \/ event_playback_stop
  \/ EventBegins \/ EventEnds

Spec == Init /\ [][Next]_vars

(* The CPU loop is a loop: what it can do it does, and a callback ends.    *)
Fairness ==
  /\ WF_vars(alarm_context_dispatch)
  /\ WF_vars(CallbackReturn)
  /\ WF_vars(clk_guard_prevent_overflow)
  /\ WF_vars(EventBegins)
  /\ WF_vars(EventEnds)

FairSpec == Spec /\ Fairness
-----------------------------------------------------------------------------
TypeOK ==
  /\ alarms \subseteq Alarm
  /\ num_pending_alarms \in 0 .. MaxPending
  /\ pending_alarms \in [Slots(num_pending_alarms) -> Slot]
  /\ next_pending_alarm_clk \in CLOCK
  /\ next_pending_alarm_idx \in -1 .. MaxPending - 1
  /\ pending_idx \in [Alarm -> -1 .. MaxPending - 1]
  /\ clk \in CLOCK
  /\ running \in Alarm \cup {NoAlarm}
  /\ offset \in CLOCK
  /\ frame \in Nat
  /\ event_mode \in {"none", "record", "playback"}
  /\ events \in 0 .. MaxEvents
  /\ next_timestamp_clk \in CLOCK

(* The index an alarm keeps and the slot that points back at it agree,     *)
(* whatever swap-removes alarm_unset has made, and only an alarm that      *)
(* exists has a slot: no callback of a destroyed alarm is ever called.     *)
PendingIndicesAgree ==
  /\ \A a \in pending : /\ pending_idx[a] < num_pending_alarms
                        /\ pending_alarms[pending_idx[a]].alarm = a
  /\ \A i \in Slots(num_pending_alarms) :
       /\ pending_idx[pending_alarms[i].alarm] = i
       /\ pending_alarms[i].alarm \in alarms

(* The cached clock and index that the CPU loop reads on every instruction *)
(* are those of an earliest pending alarm.                                 *)
NextIsEarliest ==
  /\ num_pending_alarms > 0
  /\ next_pending_alarm_idx \in Slots(num_pending_alarms)
  /\ pending_alarms[next_pending_alarm_idx].clk = next_pending_alarm_clk
  /\ \A i \in Slots(num_pending_alarms) :
       next_pending_alarm_clk <= pending_alarms[i].clk

(* No CLOCK a chip relies on ever wraps: the CPU clock stays clear of      *)
(* CLOCK_MAX, every alarm of a chip is due within the horizon and late by  *)
(* less than an instruction, and the old or distant clocks that event.c    *)
(* arms do not change that: when the clock is moved back the event alarm   *)
(* is not overdue, so that comparing absolute clocks is comparing times.   *)
ClocksNeverWrap ==
  /\ clk < ClkMaxValue + FrameCycles + MaxStep
  /\ \A i \in Slots(num_pending_alarms) :
       \/ /\ clk < pending_alarms[i].clk + MaxStep
          /\ pending_alarms[i].clk <= clk + Horizon
       \/ /\ pending_alarms[i].alarm = EventAlarm
          /\ running = VideoAlarm => clk < pending_alarms[i].clk + MaxStep

(* event_alarm_handler, "when recording set a timestamp": the one after is *)
(* a second later, and the alarm is armed for it, the clock being moved    *)
(* back in between or not.  (A full array drops the alarm.)                *)
TimestampsASecondApart ==
  [][/\ EventEnds /\ event_mode = "record" =>
          next_timestamp_clk' = next_timestamp_clk + Second
     /\ (/\ event_mode' = "record" /\ EventAlarm \in pending')
          => DueClk(EventAlarm)' = next_timestamp_clk']_vars

(* alarm.h says of next_pending_alarm_clk: "Clock tick for the next pending*)
(* alarm."  When that tick has come there is an alarm to dispatch.         *)
DueMeansPending ==
  clk >= next_pending_alarm_clk => num_pending_alarms > 0

(* The CPU loop always gets back to executing instructions: PROCESS_ALARMS *)
(* terminates, however the callbacks move their own and other alarms.      *)
AlarmsDrain ==
  []<>(running = NoAlarm /\ clk < next_pending_alarm_clk)

(* A context is an alarm service in which time is relative: rebasing the   *)
(* clock, swapping slots and caching the next alarm do not show.           *)
Service == INSTANCE AlarmService
  WITH due <- [a \in pending |-> DueClk(a) - clk]
IsAlarmService == Service!Spec
=============================================================================
