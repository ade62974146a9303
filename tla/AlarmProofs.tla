---------------------------- MODULE AlarmProofs ----------------------------
(***************************************************************************)
(* Proofs about Alarm, for every set of alarms, array size, clock width    *)
(* and frame length that satisfy its assumptions.                          *)
(*                                                                         *)
(* The operations of alarm.c are dealt with once, as changes of a context: *)
(* each keeps Context and says what it does to the clocks of the pending   *)
(* alarms.  The actions then only have to be shown to keep those clocks    *)
(* near the CPU clock, which is what the inductive invariant adds.         *)
(***************************************************************************)
EXTENDS Alarm, TLAPS

(* NextIsEarliest of a context that may be empty.                          *)
EarliestIfAny ==
  IF num_pending_alarms > 0
  THEN /\ next_pending_alarm_idx \in Slots(num_pending_alarms)
       /\ pending_alarms[next_pending_alarm_idx].clk = next_pending_alarm_clk
       /\ \A i \in Slots(num_pending_alarms) :
            next_pending_alarm_clk <= pending_alarms[i].clk
  ELSE next_pending_alarm_clk = ClockMax

ContextTypeOK ==
  /\ num_pending_alarms \in 0 .. MaxPending
  /\ pending_alarms \in [Slots(num_pending_alarms) -> Slot]
  /\ next_pending_alarm_clk \in CLOCK
  /\ next_pending_alarm_idx \in -1 .. MaxPending - 1
  /\ pending_idx \in [Alarm -> -1 .. MaxPending - 1]

IndicesAgree ==
  /\ \A a \in pending : /\ pending_idx[a] < num_pending_alarms
                        /\ pending_alarms[pending_idx[a]].alarm = a
  /\ \A i \in Slots(num_pending_alarms) :
       pending_idx[pending_alarms[i].alarm] = i

Context == ContextTypeOK /\ IndicesAgree

HistoryTypeOK ==
  /\ event_mode \in {"none", "record", "playback"}
  /\ events \in 0 .. MaxEvents
  /\ next_timestamp_clk \in CLOCK
  /\ event_mode # "none" => EventAlarm # NoAlarm

(* What holds of every context, a drive's included.                        *)
TypeInv ==
  /\ Context
  /\ alarms \subseteq Alarm
  /\ pending \subseteq alarms
  /\ {VideoAlarm, EventAlarm} \subseteq alarms \cup {NoAlarm}
  /\ clk \in CLOCK
  /\ running \in alarms \cup {NoAlarm}
  /\ offset \in CLOCK
  /\ frame \in Nat
  /\ HistoryTypeOK

(* Every pending alarm of a chip is near the CPU clock.                    *)
NearClk ==
  \A a \in pending \ {EventAlarm} : /\ clk < DueClk(a) + MaxStep
                                    /\ DueClk(a) <= clk + Horizon

(* clk - frame is the clock at the last call of the guard.                 *)
FrameOK ==
  /\ VideoAlarm \in pending
  /\ frame <= clk
  /\ clk < ClkMaxValue + frame
  /\ DueClk(VideoAlarm) + frame <= clk + FrameCycles

RunningIsDue ==
  /\ running \in pending => DueClk(running) <= clk
  /\ offset < MaxStep /\ offset <= clk

(* While the raster alarm's callback runs, which may move the clock back,  *)
(* the event alarm is not overdue: it would have been called before.       *)
EventNotOverdue ==
  running = VideoAlarm /\ EventAlarm \in pending =>
    clk < DueClk(EventAlarm) + MaxStep

IInv ==
  /\ TypeInv
  /\ EarliestIfAny
  /\ NearClk
  /\ FrameOK
  /\ RunningIsDue
  /\ EventNotOverdue

(* The event alarm of a recording is armed for the next timestamp, which   *)
(* is at most a second ahead, and has come when its callback runs.         *)
RecordInv ==
  event_mode = "record" =>
    /\ EventAlarm \in pending => /\ DueClk(EventAlarm) = next_timestamp_clk
                                 /\ next_timestamp_clk <= clk + Second
    /\ running = EventAlarm => next_timestamp_clk <= clk

-----------------------------------------------------------------------------
(* The constants, spelled out for the provers.                             *)
LEMMA ConstantsOK ==
  /\ MaxPending \in Nat /\ MaxPending > 0
  /\ ClockMax \in Nat /\ SubMin \in Nat /\ SubMin > 0
  /\ ClkBase \in Nat /\ ClkBase > 0 /\ ClkBase <= SubMin
  /\ FrameCycles \in Nat /\ FrameCycles > 0 /\ FrameCycles <= Horizon
  /\ MaxStep \in Nat /\ MaxStep > 0
  /\ Horizon \in Nat /\ Horizon > 0 /\ Horizon <= ClockMax
  /\ Second \in Nat /\ Second > 0 /\ Second <= ClockMax
  /\ MaxEvents \in Nat /\ MaxEvents > 0
  /\ FrameCycles + MaxStep < SubMin
  /\ ClkMaxValue = ClockMax - SubMin
  /\ ClkMaxValue \in Nat /\ ClkMaxValue >= 3 * SubMin
BY AlarmAssumption, GuardAssumption DEF ClkMaxValue

(* A sum or difference of clocks wraps into a clock.                       *)
LEMMA WrapIsClock ==
  ASSUME NEW x \in Int, -ClockMax <= x, x <= 2 * ClockMax
  PROVE  Wrap(x) \in CLOCK
BY ConstantsOK DEF Wrap, CLOCK

(* A pending alarm has a slot of its own, and its clock is that slot's.    *)
LEMMA SlotOfPending ==
  ASSUME Context
  PROVE  /\ num_pending_alarms \in Nat
         /\ \A a \in pending : /\ pending_idx[a] \in Slots(num_pending_alarms)
                              /\ pending_alarms[pending_idx[a]].alarm = a
                              /\ DueClk(a) \in CLOCK
         /\ \A i \in Slots(num_pending_alarms) :
              /\ pending_alarms[i].alarm \in pending
              /\ DueClk(pending_alarms[i].alarm) = pending_alarms[i].clk
<1>1. num_pending_alarms \in Nat
  BY DEF Context, ContextTypeOK
<1>2. \A a \in pending : /\ pending_idx[a] < num_pending_alarms
                         /\ pending_alarms[pending_idx[a]].alarm = a
                         /\ pending_idx[a] \in Nat
  <2>1. \A a \in pending : pending_idx[a] \in Nat
    BY DEF Context, ContextTypeOK, pending
  <2> QED BY <2>1 DEF Context, IndicesAgree
<1>3. \A a \in pending : pending_idx[a] \in Slots(num_pending_alarms)
  BY <1>1, <1>2 DEF Slots
<1>4. \A a \in pending : DueClk(a) \in CLOCK
  BY <1>3 DEF Context, ContextTypeOK, Slot, DueClk
<1>5. ASSUME NEW i \in Slots(num_pending_alarms)
      PROVE  /\ pending_alarms[i].alarm \in pending
             /\ DueClk(pending_alarms[i].alarm) = pending_alarms[i].clk
  <2>1. pending_alarms[i].alarm \in Alarm
    BY DEF Context, ContextTypeOK, Slot
  <2>2. pending_idx[pending_alarms[i].alarm] = i /\ i >= 0
    BY <1>1 DEF Context, IndicesAgree, Slots
  <2> QED BY <2>1, <2>2 DEF pending, DueClk
<1> QED BY <1>1, <1>2, <1>3, <1>4, <1>5

(* What alarm_set does, whichever of its three cases applies: the alarm is *)
(* pending at c, or (the array is full) nothing has changed.  In an empty  *)
(* context the cached clock does not notice an alarm at CLOCK_MAX.         *)
LEMMA SetKeepsContext ==
  ASSUME Context, NEW a \in Alarm, NEW c \in CLOCK, alarm_set(a, c)
  PROVE  /\ Context'
         /\ pending \subseteq pending'
         /\ pending' \subseteq pending \cup {a}
         /\ \A b \in pending \ {a} : DueClk(b)' = DueClk(b)
         /\ a \in pending' => DueClk(a)' = c
         /\ EarliestIfAny /\ (c < ClockMax \/ num_pending_alarms > 0)
              => EarliestIfAny'
<1>1. CASE pending_idx[a] < 0 /\ SetNew(a, c)
  <2>1. Context'
    <3> DEFINE slot == [alarm |-> a, clk |-> c]
    <3>a. slot \in Slot
      BY ConstantsOK DEF Slot, CLOCK
    <3>b. pending_alarms' \in [Slots(num_pending_alarms + 1) -> Slot]
      BY <1>1, <3>a DEF Context, ContextTypeOK, SetNew, Slots
    <3>1. ContextTypeOK'
      BY <1>1, <3>b, ConstantsOK
      DEF Context, ContextTypeOK, SetNew, CLOCK
    <3>2. IndicesAgree'
      BY <1>1, ConstantsOK
      DEF Context, ContextTypeOK, IndicesAgree, SetNew, Slots, Slot, pending
    <3> QED BY <3>1, <3>2 DEF Context
  <2>2. ASSUME EarliestIfAny, c < ClockMax \/ num_pending_alarms > 0
        PROVE  EarliestIfAny'
    BY <1>1, <2>2, ConstantsOK
    DEF Context, ContextTypeOK, EarliestIfAny, SetNew, Slots, Slot, CLOCK
  <2>3. /\ pending \subseteq pending'
        /\ pending' \subseteq pending \cup {a}
        /\ \A b \in pending \ {a} : DueClk(b)' = DueClk(b)
        /\ a \in pending' => DueClk(a)' = c
    BY <1>1
    DEF Context, ContextTypeOK, IndicesAgree, SetNew, Slots, pending, DueClk
  <2> QED BY <2>1, <2>2, <2>3
<1>2. CASE UNCHANGED context /\ pending_idx[a] < 0
  BY <1>2 DEF context, Context, ContextTypeOK, IndicesAgree, EarliestIfAny,
              pending, DueClk
<1>3. CASE pending_idx[a] >= 0 /\ SetAgain(a, c)
  <2> DEFINE idx == pending_idx[a]
             slots == [pending_alarms EXCEPT ![idx] = [alarm |-> a, clk |-> c]]
  <2>a. [alarm |-> a, clk |-> c] \in Slot
    BY ConstantsOK DEF Slot, CLOCK
  <2>b. idx \in Slots(num_pending_alarms)
    BY <1>3 DEF Context, ContextTypeOK, IndicesAgree, Slots, pending
  <2>1. /\ slots \in [Slots(num_pending_alarms) -> Slot]
        /\ slots[idx] = [alarm |-> a, clk |-> c]
        /\ \A i \in Slots(num_pending_alarms) \ {idx} :
             slots[i] = pending_alarms[i]
        /\ pending_alarms' = slots
        /\ num_pending_alarms' = num_pending_alarms
        /\ pending_idx' = pending_idx
    BY <1>3, <2>a, <2>b DEF Context, ContextTypeOK, SetAgain
  <2> DEFINE Cached == /\ next_pending_alarm_idx' \in Slots(num_pending_alarms)
                       /\ slots[next_pending_alarm_idx'].clk =
                            next_pending_alarm_clk'
                       /\ \A i \in Slots(num_pending_alarms) :
                            next_pending_alarm_clk' <= slots[i].clk
  <2>2. \/ Cached
        \/ /\ UNCHANGED <<next_pending_alarm_clk, next_pending_alarm_idx>>
           /\ next_pending_alarm_clk <= c /\ idx # next_pending_alarm_idx
    <3>1. CASE next_pending_alarm_clk > c \/ idx = next_pending_alarm_idx
      BY <3>1, <2>1, <1>3 DEF SetAgain, alarm_context_update_next_pending
    <3>2. CASE ~(next_pending_alarm_clk > c \/ idx = next_pending_alarm_idx)
      <4>1. UNCHANGED <<next_pending_alarm_clk, next_pending_alarm_idx>>
        BY <3>2, <1>3 DEF SetAgain
      <4> QED BY <4>1, <3>2 DEF Context, ContextTypeOK, CLOCK
    <3> QED BY <3>1, <3>2
  <2>c. EarliestIfAny => Cached
    <3> SUFFICES ASSUME EarliestIfAny PROVE Cached
      OBVIOUS
    <3>1. CASE /\ UNCHANGED <<next_pending_alarm_clk, next_pending_alarm_idx>>
               /\ next_pending_alarm_clk <= c /\ idx # next_pending_alarm_idx
      BY <3>1, <2>1, <2>b
      DEF Context, ContextTypeOK, EarliestIfAny, Slots, CLOCK
    <3> QED BY <3>1, <2>2
  <2>3. ContextTypeOK'
    <3>1. CASE Cached
      <4>1. pending_alarms'[next_pending_alarm_idx'] \in Slot
        BY <2>1, <3>1
      <4>2. next_pending_alarm_clk' \in CLOCK
        BY <4>1, <2>1, <3>1 DEF Slot
      <4> QED BY <4>2, <2>1, <3>1, ConstantsOK DEF Context, ContextTypeOK, Slots
    <3>2. CASE UNCHANGED <<next_pending_alarm_clk, next_pending_alarm_idx>>
      BY <3>2, <2>1 DEF Context, ContextTypeOK
    <3> QED BY <3>1, <3>2, <2>2
  <2>4. IndicesAgree'
    <3>1. \A i \in Slots(num_pending_alarms) :
            slots[i].alarm = pending_alarms[i].alarm
      BY <2>1, <1>3 DEF Context, IndicesAgree, pending
    <3> QED BY <3>1, <2>1 DEF Context, ContextTypeOK, IndicesAgree, pending, Slots
  <2>5. EarliestIfAny => EarliestIfAny'
    BY <2>1, <2>c, <2>b DEF EarliestIfAny, Slots, Context, ContextTypeOK
  <2>6. \A b \in pending \ {a} : pending_idx[b] # idx
                                 /\ pending_idx[b] \in Slots(num_pending_alarms)
    BY <1>3 DEF Context, ContextTypeOK, IndicesAgree, pending, Slots
  <2> QED BY <2>1, <2>3, <2>4, <2>5, <2>6 DEF Context, pending, DueClk
<1> QED BY <1>1, <1>2, <1>3 DEF alarm_set

(* What alarm_unset does: exactly one alarm is no longer pending, and the  *)
(* swap with the last slot leaves every other alarm's clock as it was.     *)
LEMMA UnsetKeepsContext ==
  ASSUME Context, NEW a \in Alarm, alarm_unset(a)
  PROVE  /\ Context'
         /\ pending' = pending \ {a}
         /\ \A b \in pending \ {a} : DueClk(b)' = DueClk(b)
         /\ EarliestIfAny => EarliestIfAny'
<1>1. CASE pending_idx[a] < 0 /\ UNCHANGED context
  BY <1>1 DEF context, Context, ContextTypeOK, IndicesAgree, EarliestIfAny,
              pending, DueClk
<1>2. CASE pending_idx[a] >= 0 /\ Remove(a)
  <2> DEFINE n == num_pending_alarms
             idx == pending_idx[a]
             last == n - 1
             slots == [i \in Slots(last) |-> IF i = idx THEN pending_alarms[last]
                                             ELSE pending_alarms[i]]
             moved == pending_alarms[last].alarm
  <2>1. /\ n \in Nat /\ n > 1 /\ n <= MaxPending
        /\ idx \in Slots(n)
        /\ last \in Slots(n)
        /\ pending_alarms[idx].alarm = a
        /\ moved \in Alarm
        /\ pending_idx[moved] = last
    BY <1>2, ConstantsOK
    DEF Context, ContextTypeOK, IndicesAgree, Remove, Slots, Slot, pending
  <2>2. /\ pending_alarms' = slots
        /\ num_pending_alarms' = last
        /\ pending_idx' = [b \in Alarm |-> IF b = a THEN -1
                                           ELSE IF b = moved THEN idx
                                           ELSE pending_idx[b]]
    BY <1>2 DEF Remove
  <2>3. slots \in [Slots(last) -> Slot]
    BY <2>1 DEF Context, ContextTypeOK, Slots
  <2>4. \A b \in pending \ {a} : /\ pending_idx[b] \in Slots(n)
                                 /\ pending_idx[b] # idx
                                 /\ pending_idx[b] = last <=> b = moved
                                 /\ pending_alarms[pending_idx[b]].alarm = b
    BY <2>1 DEF Context, ContextTypeOK, IndicesAgree, pending, Slots
  <2>5. \A b \in pending \ {a} : /\ pending_idx'[b] \in Slots(last)
                                 /\ slots[pending_idx'[b]] =
                                      pending_alarms[pending_idx[b]]
    BY <2>1, <2>2, <2>4 DEF Context, ContextTypeOK, pending, Slots
  <2>6. pending' = pending \ {a}
    BY <2>1, <2>2 DEF Context, ContextTypeOK, pending, Slots
  <2> DEFINE Cached == /\ next_pending_alarm_idx' \in Slots(last)
                       /\ slots[next_pending_alarm_idx'].clk =
                            next_pending_alarm_clk'
                       /\ \A i \in Slots(last) :
                            next_pending_alarm_clk' <= slots[i].clk
  <2>7. \/ next_pending_alarm_idx = idx /\ Cached
        \/ /\ next_pending_alarm_idx # idx
           /\ next_pending_alarm_idx' = IF next_pending_alarm_idx = last
                                        THEN idx ELSE next_pending_alarm_idx
           /\ next_pending_alarm_clk' = next_pending_alarm_clk
    <3>1. CASE next_pending_alarm_idx = idx
      BY <3>1, <2>3, <1>2 DEF Remove, alarm_context_update_next_pending
    <3>2. CASE next_pending_alarm_idx # idx
      BY <3>2, <1>2 DEF Remove
    <3> QED BY <3>1, <3>2
  <2>c. EarliestIfAny => Cached
    <3> SUFFICES ASSUME EarliestIfAny, next_pending_alarm_idx # idx
                 PROVE  Cached
      BY <2>7
    <3>1. /\ next_pending_alarm_idx' = IF next_pending_alarm_idx = last
                                       THEN idx ELSE next_pending_alarm_idx
          /\ next_pending_alarm_clk' = next_pending_alarm_clk
      BY <2>7
    <3>2. /\ next_pending_alarm_idx \in Slots(n)
          /\ pending_alarms[next_pending_alarm_idx].clk =
               next_pending_alarm_clk
          /\ \A i \in Slots(n) :
               next_pending_alarm_clk <= pending_alarms[i].clk
      BY <2>1 DEF EarliestIfAny
    <3>3. \A i \in Slots(last) : \E j \in Slots(n) :
            slots[i] = pending_alarms[j]
      BY <2>1 DEF Slots
    <3>4. next_pending_alarm_idx' \in Slots(last)
      BY <3>1, <3>2, <2>1 DEF Slots
    <3>5. slots[next_pending_alarm_idx'] = pending_alarms[next_pending_alarm_idx]
      BY <3>1, <3>2, <3>4, <2>1 DEF Slots
    <3> QED BY <3>1, <3>2, <3>3, <3>4, <3>5
  <2>8. ContextTypeOK'
    <3>1. /\ next_pending_alarm_clk' \in CLOCK
          /\ next_pending_alarm_idx' \in -1 .. MaxPending - 1
      <4>1. CASE Cached
        <5>1. next_pending_alarm_clk' \in CLOCK
          BY <2>3, <4>1 DEF Slot
        <5> QED BY <5>1, <4>1, <2>1, ConstantsOK DEF Slots
      <4>2. CASE ~Cached
        <5>1. /\ next_pending_alarm_clk' = next_pending_alarm_clk
              /\ next_pending_alarm_idx' \in {idx, next_pending_alarm_idx}
          BY <4>2, <2>7
        <5>2. idx \in -1 .. MaxPending - 1
          BY <2>1, ConstantsOK DEF Slots
        <5>3. /\ next_pending_alarm_clk \in CLOCK
              /\ next_pending_alarm_idx \in -1 .. MaxPending - 1
          BY DEF Context, ContextTypeOK
        <5> HIDE DEF idx
        <5> QED BY <5>1, <5>2, <5>3
      <4> QED BY <4>1, <4>2
    <3>2. pending_idx' \in [Alarm -> -1 .. MaxPending - 1]
      <4>1. idx \in -1 .. MaxPending - 1 /\ -1 \in -1 .. MaxPending - 1
        BY <2>1, ConstantsOK DEF Slots
      <4>2. \A b \in Alarm : pending_idx[b] \in -1 .. MaxPending - 1
        BY DEF Context, ContextTypeOK
      <4> HIDE DEF idx, moved
      <4> QED BY <4>1, <4>2, <2>2
    <3>3. last \in 0 .. MaxPending
      BY <2>1, ConstantsOK
    <3> HIDE DEF last, slots, Cached
    <3> QED BY <3>1, <3>2, <3>3, <2>2, <2>3 DEF ContextTypeOK
  <2>9. IndicesAgree'
    <3>1. \A b \in pending' : /\ pending_idx'[b] < num_pending_alarms'
                              /\ pending_alarms'[pending_idx'[b]].alarm = b
      <4>1. \A b \in pending' : b \in pending \ {a}
        BY <2>6
      <4>2. \A i \in Slots(last) : i < last
        BY <2>1 DEF Slots
      <4> HIDE DEF slots, last
      <4> QED BY <4>1, <4>2, <2>2, <2>4, <2>5
    <3>2. ASSUME NEW i \in Slots(last)
          PROVE  pending_idx'[slots[i].alarm] = i
      <4>1. CASE i = idx
        <5>1. slots[i].alarm = moved /\ moved # a
          BY <4>1, <3>2, <2>1 DEF Slots
        <5> QED BY <5>1, <4>1, <2>1, <2>2
      <4>2. CASE i # idx
        <5>1. /\ slots[i].alarm = pending_alarms[i].alarm
              /\ pending_alarms[i].alarm \in Alarm
              /\ pending_idx[pending_alarms[i].alarm] = i
          BY <4>2, <3>2, <2>1
          DEF Context, ContextTypeOK, IndicesAgree, Slots, Slot
        <5>2. pending_alarms[i].alarm # a /\ pending_alarms[i].alarm # moved
          BY <5>1, <4>2, <3>2, <2>1 DEF Slots
        <5> QED BY <5>1, <5>2, <2>2
      <4> QED BY <4>1, <4>2
    <3> QED BY <3>1, <3>2, <2>2 DEF IndicesAgree, pending
  <2>10. EarliestIfAny => EarliestIfAny'
    BY <2>1, <2>2, <2>c DEF EarliestIfAny
  <2> QED BY <2>2, <2>5, <2>6, <2>8, <2>9, <2>10 DEF Context, DueClk
<1>3. CASE pending_idx[a] >= 0 /\ RemoveOnly(a)
  <2>1. pending = {a}
    BY <1>3 DEF Context, ContextTypeOK, IndicesAgree, RemoveOnly, pending
  <2>2. pending' = {}
    BY <2>1, <1>3 DEF Context, ContextTypeOK, RemoveOnly, pending
  <2>3. Context' /\ EarliestIfAny'
    BY <2>2, <1>3, ConstantsOK
    DEF Context, ContextTypeOK, IndicesAgree, EarliestIfAny, RemoveOnly, Slots,
        CLOCK
  <2> QED BY <2>1, <2>2, <2>3
<1> QED BY <1>1, <1>2, <1>3 DEF alarm_unset

-----------------------------------------------------------------------------
(* The amount the guard subtracts leaves at least SubMin and less than     *)
(* SubMin + ClkBase of ClkMaxValue.                                        *)
LEMMA ClockSubBounds ==
  /\ clk_guard_clock_sub \in Nat
  /\ clk_guard_clock_sub <= ClkMaxValue - SubMin
  /\ clk_guard_clock_sub > ClkMaxValue - SubMin - ClkBase
<1> DEFINE x == ClkMaxValue - SubMin
           q == x \div ClkBase
<1>1. x \in Nat /\ ClkBase \in Nat /\ ClkBase > 0
  BY ConstantsOK
<1>2. /\ q \in Nat
      /\ x = ClkBase * q + (x % ClkBase)
      /\ x % ClkBase \in 0 .. ClkBase - 1
  BY <1>1, Z3
<1> HIDE DEF q, x
<1>3. q * ClkBase = ClkBase * q /\ q * ClkBase \in Nat
  BY <1>1, <1>2
<1>4. /\ q * ClkBase \in Nat
      /\ q * ClkBase <= x
      /\ q * ClkBase > x - ClkBase
  BY <1>1, <1>2, <1>3
<1> QED BY <1>4 DEF clk_guard_clock_sub, q, x

(* Moving the clocks back moves every slot's, and keeps the context.       *)
LEMMA WarpKeepsContext ==
  ASSUME Context, NEW sub \in 0 .. ClockMax, alarm_context_time_warp(sub)
  PROVE  /\ Context'
         /\ pending' = pending
         /\ UNCHANGED <<num_pending_alarms, next_pending_alarm_idx>>
         /\ next_pending_alarm_clk' = Wrap(next_pending_alarm_clk - sub)
         /\ \A i \in Slots(num_pending_alarms) :
              pending_alarms'[i].clk = Wrap(pending_alarms[i].clk - sub)
         /\ \A a \in pending : DueClk(a)' = Wrap(DueClk(a) - sub)
<1>1. DOMAIN pending_alarms = Slots(num_pending_alarms)
  BY DEF Context, ContextTypeOK
<1>2. \A i \in Slots(num_pending_alarms) :
        /\ pending_alarms[i].alarm \in Alarm
        /\ Wrap(pending_alarms[i].clk - sub) \in CLOCK
        /\ [pending_alarms[i] EXCEPT !.clk = Wrap(@ - sub)] =
             [alarm |-> pending_alarms[i].alarm,
              clk |-> Wrap(pending_alarms[i].clk - sub)]
  <2> SUFFICES ASSUME NEW i \in Slots(num_pending_alarms)
               PROVE  /\ pending_alarms[i].alarm \in Alarm
                      /\ Wrap(pending_alarms[i].clk - sub) \in CLOCK
                      /\ [pending_alarms[i] EXCEPT !.clk = Wrap(@ - sub)] =
                           [alarm |-> pending_alarms[i].alarm,
                            clk |-> Wrap(pending_alarms[i].clk - sub)]
    OBVIOUS
  <2>1. pending_alarms[i] \in Slot
    BY DEF Context, ContextTypeOK
  <2>2. pending_alarms[i].clk \in CLOCK
    BY <2>1 DEF Slot
  <2>3. Wrap(pending_alarms[i].clk - sub) \in CLOCK
    BY <2>2, WrapIsClock, ConstantsOK DEF CLOCK
  <2> QED BY <2>1, <2>3 DEF Slot
<1>3. pending_alarms' = [i \in Slots(num_pending_alarms) |->
                           [alarm |-> pending_alarms[i].alarm,
                            clk |-> Wrap(pending_alarms[i].clk - sub)]]
  <2>1. pending_alarms' = [i \in Slots(num_pending_alarms) |->
                             [pending_alarms[i] EXCEPT !.clk = Wrap(@ - sub)]]
    BY <1>1 DEF alarm_context_time_warp
  <2> QED BY <2>1, <1>2
<1>4. pending_alarms' \in [Slots(num_pending_alarms) -> Slot]
  BY <1>2, <1>3 DEF Slot
<1>5. /\ num_pending_alarms' = num_pending_alarms
      /\ pending_idx' = pending_idx
      /\ next_pending_alarm_idx' = next_pending_alarm_idx
      /\ next_pending_alarm_clk' = Wrap(next_pending_alarm_clk - sub)
  BY DEF alarm_context_time_warp
<1>6. next_pending_alarm_clk' \in CLOCK
  BY <1>5, WrapIsClock, ConstantsOK DEF Context, ContextTypeOK, CLOCK
<1>7. ContextTypeOK'
  BY <1>4, <1>5, <1>6 DEF Context, ContextTypeOK
<1>8. IndicesAgree'
  BY <1>3, <1>5 DEF Context, ContextTypeOK, IndicesAgree, pending, Slots
<1>9. \A a \in pending : pending_idx[a] \in Slots(num_pending_alarms)
  BY SlotOfPending
<1>10. \A i \in Slots(num_pending_alarms) :
         pending_alarms'[i].clk = Wrap(pending_alarms[i].clk - sub)
  BY <1>3
<1>11. \A a \in pending : DueClk(a)' = Wrap(DueClk(a) - sub)
  BY <1>5, <1>9, <1>10 DEF DueClk
<1>12. pending' = pending
  BY <1>5 DEF pending
<1> QED BY <1>5, <1>7, <1>8, <1>10, <1>11, <1>12 DEF Context

-----------------------------------------------------------------------------
(* The types and the indices, of any context.                              *)
LEMMA TypeInit == Init => TypeInv
<1> SUFFICES ASSUME Init PROVE TypeInv
  OBVIOUS
<1>1. /\ {VideoAlarm, EventAlarm} \subseteq alarms \cup {NoAlarm}
      /\ alarms \subseteq Alarm
      /\ HistoryTypeOK /\ clk \in CLOCK /\ offset \in CLOCK /\ frame \in Nat
      /\ running = NoAlarm
  BY ConstantsOK DEF Init, HistoryTypeOK, CLOCK
<1>2. Context /\ pending \subseteq alarms
  <2>1. CASE VideoAlarm = NoAlarm
    <3>1. /\ num_pending_alarms = 0
          /\ pending_alarms = [i \in Slots(0) |-> 0]
          /\ next_pending_alarm_clk = ClockMax
          /\ next_pending_alarm_idx = -1
          /\ pending_idx = [a \in Alarm |-> -1]
      BY <2>1 DEF Init, InitContext
    <3>2. Slots(0) = {} /\ pending = {}
      BY <3>1 DEF Slots, pending
    <3> QED BY <3>1, <3>2, ConstantsOK
            DEF Context, ContextTypeOK, IndicesAgree, CLOCK
  <2>2. CASE VideoAlarm # NoAlarm
    <3>1. PICK c \in 1 .. FrameCycles :
            /\ pending_alarms =
                 [i \in Slots(1) |-> [alarm |-> VideoAlarm, clk |-> c]]
            /\ num_pending_alarms = 1
            /\ next_pending_alarm_clk = c
            /\ next_pending_alarm_idx = 0
            /\ pending_idx =
                 [a \in Alarm |-> IF a = VideoAlarm THEN 0 ELSE -1]
      BY <2>2 DEF Init, InitContext
    <3>2. VideoAlarm \in Alarm /\ VideoAlarm \in alarms
      BY <2>2, <1>1
    <3>3. /\ Slots(1) = {0}
          /\ c \in CLOCK
          /\ [alarm |-> VideoAlarm, clk |-> c] \in Slot
      BY <3>2, ConstantsOK DEF Slots, Slot, CLOCK
    <3>4. pending = {VideoAlarm} /\ pending_idx[VideoAlarm] = 0
      <4>1. \A a \in Alarm : pending_idx[a] = IF a = VideoAlarm THEN 0 ELSE -1
        BY <3>1
      <4> QED BY <4>1, <3>2 DEF pending
    <3>5. pending_alarms[0] = [alarm |-> VideoAlarm, clk |-> c]
      BY <3>1, <3>3
    <3>6. ContextTypeOK
      BY <3>1, <3>3, ConstantsOK DEF ContextTypeOK
    <3>7. IndicesAgree
      <4>1. num_pending_alarms = 1
        BY <3>1
      <4> QED BY <4>1, <3>3, <3>4, <3>5 DEF IndicesAgree
    <3> QED BY <3>2, <3>4, <3>6, <3>7 DEF Context
  <2> QED BY <2>1, <2>2
<1> QED BY <1>1, <1>2 DEF TypeInv

LEMMA SetKeepsType ==
  ASSUME TypeInv, NEW a \in alarms, NEW c \in CLOCK, alarm_set(a, c),
         UNCHANGED <<alarms, clk, frame>>, HistoryTypeOK',
         running' \in {running, NoAlarm}, offset' \in {offset, 0}
  PROVE  TypeInv'
<1>1. Context' /\ pending' \subseteq pending \cup {a}
  BY SetKeepsContext DEF TypeInv
<1>2. offset' \in CLOCK
  BY ConstantsOK DEF TypeInv, CLOCK
<1> QED BY <1>1, <1>2 DEF TypeInv

LEMMA UnsetKeepsType ==
  ASSUME TypeInv, NEW a \in Alarm, alarm_unset(a),
         \/ alarms' = alarms
         \/ a \notin {running, VideoAlarm, EventAlarm} /\ alarms' = alarms \ {a},
         UNCHANGED <<clk, frame>>, HistoryTypeOK',
         running' \in {running, NoAlarm}, offset' \in {offset, 0}
  PROVE  TypeInv'
<1>1. Context' /\ pending' = pending \ {a}
  BY UnsetKeepsContext DEF TypeInv
<1>2. offset' \in CLOCK
  BY ConstantsOK DEF TypeInv, CLOCK
<1>3. /\ alarms' \subseteq Alarm
      /\ pending' \subseteq alarms'
      /\ {VideoAlarm, EventAlarm} \subseteq alarms' \cup {NoAlarm}
      /\ running' \in alarms' \cup {NoAlarm}
  BY <1>1 DEF TypeInv
<1> QED BY <1>1, <1>2, <1>3 DEF TypeInv

(* next_alarm_set arms the event alarm for some clock.                     *)
LEMMA NextAlarmIsSet ==
  ASSUME TypeInv, NEW c \in RecordedClk, next_alarm_set(c)
  PROVE  \E d \in CLOCK : alarm_set(EventAlarm, d)
<1>1. c \in CLOCK
  BY RecordedAssumption, ConstantsOK DEF CLOCK
<1>2. Wrap(c + clk_guard_clock_sub) \in CLOCK
  BY <1>1, ClockSubBounds, ConstantsOK, WrapIsClock DEF CLOCK
<1> QED BY <1>1, <1>2 DEF next_alarm_set

LEMMA TypeNext ==
  ASSUME TypeInv, [Next]_vars
  PROVE  TypeInv'
<1> USE DEF HistoryTypeOK
<1>1. ASSUME NEW a \in Alarm, alarm_new(a)
      PROVE  TypeInv'
  BY <1>1 DEF alarm_new, context, history, TypeInv, Context, ContextTypeOK,
              IndicesAgree, pending
<1>2. ASSUME NEW a \in Alarm, alarm_destroy(a)
      PROVE  TypeInv'
  BY <1>2, UnsetKeepsType DEF alarm_destroy, history, TypeInv
<1>3. ASSUME NEW a \in Alarm, Arm(a)
      PROVE  TypeInv'
  <2>1. PICK d \in 1 - offset .. Horizon : alarm_set(a, Wrap(clk + d))
    BY <1>3 DEF Arm
  <2>2. d \in Int /\ 1 - offset <= d /\ d <= Horizon
    BY ConstantsOK DEF TypeInv, CLOCK
  <2>3. Wrap(clk + d) \in CLOCK
    BY <2>2, WrapIsClock, ConstantsOK DEF TypeInv, CLOCK
  <2>4. a \in alarms /\ UNCHANGED <<alarms, clk, running, offset, frame, history>>
    BY <1>3 DEF Arm
  <2> QED BY <2>1, <2>3, <2>4, SetKeepsType DEF history, TypeInv
<1>4. ASSUME NEW a \in Alarm, Disarm(a)
      PROVE  TypeInv'
  BY <1>4, UnsetKeepsType DEF Disarm, history, TypeInv
<1>5. ASSUME NEW n \in 1 .. MaxStep, Execute(n)
      PROVE  TypeInv'
  <2>1. n \in Nat /\ n <= ClockMax
    BY ConstantsOK
  <2>2. Wrap(clk + n) \in CLOCK
    BY <2>1, WrapIsClock, ConstantsOK DEF TypeInv, CLOCK
  <2>3. clk' \in CLOCK /\ frame' \in Nat
    BY <1>5, <2>1, <2>2 DEF Execute, TypeInv
  <2> QED BY <1>5, <2>3
    DEF Execute, context, history, TypeInv, Context, ContextTypeOK,
        IndicesAgree, pending
<1>6. ASSUME alarm_context_dispatch
      PROVE  TypeInv'
  <2> DEFINE i == next_pending_alarm_idx
  <2>1. /\ i \in Slots(num_pending_alarms)
        /\ running' = pending_alarms[i].alarm
        /\ next_pending_alarm_clk \in CLOCK
        /\ clk >= next_pending_alarm_clk
        /\ UNCHANGED <<alarms, context, clk, frame, history>>
    BY <1>6 DEF alarm_context_dispatch, TypeInv, Context, ContextTypeOK
  <2>2. running' \in Alarm /\ pending_idx[running'] = i
    BY <2>1 DEF TypeInv, Context, ContextTypeOK, IndicesAgree, Slot
  <2>3. running' \in alarms
    BY <2>1, <2>2 DEF TypeInv, pending, Slots, Context, ContextTypeOK
  <2>4. offset' \in CLOCK
    <3>1. offset' \in {0, clk - next_pending_alarm_clk}
      BY <1>6 DEF alarm_context_dispatch
    <3> QED BY <3>1, <2>1, ConstantsOK DEF TypeInv, CLOCK
  <2> QED BY <2>1, <2>3, <2>4
    DEF context, history, TypeInv, Context, ContextTypeOK, IndicesAgree, pending
<1>7. ASSUME CallbackReturn
      PROVE  TypeInv'
  <2>1. /\ running \in Alarm /\ running \in alarms
        /\ running' = NoAlarm /\ offset' = 0
        /\ UNCHANGED <<alarms, clk, frame, history>>
    BY <1>7 DEF CallbackReturn, Returns, TypeInv
  <2>2. HistoryTypeOK'
    BY <2>1 DEF history, TypeInv
  <2>3. CASE alarm_unset(running)
    BY <2>1, <2>2, <2>3, UnsetKeepsType
  <2>4. CASE \E d \in 1 .. Ahead(running) :
               alarm_set(running, Wrap(clk - offset + d))
    <3>1. PICK d \in 1 .. Ahead(running) :
                 alarm_set(running, Wrap(clk - offset + d))
      BY <2>4
    <3>2. d \in Nat /\ d >= 1 /\ d <= ClockMax
      BY ConstantsOK DEF Ahead
    <3>3. Wrap(clk - offset + d) \in CLOCK
      BY <3>2, WrapIsClock, ConstantsOK DEF TypeInv, CLOCK
    <3> QED BY <2>1, <2>2, <3>1, <3>3, SetKeepsType
  <2> QED BY <1>7, <2>3, <2>4 DEF CallbackReturn
<1>8. ASSUME clk_guard_prevent_overflow
      PROVE  TypeInv'
  <2>1. frame' = 0 /\ UNCHANGED <<alarms, running, offset>>
    BY <1>8 DEF clk_guard_prevent_overflow
  <2>2. CASE UNCHANGED <<context, clk, history>>
    BY <2>1, <2>2
    DEF context, history, TypeInv, Context, ContextTypeOK, IndicesAgree, pending
  <2>3. CASE /\ clk' = Wrap(clk - clk_guard_clock_sub)
             /\ alarm_context_time_warp(clk_guard_clock_sub)
             /\ clk_overflow_callback(clk_guard_clock_sub)
    <3>1. clk_guard_clock_sub \in 0 .. ClockMax
      BY ClockSubBounds, ConstantsOK
    <3>2. \A c \in CLOCK : Wrap(c - clk_guard_clock_sub) \in CLOCK
      BY <3>1, WrapIsClock, ConstantsOK DEF CLOCK
    <3>3. Context' /\ pending' = pending
      BY <2>3, <3>1, WarpKeepsContext DEF TypeInv
    <3>4. clk' \in CLOCK /\ HistoryTypeOK'
      BY <2>3, <3>2, ConstantsOK DEF clk_overflow_callback, TypeInv, CLOCK
    <3> QED BY <2>1, <3>3, <3>4 DEF TypeInv
  <2> QED BY <1>8, <2>2, <2>3 DEF clk_guard_prevent_overflow
<1>9. ASSUME event_record_start_trap
      PROVE  TypeInv'
  <2>1. PICK c \in {clk, 0} : /\ next_timestamp_clk' = c
                              /\ alarm_set(EventAlarm, c)
    BY <1>9 DEF event_record_start_trap
  <2>2. c \in CLOCK
    BY ConstantsOK DEF TypeInv, CLOCK
  <2>3. /\ EventAlarm \in alarms /\ EventAlarm # NoAlarm
        /\ event_mode' = "record" /\ events' = 0
        /\ UNCHANGED <<alarms, clk, running, offset, frame>>
    BY <1>9 DEF event_record_start_trap, TypeInv
  <2>4. HistoryTypeOK'
    BY <2>1, <2>2, <2>3, ConstantsOK
  <2> QED BY <2>1, <2>2, <2>3, <2>4, SetKeepsType
<1>10. ASSUME event_record_stop \/ event_playback_stop
       PROVE  TypeInv'
  <2>1. /\ alarm_unset(EventAlarm)
        /\ UNCHANGED <<alarms, clk, running, offset, frame>>
        /\ event_mode' = "none" /\ events' \in {events, 0}
        /\ next_timestamp_clk' \in {next_timestamp_clk, 0}
    BY <1>10 DEF event_record_stop, event_playback_stop
  <2>2. HistoryTypeOK'
    BY <2>1, ConstantsOK DEF TypeInv, CLOCK
  <2>3. EventAlarm \in Alarm
    BY <1>10, AlarmAssumption
    DEF event_record_stop, event_playback_stop, TypeInv
  <2> QED BY <2>1, <2>2, <2>3, UnsetKeepsType
<1>11. ASSUME event_playback_start_trap
       PROVE  TypeInv'
  <2>1. PICK c \in RecordedClk : next_alarm_set(c)
    BY <1>11 DEF event_playback_start_trap
  <2>2. PICK d \in CLOCK : alarm_set(EventAlarm, d)
    BY <2>1, NextAlarmIsSet
  <2>3. /\ EventAlarm \in alarms /\ EventAlarm # NoAlarm
        /\ event_mode' = "playback" /\ events' \in 1 .. MaxEvents
        /\ UNCHANGED <<alarms, clk, running, offset, frame, next_timestamp_clk>>
    BY <1>11 DEF event_playback_start_trap, TypeInv
  <2>4. HistoryTypeOK'
    BY <2>3, ConstantsOK DEF TypeInv
  <2> QED BY <2>2, <2>3, <2>4, SetKeepsType
<1>12. ASSUME EventBegins
       PROVE  TypeInv'
  BY <1>12, UnsetKeepsType DEF EventBegins, history, TypeInv
<1>13. ASSUME EventEnds
       PROVE  TypeInv'
  <2>1. /\ EventAlarm \in alarms /\ EventAlarm # NoAlarm
        /\ running' = NoAlarm /\ offset' = 0
        /\ UNCHANGED <<alarms, clk, frame>>
    BY <1>13 DEF EventEnds, Returns, TypeInv
  <2>2. CASE TimestampSet
    <3>1. next_timestamp_clk' = Wrap(next_timestamp_clk + Second)
      BY <2>2 DEF TimestampSet
    <3>2. next_timestamp_clk' \in CLOCK
      BY <3>1, WrapIsClock, ConstantsOK DEF TypeInv, CLOCK
    <3>3. HistoryTypeOK' /\ alarm_set(EventAlarm, next_timestamp_clk')
      BY <2>2, <3>2 DEF TimestampSet, TypeInv
    <3> QED BY <2>1, <3>2, <3>3, SetKeepsType
  <2>3. CASE NextEvent
    <3>1. PICK c \in RecordedClk : next_alarm_set(c)
      BY <2>3 DEF NextEvent
    <3>2. PICK d \in CLOCK : alarm_set(EventAlarm, d)
      BY <3>1, NextAlarmIsSet
    <3>3. HistoryTypeOK'
      BY <2>3, ConstantsOK DEF NextEvent, TypeInv
    <3> QED BY <2>1, <3>2, <3>3, SetKeepsType
  <2>4. CASE LastEvent
    <3>1. HistoryTypeOK' /\ UNCHANGED context
      BY <2>4, ConstantsOK DEF LastEvent, TypeInv
    <3>2. Context' /\ pending' = pending
      BY <3>1
      DEF context, TypeInv, Context, ContextTypeOK, IndicesAgree, pending
    <3> QED BY <2>1, <3>1, <3>2, ConstantsOK DEF TypeInv, CLOCK
  <2> QED BY <1>13, <2>2, <2>3, <2>4 DEF EventEnds
<1>14. CASE UNCHANGED vars
  BY <1>14 DEF vars, history, context, TypeInv, Context, ContextTypeOK,
               IndicesAgree, pending
<1> QED BY <1>1, <1>2, <1>3, <1>4, <1>5, <1>6, <1>7, <1>8, <1>9, <1>10, <1>11,
           <1>12, <1>13, <1>14 DEF Next

(* The raster alarm is never late by more than an instruction, and it is   *)
(* armed for at most a frame after the last call of the guard: the clock   *)
(* cannot run away.                                                        *)
LEMMA ClkBound ==
  ASSUME IInv
  PROVE  /\ num_pending_alarms \in Nat /\ num_pending_alarms > 0
         /\ clk \in Nat /\ clk < ClkMaxValue + FrameCycles + MaxStep
         /\ VideoAlarm \in Alarm /\ VideoAlarm \in pending \ {EventAlarm}
         /\ VideoAlarm # NoAlarm
         /\ \A a \in pending : DueClk(a) \in CLOCK
<1>1. VideoAlarm \in pending /\ VideoAlarm \in Alarm
  BY DEF IInv, FrameOK, pending
<1>2. VideoAlarm # EventAlarm /\ VideoAlarm # NoAlarm
  BY <1>1, AlarmAssumption
<1>3. /\ num_pending_alarms \in Nat
      /\ \A a \in pending : /\ pending_idx[a] \in Slots(num_pending_alarms)
                           /\ DueClk(a) \in CLOCK
  BY SlotOfPending DEF IInv, TypeInv
<1>4. num_pending_alarms > 0
  BY <1>1, <1>3 DEF Slots
<1>5. clk \in Nat /\ frame \in Nat
  BY DEF IInv, TypeInv, CLOCK
<1>6. clk < ClkMaxValue + FrameCycles + MaxStep
  BY <1>1, <1>2, <1>3, <1>5, ConstantsOK DEF IInv, NearClk, FrameOK, CLOCK
<1> QED BY <1>1, <1>2, <1>3, <1>4, <1>5, <1>6

(* The cached clock is that of the cached slot, and none is earlier.       *)
LEMMA NextIsFirst ==
  ASSUME IInv
  PROVE  /\ next_pending_alarm_idx \in Slots(num_pending_alarms)
         /\ pending_alarms[next_pending_alarm_idx].clk = next_pending_alarm_clk
         /\ next_pending_alarm_clk \in CLOCK
         /\ \A i \in Slots(num_pending_alarms) :
              next_pending_alarm_clk <= pending_alarms[i].clk
         /\ \A a \in pending : next_pending_alarm_clk <= DueClk(a)
<1>1. /\ next_pending_alarm_idx \in Slots(num_pending_alarms)
      /\ pending_alarms[next_pending_alarm_idx].clk = next_pending_alarm_clk
      /\ \A i \in Slots(num_pending_alarms) :
           next_pending_alarm_clk <= pending_alarms[i].clk
  BY ClkBound DEF IInv, EarliestIfAny
<1>2. next_pending_alarm_clk \in CLOCK
  BY DEF IInv, TypeInv, Context, ContextTypeOK
<1>3. \A a \in pending : pending_idx[a] \in Slots(num_pending_alarms)
  BY SlotOfPending DEF IInv, TypeInv
<1> QED BY <1>1, <1>2, <1>3 DEF DueClk

(* When the guard moves the clock back, no alarm is overdue by more than   *)
(* an instruction, and the guard leaves SubMin cycles: nothing wraps, and  *)
(* the clock and every alarm's move by the same amount.                    *)
LEMMA GuardKeepsClocks ==
  ASSUME IInv, running = VideoAlarm, ClkMaxValue <= clk,
         clk' = Wrap(clk - clk_guard_clock_sub),
         alarm_context_time_warp(clk_guard_clock_sub)
  PROVE  /\ pending' = pending
         /\ clk' = clk - clk_guard_clock_sub
         /\ clk' \in SubMin .. ClkMaxValue - 1
         /\ \A a \in pending :
              /\ clk_guard_clock_sub < DueClk(a)
              /\ DueClk(a)' = DueClk(a) - clk_guard_clock_sub
         /\ EarliestIfAny'
<1> DEFINE sub == clk_guard_clock_sub
<1>0. /\ sub \in 0 .. ClockMax /\ sub \in Nat
      /\ sub <= ClkMaxValue - SubMin
      /\ sub > ClkMaxValue - SubMin - ClkBase
  BY ClockSubBounds, ConstantsOK
<1>1. /\ alarm_context_time_warp(sub)
      /\ clk' = Wrap(clk - sub)
  OBVIOUS
<1>2. sub = clk_guard_clock_sub
  OBVIOUS
<1> HIDE DEF sub
<1>3. /\ clk' = clk - sub
      /\ clk' \in SubMin .. ClkMaxValue - 1
  BY <1>0, <1>1, ClkBound, ConstantsOK DEF Wrap
<1>4. \A a \in pending : clk < DueClk(a) + MaxStep
  BY DEF IInv, NearClk, EventNotOverdue
<1>5. \A a \in pending : /\ DueClk(a) \in CLOCK
                        /\ sub < DueClk(a)
                        /\ Wrap(DueClk(a) - sub) = DueClk(a) - sub
  BY <1>0, <1>4, ClkBound, ConstantsOK DEF Wrap, CLOCK
<1>6. /\ pending' = pending
      /\ UNCHANGED <<num_pending_alarms, next_pending_alarm_idx>>
      /\ next_pending_alarm_clk' = Wrap(next_pending_alarm_clk - sub)
      /\ \A i \in Slots(num_pending_alarms) :
           pending_alarms'[i].clk = Wrap(pending_alarms[i].clk - sub)
      /\ \A a \in pending : DueClk(a)' = Wrap(DueClk(a) - sub)
  BY <1>0, <1>1, WarpKeepsContext DEF IInv, TypeInv
<1>7. \A i \in Slots(num_pending_alarms) :
        /\ pending_alarms[i].alarm \in pending
        /\ DueClk(pending_alarms[i].alarm) = pending_alarms[i].clk
  BY SlotOfPending DEF IInv, TypeInv
<1>8. \A i \in Slots(num_pending_alarms) :
        /\ pending_alarms[i].clk \in Int
        /\ pending_alarms'[i].clk = pending_alarms[i].clk - sub
  BY <1>5, <1>6, <1>7 DEF CLOCK
<1>9. EarliestIfAny'
  <2>1. next_pending_alarm_clk' = next_pending_alarm_clk - sub
    BY <1>5, <1>6, <1>7, NextIsFirst
  <2>2. next_pending_alarm_clk \in Int
    BY NextIsFirst DEF CLOCK
  <2>3. \A i \in Slots(num_pending_alarms) :
          next_pending_alarm_clk' <= pending_alarms'[i].clk
    BY <1>0, <1>8, <2>1, <2>2, NextIsFirst
  <2>4. pending_alarms'[next_pending_alarm_idx].clk = next_pending_alarm_clk'
    BY <1>8, <2>1, NextIsFirst
  <2> QED BY <2>3, <2>4, <1>6, ClkBound, NextIsFirst DEF EarliestIfAny
<1> QED BY <1>2, <1>3, <1>5, <1>6, <1>9

-----------------------------------------------------------------------------
(* What the actions that arm an alarm have in common: a chip's alarm is    *)
(* armed near the clock, and the event alarm while no callback runs.       *)
LEMMA ArmKeepsInv ==
  ASSUME IInv, TypeInv', NEW a \in alarms, NEW c \in CLOCK,
         a # EventAlarm => clk < c + MaxStep /\ c <= clk + Horizon,
         a = VideoAlarm => c + frame <= clk + FrameCycles,
         alarm_set(a, c),
         UNCHANGED <<clk, frame>>,
         running' = NoAlarm \/ (running' = running /\ running # a),
         a = EventAlarm => running' = NoAlarm,
         offset' \in {offset, 0}
  PROVE  IInv'
<1>1. a \in Alarm
  BY DEF IInv, TypeInv
<1>2. /\ pending \subseteq pending'
      /\ pending' \subseteq pending \cup {a}
      /\ \A b \in pending \ {a} : DueClk(b)' = DueClk(b)
      /\ a \in pending' => DueClk(a)' = c
      /\ EarliestIfAny'
  BY <1>1, ClkBound, SetKeepsContext DEF IInv, TypeInv
<1>3. NearClk'
  BY <1>2 DEF IInv, NearClk
<1>4. FrameOK'
  BY <1>2 DEF IInv, FrameOK
<1>5. NoAlarm \notin pending /\ NoAlarm \notin pending'
  BY AlarmAssumption DEF pending
<1>6. RunningIsDue'
  <2>1. offset' < MaxStep /\ offset' <= clk'
    BY ClkBound, ConstantsOK DEF IInv, RunningIsDue
  <2> QED BY <2>1, <1>2, <1>5 DEF IInv, RunningIsDue
<1>7. EventNotOverdue'
  BY <1>2, ClkBound DEF IInv, EventNotOverdue
<1> QED BY <1>2, <1>3, <1>4, <1>6, <1>7 DEF IInv

(* What the actions that disarm an alarm have in common.                   *)
LEMMA DisarmKeepsInv ==
  ASSUME IInv, TypeInv', NEW a \in Alarm, a # VideoAlarm, alarm_unset(a),
         UNCHANGED <<clk, frame>>,
         running' \in {running, NoAlarm},
         offset' \in {offset, 0}
  PROVE  IInv'
<1>1. /\ pending' = pending \ {a}
      /\ \A b \in pending \ {a} : DueClk(b)' = DueClk(b)
      /\ EarliestIfAny'
  BY UnsetKeepsContext DEF IInv, TypeInv
<1>2. NearClk' /\ FrameOK'
  BY <1>1 DEF IInv, NearClk, FrameOK
<1>3. NoAlarm \notin pending /\ NoAlarm \notin pending'
  BY AlarmAssumption DEF pending
<1>4. RunningIsDue'
  <2>1. offset' < MaxStep /\ offset' <= clk'
    BY ClkBound, ConstantsOK DEF IInv, RunningIsDue
  <2> QED BY <2>1, <1>1, <1>3 DEF IInv, RunningIsDue
<1>5. EventNotOverdue'
  BY <1>1, ClkBound DEF IInv, EventNotOverdue
<1> QED BY <1>1, <1>2, <1>4, <1>5 DEF IInv

(* A step that leaves the context and the clock alone.                     *)
LEMMA StillKeepsInv ==
  ASSUME IInv, TypeInv', UNCHANGED <<context, clk, frame>>,
         running' \in {running, NoAlarm}, offset' \in {offset, 0}
  PROVE  IInv'
<1>1. pending' = pending /\ \A a \in pending : DueClk(a)' = DueClk(a)
  BY DEF context, pending, DueClk
<1>2. EarliestIfAny'
  BY DEF context, IInv, EarliestIfAny
<1>3. NearClk' /\ FrameOK'
  BY <1>1 DEF IInv, NearClk, FrameOK
<1>4. NoAlarm \notin pending
  BY AlarmAssumption DEF pending
<1>5. RunningIsDue'
  <2>1. offset' < MaxStep /\ offset' <= clk'
    BY ClkBound, ConstantsOK DEF IInv, RunningIsDue
  <2> QED BY <2>1, <1>1, <1>4 DEF IInv, RunningIsDue
<1>6. EventNotOverdue'
  BY <1>1, ClkBound DEF IInv, EventNotOverdue
<1> QED BY <1>2, <1>3, <1>5, <1>6 DEF IInv

-----------------------------------------------------------------------------
(* The invariant holds at first.                                           *)
LEMMA InitInv ==
  ASSUME VideoAlarm # NoAlarm, Init
  PROVE  IInv
<1>1. VideoAlarm \in Alarm /\ VideoAlarm # EventAlarm
  BY AlarmAssumption
<1>2. PICK c \in 1 .. FrameCycles :
        /\ pending_alarms =
             [i \in Slots(1) |-> [alarm |-> VideoAlarm, clk |-> c]]
        /\ num_pending_alarms = 1
        /\ next_pending_alarm_clk = c
        /\ next_pending_alarm_idx = 0
        /\ pending_idx = [a \in Alarm |-> IF a = VideoAlarm THEN 0 ELSE -1]
  BY DEF Init, InitContext
<1>3. Slots(1) = {0}
  BY DEF Slots
<1>4. pending = {VideoAlarm} /\ DueClk(VideoAlarm) = c
  <2>1. /\ \A a \in Alarm : pending_idx[a] >= 0 <=> a = VideoAlarm
        /\ pending_idx[VideoAlarm] = 0
    BY <1>1, <1>2
  <2>2. pending = {VideoAlarm}
    BY <1>1, <2>1 DEF pending
  <2>3. pending_alarms[0] = [alarm |-> VideoAlarm, clk |-> c]
    BY <1>2, <1>3
  <2> QED BY <2>1, <2>2, <2>3 DEF DueClk
<1>5. EarliestIfAny
  <2>1. pending_alarms[0] = [alarm |-> VideoAlarm, clk |-> c]
    BY <1>2, <1>3
  <2> QED BY <2>1, <1>2, <1>3, ConstantsOK DEF EarliestIfAny
<1>6. NearClk /\ FrameOK /\ RunningIsDue /\ EventNotOverdue
  BY <1>1, <1>4, AlarmAssumption, ConstantsOK
  DEF Init, NearClk, FrameOK, RunningIsDue, EventNotOverdue
<1> QED BY <1>5, <1>6, TypeInit DEF IInv

(* Every step keeps the invariant.                                         *)
LEMMA NextInv ==
  ASSUME VideoAlarm # NoAlarm, Fits(Horizon), IInv, [Next]_vars
  PROVE  IInv'
<1>0. /\ TypeInv /\ TypeInv'
      /\ FrameCycles + MaxStep + Horizon <= SubMin
      /\ offset \in Nat /\ offset < MaxStep /\ offset <= clk
  BY TypeNext DEF IInv, Fits, TypeInv, RunningIsDue, CLOCK
<1>1. ASSUME NEW a \in Alarm, alarm_new(a)
      PROVE  IInv'
  BY <1>0, <1>1, StillKeepsInv DEF alarm_new
<1>2. ASSUME NEW a \in Alarm, alarm_destroy(a)
      PROVE  IInv'
  BY <1>0, <1>2, DisarmKeepsInv DEF alarm_destroy
<1>3. ASSUME NEW a \in Alarm, Arm(a)
      PROVE  IInv'
  <2>1. PICK d \in 1 - offset .. Horizon : alarm_set(a, Wrap(clk + d))
    BY <1>3 DEF Arm
  <2> DEFINE c == clk + d
  <2>2. c \in CLOCK /\ Wrap(c) = c /\ clk < c + MaxStep /\ c <= clk + Horizon
    BY <1>0, ClkBound, ConstantsOK DEF CLOCK, Wrap
  <2>3. /\ a \in alarms /\ a # VideoAlarm /\ a # EventAlarm /\ running # a
        /\ UNCHANGED <<clk, running, offset, frame>>
    BY <1>3 DEF Arm
  <2>4. alarm_set(a, c)
    BY <2>1, <2>2
  <2> HIDE DEF c
  <2> QED BY <1>0, <2>2, <2>3, <2>4, ArmKeepsInv
<1>4. ASSUME NEW a \in Alarm, Disarm(a)
      PROVE  IInv'
  BY <1>0, <1>4, DisarmKeepsInv DEF Disarm
<1>5. ASSUME NEW n \in 1 .. MaxStep, Execute(n)
      PROVE  IInv'
  <2>1. /\ running = NoAlarm
        /\ UNCHANGED <<alarms, context, running, offset, history>>
        /\ clk < next_pending_alarm_clk
        /\ clk' = Wrap(clk + n) /\ frame' = frame + n
    BY <1>5 DEF Execute
  <2>2. \A a \in pending : DueClk(a) \in CLOCK /\ clk < DueClk(a)
    BY <2>1, NextIsFirst, ClkBound DEF CLOCK
  <2>3. /\ VideoAlarm \in pending /\ DueClk(VideoAlarm) \in Int
        /\ frame \in Nat /\ frame <= clk
        /\ clk < ClkMaxValue + frame
        /\ DueClk(VideoAlarm) + frame <= clk + FrameCycles
    BY ClkBound DEF IInv, FrameOK, TypeInv, CLOCK
  <2>4. clk' = clk + n
    BY <1>0, <2>1, <2>2, <2>3, ClkBound, ConstantsOK DEF Wrap
  <2>5. pending' = pending /\ \A a \in pending : DueClk(a)' = DueClk(a)
    BY <2>1 DEF context, pending, DueClk
  <2>6. EarliestIfAny'
    BY <2>1 DEF context, IInv, EarliestIfAny
  <2>7. NearClk'
    BY <2>2, <2>4, <2>5, ClkBound, ConstantsOK DEF IInv, NearClk, CLOCK
  <2>8. FrameOK'
    <3>1. /\ frame' <= clk' /\ clk' < ClkMaxValue + frame'
          /\ DueClk(VideoAlarm) + frame' <= clk' + FrameCycles
      BY <2>1, <2>3, <2>4, ClkBound, ConstantsOK
    <3> QED BY <3>1, <2>3, <2>5 DEF FrameOK
  <2>9. RunningIsDue' /\ EventNotOverdue'
    BY <1>0, <2>1, <2>4, <2>5, ClkBound, AlarmAssumption
    DEF RunningIsDue, EventNotOverdue, pending
  <2> QED BY <1>0, <2>6, <2>7, <2>8, <2>9 DEF IInv
<1>6. ASSUME alarm_context_dispatch
      PROVE  IInv'
  <2> DEFINE i == next_pending_alarm_idx
  <2>1. /\ i \in Slots(num_pending_alarms)
        /\ running' = pending_alarms[i].alarm
        /\ offset' = IF running' = EventAlarm THEN 0
                     ELSE clk - next_pending_alarm_clk
        /\ next_pending_alarm_clk <= clk
        /\ UNCHANGED <<alarms, context, clk, frame, history>>
    BY <1>6, NextIsFirst, ClkBound DEF alarm_context_dispatch, CLOCK
  <2>2. running' \in pending /\ DueClk(running') = next_pending_alarm_clk
    BY <2>1, NextIsFirst, SlotOfPending DEF TypeInv, IInv
  <2>3. pending' = pending /\ \A a \in pending : DueClk(a)' = DueClk(a)
    BY <2>1 DEF context, pending, DueClk
  <2>4. EarliestIfAny' /\ NearClk' /\ FrameOK'
    BY <2>1, <2>3 DEF context, IInv, EarliestIfAny, NearClk, FrameOK
  <2>5. offset' < MaxStep /\ offset' <= clk'
    BY <2>1, <2>2, ClkBound, NextIsFirst, ConstantsOK DEF IInv, NearClk, CLOCK
  <2>6. RunningIsDue'
    <3>1. pending_alarms' = pending_alarms /\ pending_idx' = pending_idx
      BY <2>1 DEF context
    <3>2. pending_alarms'[pending_idx'[running']].clk <= clk'
      BY <3>1, <2>1, <2>2 DEF DueClk
    <3> QED BY <3>2, <2>5 DEF RunningIsDue, DueClk
  <2>7. EventNotOverdue'
    <3> SUFFICES ASSUME running' = VideoAlarm, EventAlarm \in pending
                 PROVE  clk < DueClk(EventAlarm) + MaxStep
      BY <2>1, <2>3 DEF EventNotOverdue
    <3>1. clk < next_pending_alarm_clk + MaxStep
      BY <2>2, ClkBound DEF IInv, NearClk
    <3>2. next_pending_alarm_clk <= DueClk(EventAlarm)
      BY NextIsFirst
    <3> QED BY <3>1, <3>2, NextIsFirst, ClkBound, ConstantsOK DEF CLOCK
  <2> QED BY <1>0, <2>4, <2>6, <2>7 DEF IInv
<1>7. ASSUME CallbackReturn
      PROVE  IInv'
  <2>1. /\ running \in Alarm /\ running \in alarms /\ running # EventAlarm
        /\ running = VideoAlarm => frame = 0
        /\ running' = NoAlarm /\ offset' = 0
        /\ UNCHANGED <<alarms, clk, frame>>
    BY <1>7 DEF CallbackReturn, Returns, IInv, TypeInv
  <2>2. CASE running # VideoAlarm /\ alarm_unset(running)
    BY <1>0, <2>1, <2>2, DisarmKeepsInv
  <2>3. CASE \E d \in 1 .. Ahead(running) :
               alarm_set(running, Wrap(clk - offset + d))
    <3>1. PICK d \in 1 .. Ahead(running) :
                 alarm_set(running, Wrap(clk - offset + d))
      BY <2>3
    <3> DEFINE c == clk - offset + d
    <3>2. /\ d \in Nat /\ d >= 1 /\ d <= Horizon
          /\ running = VideoAlarm => d <= FrameCycles
      BY ConstantsOK DEF Ahead
    <3>3. c \in CLOCK /\ Wrap(c) = c /\ clk < c + MaxStep /\ c <= clk + Horizon
      BY <1>0, <3>2, ClkBound, ConstantsOK DEF CLOCK, Wrap
    <3>4. running = VideoAlarm => c + frame <= clk + FrameCycles
      BY <1>0, <2>1, <3>2, ClkBound, ConstantsOK
    <3>5. alarm_set(running, c)
      BY <3>1, <3>3
    <3> HIDE DEF c
    <3> QED BY <1>0, <2>1, <3>3, <3>4, <3>5, ArmKeepsInv
  <2> QED BY <1>7, <2>2, <2>3 DEF CallbackReturn
<1>8. ASSUME clk_guard_prevent_overflow
      PROVE  IInv'
  <2>1. /\ running = VideoAlarm
        /\ frame' = 0 /\ UNCHANGED <<alarms, running, offset>>
    BY <1>8 DEF clk_guard_prevent_overflow
  <2>2. /\ pending' = pending
        /\ clk' \in Nat /\ clk' < ClkMaxValue /\ offset <= clk'
        /\ \A a \in pending : /\ DueClk(a)' \in Int
                              /\ DueClk(a)' - clk' = DueClk(a) - clk
        /\ EarliestIfAny'
    <3>1. CASE clk < ClkMaxValue
      <4>1. UNCHANGED <<context, clk>>
        BY <3>1, <1>8 DEF clk_guard_prevent_overflow
      <4>2. pending' = pending /\ \A a \in pending : DueClk(a)' = DueClk(a)
        BY <4>1 DEF context, pending, DueClk
      <4>3. EarliestIfAny'
        BY <4>1 DEF context, IInv, EarliestIfAny
      <4> QED BY <1>0, <4>1, <4>2, <4>3, <3>1, ClkBound DEF CLOCK
    <3>2. CASE ~(clk < ClkMaxValue)
      <4>1. /\ clk' = Wrap(clk - clk_guard_clock_sub)
            /\ alarm_context_time_warp(clk_guard_clock_sub)
        BY <3>2, <1>8 DEF clk_guard_prevent_overflow
      <4>2. ClkMaxValue <= clk
        BY <3>2, ClkBound, ConstantsOK
      <4>3. /\ pending' = pending
            /\ clk' = clk - clk_guard_clock_sub
            /\ clk' \in SubMin .. ClkMaxValue - 1
            /\ \A a \in pending :
                 DueClk(a)' = DueClk(a) - clk_guard_clock_sub
            /\ EarliestIfAny'
        BY <2>1, <4>1, <4>2, GuardKeepsClocks
      <4>4. /\ clk \in Int /\ clk_guard_clock_sub \in Int
            /\ \A a \in pending : DueClk(a) \in Int
        BY ClkBound, ClockSubBounds DEF CLOCK
      <4>5. clk' \in Nat /\ clk' < ClkMaxValue /\ offset <= clk'
        BY <1>0, <4>3, ConstantsOK
      <4> QED BY <4>3, <4>4, <4>5
    <3> QED BY <3>1, <3>2
  <2>3. \A a \in pending : DueClk(a) \in Int
    BY ClkBound DEF CLOCK
  <2>4. NearClk'
    BY <2>2, <2>3, ClkBound, ConstantsOK DEF IInv, NearClk
  <2>5. RunningIsDue' /\ EventNotOverdue'
    BY <1>0, <2>1, <2>2, <2>3, ClkBound, ConstantsOK
    DEF IInv, RunningIsDue, EventNotOverdue
  <2>6. FrameOK'
    <3>1. VideoAlarm \in pending /\ DueClk(VideoAlarm) <= clk
      BY <2>1, ClkBound DEF IInv, RunningIsDue
    <3>2. DueClk(VideoAlarm)' + frame' <= clk' + FrameCycles
      BY <3>1, <2>1, <2>2, <2>3, ClkBound, ConstantsOK
    <3>3. frame' <= clk' /\ clk' < ClkMaxValue + frame'
      BY <2>1, <2>2, ConstantsOK
    <3> QED BY <3>1, <3>2, <3>3, <2>2 DEF FrameOK
  <2> QED BY <1>0, <2>2, <2>4, <2>5, <2>6 DEF IInv
<1>9. ASSUME event_record_start_trap
      PROVE  IInv'
  <2>1. PICK c \in {clk, 0} : alarm_set(EventAlarm, c)
    BY <1>9 DEF event_record_start_trap
  <2>2. c \in CLOCK
    BY <1>0, ConstantsOK DEF TypeInv, CLOCK
  <2>3. /\ EventAlarm \in alarms /\ running = NoAlarm
        /\ UNCHANGED <<clk, running, offset, frame>>
    BY <1>0, <1>9 DEF event_record_start_trap, Trapped, TypeInv
  <2> QED BY <1>0, <2>1, <2>2, <2>3, ClkBound, ArmKeepsInv
<1>10. ASSUME event_record_stop \/ event_playback_stop
       PROVE  IInv'
  <2>1. /\ alarm_unset(EventAlarm) /\ EventAlarm \in Alarm
        /\ UNCHANGED <<clk, running, offset, frame>>
    BY <1>0, <1>10, AlarmAssumption
    DEF event_record_stop, event_playback_stop, TypeInv, HistoryTypeOK
  <2> QED BY <1>0, <2>1, ClkBound, DisarmKeepsInv
<1>11. ASSUME event_playback_start_trap
       PROVE  IInv'
  <2>1. PICK c \in RecordedClk : next_alarm_set(c)
    BY <1>11 DEF event_playback_start_trap
  <2>2. PICK d \in CLOCK : alarm_set(EventAlarm, d)
    BY <1>0, <2>1, NextAlarmIsSet
  <2>3. /\ EventAlarm \in alarms /\ running = NoAlarm
        /\ UNCHANGED <<clk, running, offset, frame>>
    BY <1>0, <1>11 DEF event_playback_start_trap, Trapped, TypeInv
  <2> QED BY <1>0, <2>2, <2>3, ClkBound, ArmKeepsInv
<1>12. ASSUME EventBegins
       PROVE  IInv'
  <2>1. /\ alarm_unset(EventAlarm) /\ EventAlarm \in Alarm
        /\ UNCHANGED <<clk, running, offset, frame>>
    BY <1>12 DEF EventBegins, pending
  <2> QED BY <1>0, <2>1, ClkBound, DisarmKeepsInv
<1>13. ASSUME EventEnds
       PROVE  IInv'
  <2>1. /\ EventAlarm \in alarms
        /\ running' = NoAlarm /\ offset' = 0
        /\ UNCHANGED <<clk, frame>>
    BY <1>0, <1>13 DEF EventEnds, Returns, TypeInv
  <2>2. CASE \E c \in CLOCK : alarm_set(EventAlarm, c)
    <3>1. PICK c \in CLOCK : alarm_set(EventAlarm, c)
      BY <2>2
    <3> QED BY <1>0, <2>1, <3>1, ClkBound, ArmKeepsInv
  <2>3. CASE TimestampSet
    <3>1. next_timestamp_clk' \in CLOCK
      BY <1>0 DEF TypeInv, HistoryTypeOK
    <3> QED BY <2>2, <2>3, <3>1 DEF TimestampSet
  <2>4. CASE NextEvent
    BY <1>0, <2>2, <2>4, NextAlarmIsSet DEF NextEvent
  <2>5. CASE LastEvent
    BY <1>0, <2>1, <2>5, StillKeepsInv DEF LastEvent
  <2> QED BY <1>13, <2>3, <2>4, <2>5 DEF EventEnds
<1>14. CASE UNCHANGED vars
  BY <1>0, <1>14, StillKeepsInv DEF vars
<1> QED BY <1>1, <1>2, <1>3, <1>4, <1>5, <1>6, <1>7, <1>8, <1>9, <1>10, <1>11,
           <1>12, <1>13, <1>14 DEF Next

-----------------------------------------------------------------------------
(* The event alarm and next_timestamp_clk.                                 *)

(* A step that neither moves the clock back nor touches event.c's state.   *)
LEMMA OthersKeepRecord ==
  ASSUME TypeInv, RecordInv, UNCHANGED history, clk' \in Int, clk <= clk',
         running' \in {running, NoAlarm},
         EventAlarm \in pending' => /\ EventAlarm \in pending
                                    /\ DueClk(EventAlarm)' = DueClk(EventAlarm)
  PROVE  RecordInv'
<1>1. next_timestamp_clk \in Int /\ clk \in Int /\ Second \in Int
  BY ConstantsOK DEF TypeInv, HistoryTypeOK, CLOCK
<1>2. event_mode = "record" => EventAlarm # NoAlarm
  BY DEF TypeInv, HistoryTypeOK
<1>s. next_timestamp_clk <= clk + Second => next_timestamp_clk <= clk' + Second
  <2> DEFINE old == clk
             new == clk'
  <2>1. old \in Int /\ new \in Int /\ old <= new
    BY <1>1
  <2> HIDE DEF old, new
  <2>2. next_timestamp_clk <= old + Second => next_timestamp_clk <= new + Second
    BY <1>1, <2>1
  <2> QED BY <2>2 DEF old, new
<1>3. CASE event_mode = "record"
  <2>1. /\ event_mode' = event_mode
        /\ next_timestamp_clk' = next_timestamp_clk
    BY DEF history
  <2>2. EventAlarm \in pending' =>
          /\ DueClk(EventAlarm)' = next_timestamp_clk'
          /\ next_timestamp_clk' <= clk' + Second
    <3> SUFFICES ASSUME EventAlarm \in pending'
                 PROVE  /\ DueClk(EventAlarm)' = next_timestamp_clk'
                        /\ next_timestamp_clk' <= clk' + Second
      OBVIOUS
    <3>1. /\ DueClk(EventAlarm)' = DueClk(EventAlarm)
          /\ DueClk(EventAlarm) = next_timestamp_clk
          /\ next_timestamp_clk <= clk + Second
      BY <1>3 DEF RecordInv
    <3> QED BY <1>s, <2>1, <3>1
  <2>3. running' = EventAlarm => next_timestamp_clk' <= clk'
    BY <1>1, <1>2, <1>3, <2>1 DEF RecordInv
  <2> QED BY <2>1, <2>2, <2>3 DEF RecordInv
<1>4. CASE event_mode # "record"
  BY <1>4 DEF RecordInv, history
<1> QED BY <1>3, <1>4

(* Every step keeps the armed clock and the noted one equal.               *)
LEMMA RecordNext ==
  ASSUME VideoAlarm # NoAlarm, Fits(Horizon), Fits(Second),
         IInv, IInv', RecordInv, [Next]_vars
  PROVE  RecordInv'
<1>0. /\ TypeInv /\ TypeInv' /\ Context
      /\ clk \in Int /\ clk' \in Int
      /\ next_timestamp_clk \in Int /\ next_timestamp_clk' \in Int
      /\ VideoAlarm # EventAlarm
  BY ClkBound DEF IInv, TypeInv, HistoryTypeOK, CLOCK
<1>1. ASSUME NEW a \in Alarm, alarm_new(a)
      PROVE  RecordInv'
  BY <1>0, <1>1, OthersKeepRecord DEF alarm_new, context, pending, DueClk
<1>2. ASSUME NEW a \in Alarm, alarm_destroy(a) \/ Disarm(a)
      PROVE  RecordInv'
  <2>1. /\ a # EventAlarm /\ alarm_unset(a)
        /\ UNCHANGED <<clk, running, history>>
    BY <1>2 DEF alarm_destroy, Disarm
  <2> QED BY <1>0, <2>1, UnsetKeepsContext, OthersKeepRecord
<1>3. ASSUME NEW a \in Alarm, Arm(a)
      PROVE  RecordInv'
  <2>1. PICK d \in 1 - offset .. Horizon : alarm_set(a, Wrap(clk + d))
    BY <1>3 DEF Arm
  <2>2. Wrap(clk + d) \in CLOCK
    <3>1. /\ d \in Int /\ 1 - offset <= d /\ d <= Horizon
          /\ offset \in Int /\ offset <= clk
      BY ConstantsOK DEF IInv, TypeInv, RunningIsDue, CLOCK
    <3> QED BY <1>0, <3>1, ClkBound, ConstantsOK, WrapIsClock
  <2>3. a # EventAlarm /\ UNCHANGED <<clk, running, history>>
    BY <1>3 DEF Arm
  <2> QED BY <1>0, <2>1, <2>2, <2>3, SetKeepsContext, OthersKeepRecord
<1>4. ASSUME NEW n \in 1 .. MaxStep, Execute(n)
      PROVE  RecordInv'
  <2>1. /\ clk' = Wrap(clk + n) /\ frame' = frame + n
        /\ UNCHANGED <<context, running, history>>
    BY <1>4 DEF Execute
  <2>2. pending' = pending /\ \A a \in pending : DueClk(a)' = DueClk(a)
    BY <2>1 DEF context, pending, DueClk
  <2>3. /\ frame \in Nat /\ clk < ClkMaxValue + FrameCycles + MaxStep
        /\ frame' <= clk'
    BY ClkBound DEF IInv, TypeInv, FrameOK
  <2>4. clk <= clk'
    BY <1>0, <2>1, <2>3, ClkBound, ConstantsOK DEF Wrap, Fits
  <2> QED BY <1>0, <2>1, <2>2, <2>4, OthersKeepRecord
<1>5. ASSUME alarm_context_dispatch
      PROVE  RecordInv'
  <2> DEFINE i == next_pending_alarm_idx
  <2>1. /\ i \in Slots(num_pending_alarms)
        /\ running' = pending_alarms[i].alarm
        /\ next_pending_alarm_clk <= clk
        /\ UNCHANGED <<context, clk, history>>
    BY <1>5, NextIsFirst, ClkBound DEF alarm_context_dispatch, CLOCK
  <2>2. running' \in pending /\ DueClk(running') <= clk
    BY <1>0, <2>1, NextIsFirst, SlotOfPending
  <2>3. pending' = pending /\ \A a \in pending : DueClk(a)' = DueClk(a)
    BY <2>1 DEF context, pending, DueClk
  <2> QED BY <2>1, <2>2, <2>3 DEF RecordInv, history
<1>6. ASSUME CallbackReturn
      PROVE  RecordInv'
  <2>1. /\ running \in Alarm /\ running # EventAlarm
        /\ running' = NoAlarm /\ UNCHANGED <<clk, history>>
    BY <1>0, <1>6 DEF CallbackReturn, Returns, TypeInv
  <2>2. CASE alarm_unset(running)
    BY <1>0, <2>1, <2>2, UnsetKeepsContext, OthersKeepRecord
  <2>3. CASE \E d \in 1 .. Ahead(running) :
               alarm_set(running, Wrap(clk - offset + d))
    <3>1. PICK d \in 1 .. Ahead(running) :
                 alarm_set(running, Wrap(clk - offset + d))
      BY <2>3
    <3>2. /\ d \in Nat /\ d <= Horizon
          /\ offset \in Int /\ offset >= 0 /\ offset <= clk
      BY ConstantsOK DEF Ahead, IInv, TypeInv, RunningIsDue, CLOCK
    <3>3. Wrap(clk - offset + d) \in CLOCK
      BY <1>0, <3>2, ClkBound, ConstantsOK, WrapIsClock
    <3> QED BY <1>0, <2>1, <3>1, <3>3, SetKeepsContext, OthersKeepRecord
  <2> QED BY <1>6, <2>2, <2>3 DEF CallbackReturn
<1>7. ASSUME clk_guard_prevent_overflow
      PROVE  RecordInv'
  <2>1. running = VideoAlarm /\ running' = running
    BY <1>7 DEF clk_guard_prevent_overflow
  <2>2. CASE clk < ClkMaxValue
    <3>1. UNCHANGED <<context, clk, history>>
      BY <1>7, <2>2 DEF clk_guard_prevent_overflow
    <3> QED BY <1>0, <2>1, <3>1, OthersKeepRecord DEF context, pending, DueClk
  <2>3. CASE ~(clk < ClkMaxValue)
    <3>1. /\ clk' = Wrap(clk - clk_guard_clock_sub)
          /\ alarm_context_time_warp(clk_guard_clock_sub)
          /\ clk_overflow_callback(clk_guard_clock_sub)
      BY <1>7, <2>3 DEF clk_guard_prevent_overflow
    <3>2. ClkMaxValue <= clk
      BY <1>0, <2>3, ConstantsOK
    <3>3. /\ pending' = pending
          /\ clk' = clk - clk_guard_clock_sub
          /\ \A a \in pending :
               /\ clk_guard_clock_sub < DueClk(a)
               /\ DueClk(a)' = DueClk(a) - clk_guard_clock_sub
      BY <2>1, <3>1, <3>2, GuardKeepsClocks
    <3> SUFFICES ASSUME event_mode = "record", EventAlarm \in pending
                 PROVE  /\ DueClk(EventAlarm)' = next_timestamp_clk'
                        /\ next_timestamp_clk' <= clk' + Second
      BY <1>0, <2>1, <3>1, <3>3 DEF RecordInv, clk_overflow_callback
    <3>4. /\ DueClk(EventAlarm) = next_timestamp_clk
          /\ next_timestamp_clk <= clk + Second
      BY DEF RecordInv
    <3>5. clk_guard_clock_sub \in Nat
      BY ClockSubBounds
    <3>6. next_timestamp_clk' = next_timestamp_clk - clk_guard_clock_sub
      BY <1>0, <3>1, <3>3, <3>4, <3>5, ConstantsOK
      DEF clk_overflow_callback, Wrap, TypeInv, HistoryTypeOK, CLOCK
    <3> QED BY <1>0, <3>3, <3>4, <3>5, <3>6, ConstantsOK
  <2> QED BY <2>2, <2>3
<1>8. ASSUME event_record_start_trap
      PROVE  RecordInv'
  <2>1. PICK c \in {clk, 0} : /\ next_timestamp_clk' = c
                              /\ alarm_set(EventAlarm, c)
    BY <1>8 DEF event_record_start_trap
  <2>2. c \in CLOCK /\ c <= clk
    BY <1>0, ClkBound, ConstantsOK DEF TypeInv, CLOCK
  <2>3. /\ running' = NoAlarm /\ clk' = clk
        /\ EventAlarm # NoAlarm /\ EventAlarm \in Alarm
    BY <1>8, AlarmAssumption DEF event_record_start_trap, Trapped
  <2>4. EventAlarm \in pending' => DueClk(EventAlarm)' = c
    BY <1>0, <2>1, <2>2, <2>3, SetKeepsContext
  <2> QED BY <1>0, <2>1, <2>2, <2>3, <2>4, ConstantsOK DEF RecordInv
<1>9. ASSUME event_record_stop \/ event_playback_start_trap \/ event_playback_stop
      PROVE  RecordInv'
  BY <1>9
  DEF event_record_stop, event_playback_start_trap, event_playback_stop,
      RecordInv
<1>10. ASSUME EventBegins
       PROVE  RecordInv'
  <2>1. /\ EventAlarm \in Alarm /\ alarm_unset(EventAlarm)
        /\ UNCHANGED <<clk, running, history>>
    BY <1>10 DEF EventBegins, pending
  <2> QED BY <1>0, <2>1, UnsetKeepsContext, OthersKeepRecord
<1>11. ASSUME EventEnds
       PROVE  RecordInv'
  <2>1. /\ running = EventAlarm /\ EventAlarm # NoAlarm
        /\ EventAlarm \in Alarm /\ running' = NoAlarm /\ clk' = clk
    BY <1>11, AlarmAssumption DEF EventEnds, Returns
  <2>2. CASE TimestampSet
    <3>1. /\ next_timestamp_clk' = Wrap(next_timestamp_clk + Second)
          /\ alarm_set(EventAlarm, next_timestamp_clk')
          /\ next_timestamp_clk <= clk
      BY <2>1, <2>2 DEF TimestampSet, RecordInv
    <3>2. next_timestamp_clk' = next_timestamp_clk + Second
      BY <1>0, <3>1, ClkBound, ConstantsOK
      DEF Wrap, Fits, TypeInv, HistoryTypeOK, CLOCK
    <3>3. next_timestamp_clk' \in CLOCK
      BY <1>0 DEF TypeInv, HistoryTypeOK
    <3>4. EventAlarm \in pending' =>
            DueClk(EventAlarm)' = next_timestamp_clk'
      <4> DEFINE c == next_timestamp_clk'
      <4>1. c \in CLOCK /\ alarm_set(EventAlarm, c)
        BY <3>1, <3>3
      <4> HIDE DEF c
      <4>2. EventAlarm \in pending' => DueClk(EventAlarm)' = c
        BY <1>0, <2>1, <4>1, SetKeepsContext
      <4> QED BY <4>2 DEF c
    <3> QED BY <1>0, <2>1, <3>1, <3>2, <3>4, ConstantsOK DEF RecordInv
  <2>3. CASE NextEvent \/ LastEvent
    BY <2>3 DEF NextEvent, LastEvent, RecordInv
  <2> QED BY <1>11, <2>2, <2>3 DEF EventEnds
<1>12. CASE UNCHANGED vars
  BY <1>0, <1>12, OthersKeepRecord DEF vars, context, pending, DueClk
<1> QED BY <1>1, <1>2, <1>3, <1>4, <1>5, <1>6, <1>7, <1>8, <1>9, <1>10, <1>11,
           <1>12 DEF Next

-----------------------------------------------------------------------------
(* A context is well typed whoever owns it, for every number of alarms and *)
(* every size of the array.                                                *)
THEOREM TypeCorrect == Spec => []TypeOK
<1>1. TypeInv => TypeOK
  BY DEF TypeInv, Context, ContextTypeOK, HistoryTypeOK, TypeOK
<1> QED BY <1>1, TypeInit, TypeNext, PTL DEF Spec

(* Every pending alarm exists, knows its slot, and its slot knows it: in   *)
(* the main CPU's context and in a drive's, whatever clocks are armed.     *)
THEOREM IndicesCorrect == Spec => []PendingIndicesAgree
<1>1. TypeInv => PendingIndicesAgree
  <2> SUFFICES ASSUME TypeInv
               PROVE  PendingIndicesAgree
    OBVIOUS
  <2>1. \A i \in Slots(num_pending_alarms) : pending_alarms[i].alarm \in pending
    BY SlotOfPending DEF TypeInv
  <2> QED BY <2>1 DEF TypeInv, Context, IndicesAgree, PendingIndicesAgree
<1> QED BY <1>1, TypeInit, TypeNext, PTL DEF Spec

(* What the CPU loop compares its clock with is the earliest alarm there   *)
(* is, and there always is one.  A hypothesis, not an assumption of the    *)
(* model: the chips' alarms fit in CLKGUARD_SUB_MIN.                       *)
THEOREM NextCorrect ==
  ASSUME VideoAlarm # NoAlarm, Fits(Horizon)
  PROVE  Spec => []NextIsEarliest
<1>1. Init => IInv
  BY InitInv
<1>2. IInv /\ [Next]_vars => IInv'
  BY NextInv
<1>3. IInv => NextIsEarliest
  BY ClkBound, NextIsFirst DEF NextIsEarliest
<1> QED BY <1>1, <1>2, <1>3, PTL DEF Spec

(* No CLOCK a chip relies on wraps, whatever the width of a CLOCK, as long *)
(* as a frame, an instruction and what chips arm ahead fit in              *)
(* CLKGUARD_SUB_MIN together; how far ahead or behind event.c arms its     *)
(* alarm does not matter.                                                  *)
THEOREM ClocksCorrect ==
  ASSUME VideoAlarm # NoAlarm, Fits(Horizon)
  PROVE  Spec => []ClocksNeverWrap
<1>1. Init => IInv
  BY InitInv
<1>2. IInv /\ [Next]_vars => IInv'
  BY NextInv
<1>3. IInv => ClocksNeverWrap
  <2> SUFFICES ASSUME IInv
               PROVE  ClocksNeverWrap
    OBVIOUS
  <2>1. \A i \in Slots(num_pending_alarms) :
          /\ pending_alarms[i].alarm \in pending
          /\ DueClk(pending_alarms[i].alarm) = pending_alarms[i].clk
    BY SlotOfPending DEF IInv, TypeInv
  <2> QED BY <2>1, ClkBound DEF IInv, NearClk, EventNotOverdue, ClocksNeverWrap
<1> QED BY <1>1, <1>2, <1>3, PTL DEF Spec

(* Where a second fits in CLKGUARD_SUB_MIN as well, the timestamps of a    *)
(* recording are a second apart and the event alarm is armed for the next  *)
(* of them, through every setting back of the clock.                       *)
THEOREM TimestampsCorrect ==
  ASSUME VideoAlarm # NoAlarm, Fits(Horizon), Fits(Second)
  PROVE  Spec => TimestampsASecondApart
<1> DEFINE Inv == IInv /\ RecordInv
           Step == /\ EventEnds /\ event_mode = "record" =>
                        next_timestamp_clk' = next_timestamp_clk + Second
                   /\ (/\ event_mode' = "record" /\ EventAlarm \in pending')
                        => DueClk(EventAlarm)' = next_timestamp_clk'
<1>1. Init => Inv
  BY InitInv DEF Init, RecordInv
<1>2. Inv /\ [Next]_vars => Inv'
  BY NextInv, RecordNext
<1>3. Inv /\ Inv' => Step
  <2> SUFFICES ASSUME IInv, IInv', RecordInv, RecordInv' PROVE Step
    OBVIOUS
  <2>1. (/\ event_mode' = "record" /\ EventAlarm \in pending')
          => DueClk(EventAlarm)' = next_timestamp_clk'
    BY DEF RecordInv
  <2>2. ASSUME EventEnds, event_mode = "record"
        PROVE  next_timestamp_clk' = next_timestamp_clk + Second
    <3>1. next_timestamp_clk <= clk
      BY <2>2 DEF EventEnds, RecordInv
    <3>2. next_timestamp_clk' = Wrap(next_timestamp_clk + Second)
      BY <2>2 DEF EventEnds, TimestampSet, NextEvent, LastEvent
    <3>3. next_timestamp_clk \in Nat
      BY DEF IInv, TypeInv, HistoryTypeOK, CLOCK
    <3> QED BY <3>1, <3>2, <3>3, ClkBound, ConstantsOK DEF Wrap, Fits
  <2> QED BY <2>1, <2>2
<1> QED BY <1>1, <1>2, <1>3, PTL DEF Spec, TimestampsASecondApart

-----------------------------------------------------------------------------
(* The context as an alarm service: what AlarmService calls due.           *)
due == [a \in pending |-> DueClk(a) - clk]

(* What is due is a clock.                                                 *)
LEMMA DueIsInt ==
  ASSUME TypeInv
  PROVE  /\ clk \in Int
         /\ \A a \in pending : /\ a \in Alarm /\ DueClk(a) \in Int
                              /\ due[a] = DueClk(a) - clk /\ due[a] \in Int
<1>1. clk \in Int
  BY DEF TypeInv, CLOCK
<1>2. \A a \in pending : DueClk(a) \in Int /\ a \in Alarm
  <2>1. \A a \in pending : DueClk(a) \in CLOCK
    BY SlotOfPending DEF TypeInv
  <2>2. CLOCK \subseteq Int /\ pending \subseteq Alarm
    BY DEF CLOCK, pending
  <2> QED BY <2>1, <2>2
<1>3. \A a \in pending : due[a] = DueClk(a) - clk
  BY DEF due
<1> QED BY <1>1, <1>2, <1>3

(* alarm_set, as the service sees it: one alarm is armed, or (the array is *)
(* full) nothing has changed.                                              *)
LEMMA SetIsChange ==
  ASSUME TypeInv, NEW a \in alarms, NEW c \in CLOCK, alarm_set(a, c), clk' = clk
  PROVE  Service!Change
<1>1. /\ a \in Alarm /\ Context
      /\ c \in Int /\ clk \in Int
  BY DEF TypeInv, CLOCK
<1>2. /\ pending \subseteq pending'
      /\ pending' \subseteq pending \cup {a}
      /\ \A b \in pending \ {a} : DueClk(b)' = DueClk(b)
      /\ a \in pending' => DueClk(a)' = c
  BY <1>1, SetKeepsContext
<1>3. CASE a \in pending'
  <2>1. pending' = pending \cup {a}
    BY <1>2, <1>3
  <2>2. due'[a] = c - clk /\ c - clk \in Int
    BY <1>1, <1>2, <1>3 DEF due
  <2>3. \A b \in pending \ {a} : due'[b] = due[b]
    BY <1>2, <2>1 DEF due
  <2>4. DOMAIN due = pending /\ DOMAIN due' = pending \cup {a}
    BY <2>1 DEF due
  <2>5. Service!Armed(due')
    BY <1>1, <2>2, <2>3, <2>4 DEF Service!Armed, due
  <2> QED BY <2>5 DEF Service!Change, due
<1>4. CASE a \notin pending'
  <2>1. pending' = pending /\ a \notin pending
    BY <1>2, <1>4
  <2>2. due' = due
    BY <1>2, <2>1 DEF due
  <2> QED BY <2>2 DEF Service!Change, due
<1> QED BY <1>3, <1>4

(* To disarm an alarm is to change what is due.                            *)
LEMMA UnsetIsChange ==
  ASSUME TypeInv, NEW a \in Alarm, alarm_unset(a), clk' = clk
  PROVE  Service!Change
<1>1. /\ pending' = pending \ {a}
      /\ \A b \in pending \ {a} : DueClk(b)' = DueClk(b)
  BY UnsetKeepsContext DEF TypeInv
<1>2. due' = [b \in pending \ {a} |-> due[b]]
  BY <1>1 DEF due
<1>3. CASE a \in pending
  <2>1. Service!Disarmed(due')
    BY <1>2, <1>3 DEF Service!Disarmed, due
  <2> QED BY <2>1 DEF Service!Change, due
<1>4. CASE a \notin pending
  <2>1. due' = due
    BY <1>2, <1>4 DEF due
  <2> QED BY <2>1 DEF Service!Change, due
<1> QED BY <1>3, <1>4

(* Instructions let the same time pass for all, and only while none is due.*)
LEMMA ExecuteIsRun ==
  ASSUME IInv, IInv', NEW n \in 1 .. MaxStep, Execute(n)
  PROVE  Service!Run
<1>1. /\ UNCHANGED context /\ running = NoAlarm /\ running' = running
      /\ clk < next_pending_alarm_clk /\ clk' = Wrap(clk + n)
      /\ frame' = frame + n
  BY DEF Execute
<1>2. pending' = pending /\ \A a \in pending : DueClk(a)' = DueClk(a)
  BY <1>1 DEF context, pending, DueClk
<1>3. \A a \in pending : clk < DueClk(a)
  BY <1>1, NextIsFirst, ClkBound DEF CLOCK
<1>4. clk' = clk + n
  <2>1. frame \in Nat /\ frame' <= clk'
    BY DEF IInv, TypeInv, FrameOK
  <2> QED BY <1>1, <2>1, ClkBound, ConstantsOK DEF Wrap
<1>5. n \in Int /\ n > 0
  BY ConstantsOK
<1>6. DOMAIN due = pending /\ DOMAIN due' = pending
  BY <1>2 DEF due
<1>7. \A a \in pending : due'[a] = DueClk(a) - clk'
  BY <1>2 DEF due
<1>8. \A a \in pending : /\ due[a] > 0
                         /\ due'[a] \in Int
                         /\ due[a] - due'[a] = n
                         /\ due'[a] < due[a]
  BY <1>3, <1>4, <1>5, <1>7, DueIsInt DEF IInv
<1> QED BY <1>1, <1>6, <1>8 DEF Service!Run, due

(* A dispatch fires an alarm that is due.                                  *)
LEMMA DispatchIsFire ==
  ASSUME IInv, alarm_context_dispatch
  PROVE  \E a \in Alarm : Service!Fire(a)
<1> DEFINE i == next_pending_alarm_idx
           a == pending_alarms[i].alarm
<1>1. /\ i \in Slots(num_pending_alarms)
      /\ next_pending_alarm_clk <= clk
      /\ running = NoAlarm /\ running' = a
      /\ UNCHANGED <<context, clk>>
  BY NextIsFirst, ClkBound DEF alarm_context_dispatch, CLOCK
<1>2. a \in pending /\ DueClk(a) = next_pending_alarm_clk
  BY <1>1, NextIsFirst, SlotOfPending DEF IInv, TypeInv
<1>3. \A b \in pending : DueClk(a) <= DueClk(b)
  BY <1>2, NextIsFirst
<1> HIDE DEF a, i
<1>4. pending' = pending /\ \A b \in pending : DueClk(b)' = DueClk(b)
  BY <1>1 DEF context, pending, DueClk
<1>5. due' = due
  BY <1>1, <1>4 DEF due
<1>6. due[a] <= 0 /\ \A b \in pending : due[a] <= due[b]
  BY <1>1, <1>2, <1>3, DueIsInt DEF IInv
<1>7. DOMAIN due = pending /\ a \in Alarm
  BY <1>2 DEF due, pending
<1>8. Service!Fire(a)
  BY <1>1, <1>2, <1>5, <1>6, <1>7 DEF Service!Fire, due
<1> QED BY <1>7, <1>8

(* The guard moves the clock and the alarms together: it is not seen.      *)
LEMMA GuardIsUnseen ==
  ASSUME IInv, clk_guard_prevent_overflow
  PROVE  UNCHANGED <<due, running>>
<1>1. pending' = pending /\ \A a \in pending : DueClk(a)' - clk' = DueClk(a) - clk
  <2>1. CASE clk < ClkMaxValue
    BY <2>1 DEF clk_guard_prevent_overflow, context, pending, DueClk
  <2>2. CASE ~(clk < ClkMaxValue)
    <3>1. /\ clk' = Wrap(clk - clk_guard_clock_sub)
          /\ alarm_context_time_warp(clk_guard_clock_sub)
          /\ running = VideoAlarm
      BY <2>2 DEF clk_guard_prevent_overflow
    <3>2. ClkMaxValue <= clk
      BY <2>2, ClkBound, ConstantsOK
    <3>3. /\ pending' = pending
          /\ clk' = clk - clk_guard_clock_sub
          /\ \A a \in pending : DueClk(a)' = DueClk(a) - clk_guard_clock_sub
      BY <3>1, <3>2, GuardKeepsClocks
    <3>4. clk_guard_clock_sub \in Int
      BY ClockSubBounds
    <3> QED BY <3>3, <3>4, DueIsInt DEF IInv
  <2> QED BY <2>1, <2>2
<1>2. due' = due
  BY <1>1 DEF due
<1> QED BY <1>2 DEF clk_guard_prevent_overflow

(* A callback leaves its alarm in one of the ways the service knows.       *)
LEMMA CallbackIsReturn ==
  ASSUME IInv, CallbackReturn
  PROVE  Service!Return
<1>1. /\ running \in alarms /\ running \in Alarm /\ running # NoAlarm
      /\ running' = NoAlarm /\ clk' = clk /\ TypeInv
  BY DEF CallbackReturn, Returns, IInv, TypeInv
<1>2. Service!Change
  <2>1. CASE alarm_unset(running)
    BY <1>1, <2>1, UnsetIsChange
  <2>2. CASE \E d \in 1 .. Ahead(running) :
               alarm_set(running, Wrap(clk - offset + d))
    <3>1. PICK d \in 1 .. Ahead(running) :
                 alarm_set(running, Wrap(clk - offset + d))
      BY <2>2
    <3>2. /\ d \in Nat /\ d <= Horizon
          /\ offset \in Nat /\ offset <= clk
      BY ConstantsOK DEF Ahead, IInv, TypeInv, RunningIsDue, CLOCK
    <3>3. Wrap(clk - offset + d) \in CLOCK
      BY <3>2, WrapIsClock, ClkBound, ConstantsOK
    <3> QED BY <1>1, <3>1, <3>3, SetIsChange
  <2> QED BY <2>1, <2>2 DEF CallbackReturn
<1> QED BY <1>1, <1>2 DEF Service!Return

(* So does that of the event history, whatever clock it arms.              *)
LEMMA EventIsReturn ==
  ASSUME IInv, IInv', EventEnds
  PROVE  Service!Return
<1>1. /\ EventAlarm \in alarms /\ TypeInv /\ TypeInv'
      /\ running # NoAlarm /\ running' = NoAlarm /\ clk' = clk
  BY DEF EventEnds, Returns, IInv, TypeInv
<1>2. Service!Change
  <2>1. CASE TimestampSet
    <3> DEFINE c == next_timestamp_clk'
    <3>1. c \in CLOCK /\ alarm_set(EventAlarm, c)
      BY <1>1, <2>1 DEF TimestampSet, TypeInv, HistoryTypeOK
    <3> HIDE DEF c
    <3> QED BY <1>1, <3>1, SetIsChange
  <2>2. CASE NextEvent
    BY <1>1, <2>2, NextAlarmIsSet, SetIsChange DEF NextEvent
  <2>3. CASE LastEvent
    <3>1. due' = due
      BY <1>1, <2>3 DEF LastEvent, context, due, pending, DueClk
    <3> QED BY <3>1 DEF Service!Change, due
  <2> QED BY <2>1, <2>2, <2>3 DEF EventEnds
<1> QED BY <1>1, <1>2 DEF Service!Return

(* The array of slots with its cached minimum implements, for any number   *)
(* of alarms, a service that knows only the time left to each of them: the *)
(* CPU runs only while none is due, the callback made is that of an        *)
(* earliest one, and neither the swaps nor the rebased clock can be seen.  *)
(* The clocks that event.c arms are among them, near or far, past or not.  *)
THEOREM ServiceRefined ==
  ASSUME VideoAlarm # NoAlarm, Fits(Horizon)
  PROVE  Spec => IsAlarmService
<1>1. Init => IInv
  BY InitInv
<1>2. IInv /\ [Next]_vars => IInv'
  BY NextInv
<1>3. Init => Service!Init
  <2> SUFFICES ASSUME Init PROVE Service!Init
    OBVIOUS
  <2>1. DOMAIN due = pending /\ pending \subseteq Alarm
    BY DEF due, pending
  <2>2. \A a \in pending : due[a] \in Int
    BY TypeInit, DueIsInt
  <2>3. running = NoAlarm
    BY DEF Init
  <2> QED BY <2>1, <2>2, <2>3 DEF Service!Init, due
<1>4. IInv /\ IInv' /\ [Next]_vars => [Service!Next]_Service!vars
  <2> SUFFICES ASSUME IInv, IInv', [Next]_vars
               PROVE  [Service!Next]_Service!vars
    OBVIOUS
  <2>0. TypeInv /\ TypeInv'
    BY DEF IInv
  <2> USE DEF Service!Next
  <2>1. ASSUME NEW a \in Alarm, alarm_new(a)
        PROVE  UNCHANGED Service!vars
    BY <2>1 DEF alarm_new, context, Service!vars, pending, DueClk
  <2>2. ASSUME NEW a \in Alarm, alarm_destroy(a) \/ Disarm(a)
        PROVE  Service!Rearrange
    BY <2>0, <2>2, UnsetIsChange DEF alarm_destroy, Disarm, Service!Rearrange
  <2>3. ASSUME NEW a \in Alarm, Arm(a)
        PROVE  Service!Rearrange
    <3>1. PICK d \in 1 - offset .. Horizon : alarm_set(a, Wrap(clk + d))
      BY <2>3 DEF Arm
    <3>2. /\ d \in Int /\ 1 - offset <= d /\ d <= Horizon
          /\ offset \in Int /\ offset <= clk
      BY ConstantsOK DEF IInv, TypeInv, RunningIsDue, CLOCK
    <3>3. Wrap(clk + d) \in CLOCK
      BY <3>2, ClkBound, ConstantsOK, WrapIsClock
    <3>4. a \in alarms /\ UNCHANGED <<clk, running>>
      BY <2>3 DEF Arm
    <3> QED BY <2>0, <3>1, <3>3, <3>4, SetIsChange DEF Service!Rearrange
  <2>4. ASSUME NEW n \in 1 .. MaxStep, Execute(n)
        PROVE  Service!Run
    BY <2>4, ExecuteIsRun
  <2>5. ASSUME alarm_context_dispatch
        PROVE  \E a \in Alarm : Service!Fire(a)
    BY <2>5, DispatchIsFire
  <2>6. ASSUME CallbackReturn
        PROVE  Service!Return
    BY <2>6, CallbackIsReturn
  <2>7. ASSUME clk_guard_prevent_overflow
        PROVE  UNCHANGED Service!vars
    BY <2>7, GuardIsUnseen DEF Service!vars, due
  <2>8. ASSUME event_record_start_trap
        PROVE  Service!Rearrange
    <3>1. PICK c \in {clk, 0} : alarm_set(EventAlarm, c)
      BY <2>8 DEF event_record_start_trap
    <3>2. c \in CLOCK
      BY <2>0, ConstantsOK DEF TypeInv, CLOCK
    <3>3. EventAlarm \in alarms /\ UNCHANGED <<clk, running>>
      BY <2>0, <2>8 DEF event_record_start_trap, TypeInv
    <3> QED BY <2>0, <3>1, <3>2, <3>3, SetIsChange DEF Service!Rearrange
  <2>9. ASSUME event_record_stop \/ event_playback_stop \/ EventBegins
        PROVE  Service!Rearrange
    <3>1. /\ EventAlarm \in Alarm /\ alarm_unset(EventAlarm)
          /\ UNCHANGED <<clk, running>>
      BY <2>0, <2>9, AlarmAssumption
      DEF event_record_stop, event_playback_stop, EventBegins, pending, TypeInv,
          HistoryTypeOK
    <3> QED BY <2>0, <3>1, UnsetIsChange DEF Service!Rearrange
  <2>10. ASSUME event_playback_start_trap
         PROVE  Service!Rearrange
    <3>1. EventAlarm \in alarms /\ UNCHANGED <<clk, running>>
      BY <2>0, <2>10 DEF event_playback_start_trap, TypeInv
    <3> QED BY <2>0, <2>10, <3>1, NextAlarmIsSet, SetIsChange
            DEF event_playback_start_trap, Service!Rearrange
  <2>11. ASSUME EventEnds
         PROVE  Service!Return
    BY <2>11, EventIsReturn
  <2>12. CASE UNCHANGED vars
    BY <2>12 DEF vars, context, Service!vars, pending, DueClk
  <2> QED BY <2>1, <2>2, <2>3, <2>4, <2>5, <2>6, <2>7, <2>8, <2>9, <2>10,
             <2>11, <2>12 DEF Next
<1> QED
  BY <1>1, <1>2, <1>3, <1>4, PTL DEF Spec, IsAlarmService, Service!Spec
=============================================================================
