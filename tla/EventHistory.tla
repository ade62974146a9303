---------------------------- MODULE EventHistory ----------------------------
(***************************************************************************)
(* Recording what the user does and playing it back.  A recording is the   *)
(* machine's state when it began, in one snapshot, and a list of events,   *)
(* each with the machine's clock, in another.  Playing it back restores    *)
(* the first and lets an alarm of the machine's CPU give it each event at  *)
(* its clock.  Since the machine does the same again if it is given the    *)
(* same at the same time, this shows what was recorded; but the clock is   *)
(* set back before it overflows and by every reset, and recordings are     *)
(* stopped, resumed at a milestone, overwritten and abandoned.             *)
(***************************************************************************)
EXTENDS Integers, Sequences, SequencesExt

CONSTANTS
  Mod,          \* the clock counts modulo Mod
  SUB_MIN,      \* CLKGUARD_SUB_MIN
  Frame,        \* cycles of a frame
  Second,       \* cycles between two time stamps
  ResetClk,     \* the clock after a reset (6)
  PowerUpClk,   \* bound: the clock of the first machine
  Delays,       \* cycles a key may take from the user to the machine
  Modes,        \* start modes in use
  None,
  Horizon,      \* bound: age of the machine
  MaxInputs,    \* bound: keys and resets the machine is given
  MaxRequests,  \* bound: what the user asks of the recorder, and snapshots
                \* that cannot be written
  Early,        \* whether the host listens to the user before the clock is
                \* set back at the end of a frame (SDL), or after (X11)
  Patient       \* bound: whether the user waits for what was asked before,
                \* and with a reset or a playback for a key on its way

MaxClk == Mod - 1 - SUB_MIN

Sub == ((MaxClk - SUB_MIN) \div Frame) * Frame

ASSUME ClockAssumption ==
  /\ {Mod, SUB_MIN, Frame, Second, ResetClk, PowerUpClk} \subseteq Nat \ {0}
  /\ SUB_MIN + Second < Sub /\ Frame <= SUB_MIN
  /\ {PowerUpClk, ResetClk} \subseteq 0..MaxClk
ASSUME BoundAssumption ==
  /\ Delays \subseteq 1..SUB_MIN /\ Modes \subseteq {"save", "load", "reset", "overwrite"}
  /\ {Horizon, MaxInputs, MaxRequests} \subseteq Nat /\ {Early, Patient} \subseteq BOOLEAN
ASSUME NoneAssumption ==
  None \notin Nat \cup {"record_start", "record_stop", "playback_start", "set_milestone",
                       "reset_milestone"}

VARIABLES
  machine,      \* what a snapshot holds: [clk, raster, age, inputs]
  latch,        \* clock of the alarm of a key on its way
  alarm,        \* clock of event_alarm
  record_active, playback_active, playback_reset_ack,
  event_list,   \* [nodes, current], or None
  next_timestamp_clk, milestone_timestamp_alarm,
  event_start_mode,
  trap,         \* trap_func of the CPU's interrupt status
  resetting,    \* whether the CPU is about to be reset
  start, end,   \* the two files
  story,        \* history: what the recording tells that is played, until
                \* a new recording takes over
  used          \* history: requests and faults, see MaxRequests

recorder == <<record_active, playback_active, playback_reset_ack, event_list,
              next_timestamp_clk, milestone_timestamp_alarm, event_start_mode>>

vars == <<machine, latch, alarm, recorder, trap, resetting, start, end, story, used>>

-----------------------------------------------------------------------------
(* The machine.  age is the true time, and inputs what it has been given   *)
(* and when; the rest of its state follows from these.                     *)
PowerUp(clk) == [clk |-> clk, raster |-> clk + Frame, age |-> 0, inputs |-> <<>>]

Given(m, what) == [m EXCEPT !.inputs = Append(@, [age |-> m.age, what |-> what])]

Telling(m) == [age |-> m.age, inputs |-> m.inputs]

IsDue(c) == c # None /\ c <= machine.clk

AlarmsDone == ~IsDue(machine.raster) /\ ~IsDue(latch) /\ ~IsDue(alarm)

SetBack(c) == IF c = None THEN None ELSE (c - Sub) % Mod

-----------------------------------------------------------------------------
(* The list of events.  Every list ends in a node of type `end', which the *)
(* next event replaces.  Three fields are history: the machine the list    *)
(* starts from, what it tells up to its first stop, and whether it is all  *)
(* that happened.                                                          *)
Node(type, clk) == [type |-> type, clk |-> clk]

ListEnd == Node("end", 0)

create_list(from) ==
  [nodes |-> <<ListEnd>>, current |-> 1, from |-> from, told |-> None, whole |-> TRUE]

Current(l) == l.nodes[l.current]

next_current_list(l) == [l EXCEPT !.current = @ + 1]

event_record_in_list(l, type, clk) ==
  [l EXCEPT !.nodes = Append([@ EXCEPT ![l.current] = Node(type, clk)], ListEnd),
            !.current = @ + 1]

(* event_record: what happens with the list and the time stamps.           *)
event_record(type, clk) ==
  /\ event_list' = IF record_active THEN event_record_in_list(event_list, type, clk)
                                    ELSE event_list
  /\ next_timestamp_clk' = IF record_active /\ type = "reset"
                           THEN (next_timestamp_clk - clk) % Mod ELSE next_timestamp_clk

(* Variant: the clock is thought never to be set back.                     *)
next_alarm_set_NoSub(l, clk) == Current(l).clk

(* When the alarm must come for the current event of a list.  An event far *)
(* behind the clock is one from after its next setting back.               *)
next_alarm_set(l, clk) ==
  LET new_value == Current(l).clk IN
  IF clk > SUB_MIN /\ new_value < clk - SUB_MIN THEN (new_value + Sub) % Mod ELSE new_value

(* What is written of a list, and what is read back: the nodes up to the   *)
(* first end, with a time stamp each second so that no event is far away.  *)
event_snapshot_write_module(l) ==
  LET written[i \in 0..Len(l.nodes)] ==
        IF i = 0 THEN <<>>
        ELSE IF l.nodes[i].type = "timestamp" THEN written[i - 1]
        ELSE Append(written[i - 1], l.nodes[i]) IN
  written[Len(l.nodes)]

Stamps(from, to) ==
  [i \in 1..(IF from < to THEN (to - from + Second - 1) \div Second ELSE 0) |->
     Node("timestamp", from + (i - 1) * Second)]

Reading(nodes) ==
  LET f[i \in 0..Len(nodes)] ==
        IF i = 0 THEN [nodes |-> <<>>, stamp |-> 0]
        ELSE LET n == nodes[i]
                 before == f[i - 1]
                 stamps == CASE n.type = "initial_reset" -> <<>>
                             [] n.type = "initial_save" -> <<>>
                             [] n.type = "overflow" -> Stamps(before.stamp, MaxClk)
                             [] OTHER -> Stamps(before.stamp, n.clk)
                 stamp == before.stamp + Second * Len(stamps) IN
             [nodes |-> Append(before.nodes \o stamps, n),
              stamp |-> CASE n.type = "initial_reset" -> 0
                          [] n.type = "initial_save" -> n.clk
                          [] n.type = "overflow" -> stamp - Sub
                          [] n.type = "reset" -> stamp - n.clk
                          [] OTHER -> stamp] IN
  f[CHOOSE i \in 1..Len(nodes) :
      nodes[i].type = "end" /\ \A j \in 1..i-1 : nodes[j].type # "end"]

event_snapshot_read_module(file) ==
  [file.list EXCEPT !.nodes = Reading(file.list.nodes).nodes, !.current = 1]

(* Recording goes on at the end of the list that was read.                 *)
warp_end_list(file) ==
  LET l == event_snapshot_read_module(file)
      told == file.list.told IN
  [l EXCEPT !.nodes[Len(l.nodes)] = ListEnd, !.current = Len(l.nodes), !.told = None,
            !.whole = @ /\ told \in {None, Telling(file.machine)}]

(* Variant: the current event is freed with those behind it.               *)
CutList_Short(l) == [l EXCEPT !.nodes = SubSeq(@, 1, l.current - 1), !.told = None]

(* Recording goes on at the current event, and those behind it are lost.   *)
CutList(l) ==
  [l EXCEPT !.nodes = Append(SubSeq(@, 1, l.current - 1), Node("end", Current(l).clk)),
            !.told = None]

Files(l) == [machine |-> machine,
             list |-> [l EXCEPT !.nodes = event_snapshot_write_module(l), !.current = 1]]

-----------------------------------------------------------------------------
(* Time passes.                                                            *)
Tick ==
  /\ AlarmsDone /\ trap = None /\ ~resetting
  /\ machine.age < Horizon
  /\ machine' = [machine EXCEPT !.clk = @ + 1, !.age = @ + 1]
  /\ UNCHANGED <<latch, alarm, recorder, trap, resetting, start, end, story, used>>

(* The end of a frame; before it overflows the clock is set back, all      *)
(* alarms with it.                                                         *)
Vsync ==
  LET over == machine.clk >= MaxClk
      clk == IF over THEN machine.clk - Sub ELSE machine.clk IN
  /\ IsDue(machine.raster)
  /\ machine' = [machine EXCEPT !.clk = clk, !.raster = clk + Frame]
  /\ IF over
     THEN /\ latch' = SetBack(latch)
          /\ alarm' = SetBack(alarm)
          /\ event_list' = IF record_active
                           THEN event_record_in_list(event_list, "overflow", clk) ELSE event_list
          /\ next_timestamp_clk' = IF next_timestamp_clk = 0 THEN 0
                                   ELSE (next_timestamp_clk - Sub) % Mod
     ELSE UNCHANGED <<latch, alarm, event_list, next_timestamp_clk>>
  /\ UNCHANGED <<record_active, playback_active, playback_reset_ack, milestone_timestamp_alarm,
                 event_start_mode, trap, resetting, start, end, story, used>>

(* A key reaches the machine.                                              *)
keyboard_latch_handler ==
  /\ IsDue(latch)
  /\ latch' = None
  /\ machine' = Given(machine, "key")
  /\ event_record("key", machine.clk)
  /\ UNCHANGED <<alarm, record_active, playback_active, playback_reset_ack,
                 milestone_timestamp_alarm, event_start_mode, trap, resetting, start, end,
                 story, used>>

(* The event alarm: a time stamp of a recording, or the current event.     *)
RecordStamp ==
  /\ record_active
  /\ next_timestamp_clk' = (next_timestamp_clk + Second) % Mod
  /\ alarm' = (next_timestamp_clk + Second) % Mod
  /\ UNCHANGED <<machine, resetting, playback_active, event_list>>

PlayEvent ==
  LET type == Current(event_list).type
      l == next_current_list(event_list) IN
  /\ ~record_active
  /\ machine' = IF type \in {"key", "reset"} THEN Given(machine, type) ELSE machine
  /\ resetting' = (resetting \/ type = "reset")
  /\ playback_active' = (playback_active /\ type # "end")
  /\ IF type \in {"end", "reset"} THEN alarm' = None /\ UNCHANGED event_list
     ELSE event_list' = l /\ alarm' = next_alarm_set(l, machine.clk)
  /\ UNCHANGED next_timestamp_clk

event_alarm_handler ==
  /\ IsDue(alarm)
  /\ RecordStamp \/ PlayEvent
  /\ UNCHANGED <<latch, record_active, playback_reset_ack, milestone_timestamp_alarm,
                 event_start_mode, trap, start, end, story, used>>

(* The CPU is reset.                                                       *)
event_reset_ack ==
  LET again == event_list # None /\ Current(event_list).type = "reset"
      l == IF again THEN next_current_list(event_list) ELSE event_list IN
  IF event_list = None THEN UNCHANGED <<alarm, event_list, playback_reset_ack>>
  ELSE /\ playback_reset_ack' = FALSE
       /\ event_list' = l
       /\ alarm' = CASE record_active -> next_timestamp_clk
                     [] ~record_active /\ (again \/ playback_reset_ack) -> next_alarm_set(l, ResetClk)
                     [] OTHER -> alarm

CpuReset ==
  /\ AlarmsDone /\ trap = None /\ resetting
  /\ resetting' = FALSE
  /\ machine' = [machine EXCEPT !.clk = ResetClk, !.raster = ResetClk + Frame]
  /\ event_reset_ack
  /\ UNCHANGED <<latch, record_active, playback_active, next_timestamp_clk,
                 milestone_timestamp_alarm, event_start_mode, trap, start, end, story, used>>

-----------------------------------------------------------------------------
(* The traps, in which the recorder does what it was asked.  A snapshot    *)
(* may fail to be written, which may take the old one with it.             *)
Fault == used < MaxRequests /\ used' = used + 1

Failed(file) == {file, None}

StartRecording(m, l, stamp) ==
  /\ machine' = m
  /\ event_list' = l
  /\ record_active' = TRUE
  /\ next_timestamp_clk' = stamp
  /\ milestone_timestamp_alarm' = 0
  /\ alarm' = stamp
  /\ story' = None

NotStarted == UNCHANGED <<machine, event_list, record_active, next_timestamp_clk,
                          milestone_timestamp_alarm, alarm, story>>

RecordSave ==
  /\ event_start_mode = "save"
  /\ \/ /\ start' = machine
        /\ StartRecording(machine,
             event_record_in_list(create_list(machine), "initial_save", machine.clk), machine.clk)
        /\ UNCHANGED used
     \/ /\ Fault
        /\ start' \in Failed(start)
        /\ NotStarted
  /\ UNCHANGED resetting

RecordLoad ==
  /\ event_start_mode = "load"
  /\ IF end = None THEN NotStarted
     ELSE StartRecording(end.machine, warp_end_list(end), end.machine.clk)
  /\ UNCHANGED <<resetting, start, used>>

RecordReset ==
  /\ event_start_mode = "reset"
  /\ StartRecording(IF playback_active THEN machine ELSE PowerUp(machine.clk),
       [event_record_in_list(create_list(None), "initial_reset", machine.clk)
          EXCEPT !.whole = ~playback_active], 0)
  /\ resetting' = (resetting \/ ~playback_active)
  /\ UNCHANGED <<start, used>>

RecordOverwrite ==
  /\ event_start_mode = "overwrite"
  /\ StartRecording(machine, CutList(event_list), machine.clk)
  /\ UNCHANGED <<resetting, start, used>>

event_record_start_trap ==
  /\ trap = "record_start"
  /\ RecordSave \/ RecordLoad \/ RecordReset \/ RecordOverwrite
  /\ UNCHANGED <<playback_active, playback_reset_ack, end>>

(* The end snapshot: what becomes of it, and whether it was written.       *)
WriteEnd(ok) ==
  /\ IF ok THEN end' = Files(event_list) /\ UNCHANGED used
     ELSE Fault /\ end' \in Failed(end)
  /\ UNCHANGED <<machine, alarm, playback_active, playback_reset_ack, event_list,
                 next_timestamp_clk, resetting, start, story>>

event_record_stop_trap ==
  /\ trap = "record_stop"
  /\ \E ok \in BOOLEAN :
       /\ WriteEnd(ok)
       /\ record_active' = (record_active /\ ~ok)
  /\ UNCHANGED milestone_timestamp_alarm

event_record_set_milestone_trap ==
  /\ trap = "set_milestone"
  /\ \E ok \in BOOLEAN :
       /\ WriteEnd(ok)
       /\ milestone_timestamp_alarm' =
            IF ok THEN next_timestamp_clk ELSE milestone_timestamp_alarm
  /\ UNCHANGED record_active

event_record_reset_milestone_trap ==
  /\ trap = "reset_milestone"
  /\ IF end = None
     THEN record_active' = FALSE /\ UNCHANGED <<machine, event_list, next_timestamp_clk, alarm>>
     ELSE /\ record_active' = TRUE
          /\ machine' = end.machine
          /\ event_list' = warp_end_list(end)
          /\ IF milestone_timestamp_alarm > 0
             THEN /\ alarm' = milestone_timestamp_alarm
                  /\ next_timestamp_clk' = milestone_timestamp_alarm
             ELSE /\ UNCHANGED alarm
                  /\ next_timestamp_clk' = Reading(end.list.nodes).stamp % Mod
  /\ UNCHANGED <<playback_active, playback_reset_ack, milestone_timestamp_alarm, resetting,
                 start, end, story, used>>

(* What the recording tells: up to its first stop, or to the snapshot if   *)
(* it was never stopped; whether it can be told: the list is whole and the *)
(* start snapshot is its own.                                              *)
Story(m) ==
  LET told == end.list.told IN
  [inputs |-> IF told = None THEN end.machine.inputs ELSE told.inputs,
   age |-> IF told = None THEN end.machine.age ELSE told.age,
   stopped |-> told # None,
   whole |-> end.list.whole /\ (end.list.from = None \/ end.list.from = m)]

PlayFrom(m, l) ==
  /\ machine' = m
  /\ playback_active' = TRUE
  /\ story' = Story(m)
  /\ event_list' = next_current_list(l)

event_playback_start_trap ==
  LET l == event_snapshot_read_module(end) IN
  /\ trap = "playback_start"
  /\ IF end = None THEN UNCHANGED <<machine, playback_active, playback_reset_ack, event_list,
                                    next_timestamp_clk, alarm, resetting, story>>
     ELSE /\ next_timestamp_clk' = Reading(end.list.nodes).stamp % Mod
          /\ IF Current(l).type = "initial_reset"
             THEN /\ PlayFrom(PowerUp(machine.clk), l)
                  /\ resetting' = TRUE
                  /\ playback_reset_ack' = TRUE
                  /\ UNCHANGED alarm
             ELSE IF start = None
             THEN /\ event_list' = l
                  /\ UNCHANGED <<machine, playback_active, playback_reset_ack, alarm, resetting,
                                 story>>
             ELSE /\ PlayFrom(start, l)
                  /\ alarm' = next_alarm_set(next_current_list(l), start.clk)
                  /\ UNCHANGED <<playback_reset_ack, resetting>>
  /\ UNCHANGED <<record_active, milestone_timestamp_alarm, start, end, used>>

Trap ==
  /\ AlarmsDone
  /\ trap' = None
  /\ \/ event_record_start_trap \/ event_record_stop_trap \/ event_playback_start_trap
     \/ event_record_set_milestone_trap \/ event_record_reset_milestone_trap
  /\ UNCHANGED <<latch, event_start_mode>>

-----------------------------------------------------------------------------
(* The user, who is listened to in the handler of the raster alarm.  A     *)
(* request that is granted leaves a trap; there is room for one.           *)
Asks ==
  /\ IF Early THEN IsDue(machine.raster) ELSE machine.raster = machine.clk + Frame
  /\ Patient => trap = None /\ ~resetting

Request(t) ==
  /\ Asks
  /\ used < MaxRequests
  /\ used' = used + 1
  /\ trap' = t
  /\ UNCHANGED <<machine, latch, resetting, start, end, story>>

StopsPlaying == playback_active' = FALSE /\ alarm' = None

Still == UNCHANGED <<record_active, playback_reset_ack, next_timestamp_clk,
                     milestone_timestamp_alarm>>

event_record_start(mode) ==
  /\ Request("record_start")
  /\ ~record_active
  /\ mode = "overwrite" => playback_active
  /\ event_start_mode' = mode
  /\ IF mode = "overwrite" THEN StopsPlaying ELSE UNCHANGED <<playback_active, alarm>>
  /\ UNCHANGED event_list /\ Still

(* Variant: the end of the session is not recorded.                        *)
event_record_stop_NoEnd ==
  /\ Request("record_stop")
  /\ record_active
  /\ alarm' = None
  /\ event_list' = [event_list EXCEPT !.told =
                      IF @ = None THEN Telling(machine) ELSE @]
  /\ UNCHANGED <<playback_active, event_start_mode>> /\ Still

event_record_stop ==
  /\ Request("record_stop")
  /\ record_active
  /\ alarm' = None
  /\ event_list' = [event_record_in_list(event_list, "end", machine.clk) EXCEPT !.told =
                      IF @ = None THEN Telling(machine) ELSE @]
  /\ UNCHANGED <<playback_active, event_start_mode>> /\ Still

event_playback_start ==
  /\ Request("playback_start")
  /\ ~record_active /\ ~playback_active
  /\ Patient => latch = None
  /\ UNCHANGED <<alarm, playback_active, event_list, event_start_mode>> /\ Still

event_record_set_milestone ==
  /\ Request("set_milestone")
  /\ record_active
  /\ UNCHANGED <<alarm, playback_active, event_list, event_start_mode>> /\ Still

event_record_reset_milestone ==
  /\ Request("reset_milestone")
  /\ ~playback_active /\ record_active
  /\ UNCHANGED <<alarm, playback_active, event_list, event_start_mode>> /\ Still

event_playback_stop ==
  /\ Request(trap)
  /\ playback_active
  /\ StopsPlaying
  /\ UNCHANGED <<event_list, event_start_mode>> /\ Still

(* A key is pressed, or the machine reset: not while a recording is        *)
(* played.                                                                 *)
Inputs == record_active /\ Len(machine.inputs) < MaxInputs

keyboard_key_pressed(delay) ==
  /\ Asks /\ Inputs
  /\ ~playback_active
  /\ latch' = (machine.clk + delay) % Mod
  /\ UNCHANGED <<machine, alarm, recorder, trap, resetting, start, end, story, used>>

machine_trigger_reset ==
  /\ Asks /\ Inputs
  /\ Patient => latch = None
  /\ ~playback_active
  /\ resetting' = TRUE
  /\ machine' = Given(machine, "reset")
  /\ event_record("reset", machine.clk)
  /\ UNCHANGED <<latch, alarm, record_active, playback_active, playback_reset_ack,
                 milestone_timestamp_alarm, event_start_mode, trap, start, end, story, used>>

Init ==
  /\ machine = PowerUp(PowerUpClk)
  /\ latch = None /\ alarm = None
  /\ record_active = FALSE /\ playback_active = FALSE /\ playback_reset_ack = FALSE
  /\ event_list = None
  /\ next_timestamp_clk = 0 /\ milestone_timestamp_alarm = 0
  /\ event_start_mode = "save"
  /\ trap = None /\ resetting = FALSE
  /\ start = None /\ end = None
  /\ story = None
  /\ used = 0

Alarms == Vsync \/ keyboard_latch_handler \/ event_alarm_handler

User ==
  \/ \E mode \in Modes : event_record_start(mode)
  \/ event_record_stop \/ event_playback_start \/ event_playback_stop
  \/ event_record_set_milestone \/ event_record_reset_milestone
  \/ \E delay \in Delays : keyboard_key_pressed(delay)
  \/ machine_trigger_reset

Next == Tick \/ Alarms \/ Trap \/ CpuReset \/ User

Spec == Init /\ [][Next]_vars

-----------------------------------------------------------------------------
Clock == 0..Mod-1

(* The clocks stay in their range, and the current event is one of the     *)
(* list.                                                                   *)
TypeOK ==
  /\ machine.clk \in Clock /\ machine.raster \in Clock
  /\ {latch, alarm} \subseteq Clock \cup {None}
  /\ next_timestamp_clk \in Clock /\ milestone_timestamp_alarm \in Clock
  /\ event_list # None => event_list.current \in 1..Len(event_list.nodes)

Settled == AlarmsDone /\ trap = None /\ ~resetting

Playing == playback_active /\ story # None /\ story.whole

Told(age) == SelectSeq(story.inputs, LAMBDA i : i.age <= age)

(* A playback gives the machine what the recording did, each input at the  *)
(* same point of its life, whether the clock was set back in between, the  *)
(* machine reset, the recording resumed at a milestone or after a stop, or *)
(* begun inside of another one: event_alarm_handler, next_alarm_set and    *)
(* event_reset_ack find every event although its clock may be one from     *)
(* before the last reset or after the next setting back.                   *)
Faithful == Playing /\ Settled => machine.inputs = Told(machine.age)

(* The playback of a recording that was stopped ends where it was stopped, *)
(* and not a moment later: "The playback stops when the end of the session *)
(* is reached" (doc/vice.texi).                                            *)
StopsInTime == Playing /\ Settled /\ story.stopped => machine.age < story.age
=============================================================================
