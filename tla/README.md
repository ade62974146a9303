# A verification project for VICE

VICE emulates the 8-bit Commodore machines. This directory holds TLA+ modules
translated from its C sources (`src/vice/src`), the TLC configurations that
check them on small instances, and TLAPS proofs for every value of the
constants. Paths below are relative to `src/vice/src`.

To check: `tlc -config MCAlarmMain.cfg MCAlarm.tla`, and so on for each `.cfg`;
`tlapm` on `AlarmProofs`, `InterruptProofs`, `NaturalFacts`, `NetplayProofs`,
`IeeeBusProofs`, `IeeeBusStream`, `DriveSyncProofs` and `EventHistoryProofs` for
the proofs.
`PROJECT.json` lists the runs, the source lines behind each definition, and for
each property a mutant of the model that violates it.

## 1. Inventory

VICE is one thread that runs a machine cycle by cycle. What makes it hard is
not threads but *time*: chips are not clocked but computed late, when somebody
looks, from alarms that come at instruction boundaries; every clock is 32 bits
wide and is moved back before it overflows; the drives' CPUs have clocks of
their own; and functions that touch the whole machine (snapshots, resets, user
requests) are pushed between two instructions. Two emulators that play over a
network add real concurrency.

| Part | State | Operations | Hard behaviour | What makes it right |
|---|---|---|---|---|
| alarm contexts (`alarm.h`, `alarm.c`), clock guard (`clkguard.c`) | array of pending slots, cached earliest slot, an index in each alarm; the CPU clock | create, destroy, set, unset, dispatch, time warp | swap-remove behind cached indices; callbacks that re-arm; the clock moved back under all of them | indices agree; the cached alarm is earliest; no clock wraps; dispatch ends |
| interrupt status (`interrupt.h`, `interrupt.c`) and its dispatch (`6510core.c`, `maincpu.c`) | lines per chip, counters, bit mask, the cycles of the last changes, one trap slot | set, unset, acknowledge, trap, reset, restore | requests inside `DO_INTERRUPT`; a released IRQ still counts for cycles; opcodes that delay; snapshots | wired-or level, latched edge; nothing is lost; nothing is served twice |
| CIA timers and interrupt register (`core/ciatimer.*`, `core/ciacore.c`) | two timers with a pipeline, latches, control registers, flags, mask, alarms | read, store, peek, underflow alarms, idle alarm, clock overflow, flag pin, reset | catching up with shortcuts; alarms skipped as unneeded; timer B counting timer A; a read racing an underflow | cannot be told from a chip clocked in every cycle |
| netplay (`network.c`, parts of `socket.c`, `event.c`) | ring of event lists, mode, sockets, two TCP streams | start, connect, record, the vsync hook's send and receive, suspend, disconnect | two emulators whose hooks wait for each other; pauses, drift, a peer that leaves | the same events in the same frames on both; a drift is found; nobody waits for ever |
| drive CPUs (`drive/drivecpu*.c`, `drive/drive-overflow.c`), IEC bus (`iecbus/`) | a clock, a stop clock, a remainder, the main clock last seen | execute up to, wake up, overflow | two CPUs that catch up with each other at each bus access, two clocks moved back independently | no cycle lost or run twice; a line is seen in the order it changed |
| IEEE-488 bus (`parallel/`) | three wires, the emulated device's state | wire transitions from both sides | each transition runs inside the other side's write | the handshake never stops, no byte twice |
| VIA, RIOT, TPI (`core/`) | timers, latches, flags | as the CIA | as the CIA | as the CIA |
| event history (`event.c`) | list, milestone, playback position | record, milestone, playback, snapshot | traps that act on checks made earlier; resets rewind the clock | playback repeats the recording |
| keyboard and joystick latches, keyboard buffer | latched matrix, delay alarm, queue | press, release, latch, feed, flush | input between latch and alarm | no key is lost or stuck |
| datasette, autostart, flash ROM, ACIA | a state machine and an alarm each | control, alarm, snapshot | the program changes the state while the alarm is on its way | the alarm acts on the state it was set for |
| snapshots, resources, attach, fliplists, monitor | files, tables, lists | save, load, set | a load that fails half-way | all or nothing |
| CPU instruction sets, video, sound, disk formats, GCR, cartridges, printers, user interfaces, vendored libraries | data | | | |

The parts meet in few places. Every chip arms *alarms* in its CPU's context and
sets *interrupt lines* in its CPU's status. The video chip's alarm ends the
frame, calls the *clock guard* (and through it every chip's overflow callback)
and the *vsync hook*, where netplay exchanges lists. Everything that must not
happen inside an instruction becomes a *trap*. Accesses to a bus run the
*drives* up to the cycle of the access.

The last row is data rather than control and is left out for good; the reason
for each part is in `PROJECT.json` under `components`, and what can go wrong in
each, with the line where it bites, under `hazards`.

## 2. Plan

Ordered by how much of the emulator depends on it. Done: 1 to 7.

1. **Alarm** (`AlarmService` <- `Alarm`, proofs in `AlarmProofs`): everything is driven by it.
2. **Interrupt** (`InterruptLines` <- `Interrupt`, proofs in `InterruptProofs`): all chips end there.
3. **Netplay** (`Lockstep` <- `Netplay`, proofs in `NetplayProofs`): the one
   part with real concurrency and failures.
4. **CIA** (`CiaTimer`, `Cia`, compared with `CiaChip` in `CiaPair`): the laziness all chips share.
5. **IEEE-488 bus** (`ByteStream` <- `IeeeBus` over `ParallelTrap`, proofs in `IeeeBusProofs`
   and `IeeeBusStream`): handlers that run inside each other, and the liveness of the handshake.
6. **DriveSync** (proofs in `DriveSyncProofs`): the machine's CPU, the drives' CPUs, their guards, the accesses that run the drives.
7. **EventHistory** (proofs in `EventHistoryProofs`): recording, milestones, playback, and the
   delay between a key and the machine.
8. **NetplayInput**: the delayed latches of netplay, composed with Netplay.
9. **Flash040**, **Kbdbuf**, **Datasette**, **Acia**: alarm clients with a state machine each.
10. The rest of the CIA (clock of the day, shift register, read-modify-write stores),
   then the VIA; then the CIA as a client of Alarm and Interrupt, one instance of each.

The nine passing runs check each component once, or twice where one instance
cannot hold both questions (`int_lines` without, `int_served` with liveness;
`net_play` with, `net_faults` without). Three runs show where the code does not
do what it says. Five more configurations, listed in section 11, show others.

Proofs done: the safety of `Alarm`, `Interrupt`, `Netplay`, `DriveSync` and
`IeeeBus`, `TypeOK` of `EventHistory`, and the four refinements `Alarm` ->
`AlarmService`, `Interrupt` -> `InterruptLines`, `Netplay` -> `Lockstep` and
`IeeeBus` -> `ByteStream`. Proofs wanted, in order: `EventHistory`'s `StopsInTime`; that a
shortcut of `CiaTimer` equals the cycles it skips (`Warp` on a counting timer
without `OneShot`, by a closed form in place of the recursion).

## 3. Alarm

`Alarm.tla` is one alarm context, the loop that dispatches it and the guard
that moves the clock back. `alarm_new`, `alarm_destroy`, `Arm` (`alarm_set`),
`Disarm` (`alarm_unset`), `alarm_context_dispatch` and
`clk_guard_prevent_overflow` are the functions of that name; `Execute` is an
instruction that takes up to `MaxStep` cycles and runs only if no alarm is due;
between `alarm_context_dispatch` and `CallbackReturn` the callback may arm,
disarm, create and destroy any alarm. What an instruction does to alarms is done before
its cycles are counted, at its start; an alarm it arms for its first cycle is late at its
end. In a callback `Arm` counts from the cycle in which the callback's alarm was due
(`offset` ago), so that it arms alarms for now and for the past, and `CallbackReturn`
arms the callback's own for later than it was due, which may be past too. Clocks wrap modulo
`ClockMax + 1`. The slots beyond `num_pending_alarms` are not read by the code and not kept.
`alarm_context_destroy` is a sequence of `alarm_destroy`s. Cycles a video chip
steals inside a callback count as part of the next instruction. The main CPU's
context has an alarm `VideoAlarm` that is always armed, as every video chip's
is, at most a frame ahead, and from which the guard is called; a drive's
context has none, and may be empty.

One client arms its alarm otherwise, and has actions of its own: the event history
(`event.c`; its lists are in section 9). `event_record_start_trap` arms `EventAlarm` for the
present clock, or for 0 when a reset is to follow; `EventBegins` and `EventEnds` are
`event_alarm_handler`, between whose `alarm_unset` and `alarm_set` the played event may change other
alarms; recording it arms a second after the last time stamp (`TimestampSet`), playing
back whatever clock was recorded, brought forward by `next_alarm_set`'s guess, past or the same as
this event's included (`NextEvent`); `clk_overflow_callback` moves its
`next_timestamp_clk`, which is not in the context. What ends the loop then is
not that time goes on but that the list does (`LastEvent`). The reset itself, which sets the clock
back under everything, is in section 9 and not here.

`AlarmService.tla` is the promise: alarms have *cycles left*, the CPU runs only
while none is due, and an earliest due one is called. There is no absolute clock
in it, so the refinement (`due[a]` = the slot's clock minus `clk`) says that
rebasing, swapping and caching do not show.

- `alarm_main`: the raster alarm, the event history's and two of chips, and three slots, so
  that `alarm_set` finds the array full (it then logs and does nothing); a clock of
  25 values with 6 kept free. A dozen instructions reach the guard; an
  alarm is up to 2 cycles ahead and an instruction up to 2 cycles late, so that
  ties, late alarms and alarms across a rebasing all occur. `clk_base` is 5, so
  that the subtraction rounds. A history of up to two events has clocks from before, at and after
  the guard's limit (`RecordedClk`). `AlarmsDrain` (liveness): the loop ends.
  `TimestampsASecondApart`: a second here is as long as the guard leaves room for.
- `MCAlarmSecond.cfg` (section 11, violates `TimestampsASecondApart`): a second is longer than that room. The next time stamp's clock
  wraps, its alarm is due at once, and so are those after it until they have caught up with
  the clock, two to four thousand in a row. So it is on the VIC20 (PAL: 1108405 cycles), the Plus/4
  (1773447, 1789772) and the CBM 6x0 (2000000); it does not happen on the C64, C128, SCPU64,
  C64DTV, PET, CBM 5x0 (985248 to 1023440) and the NTSC VIC20. Only the time displayed suffers.

Fairness: dispatching, the end of a callback, and the guard's call at the end
of the raster callback. The dispatch loop is sequential code in which a
callback terminates; nothing is assumed about instructions. If playing an event did
not advance the list, the loop would not end: that is `AlarmsDrain`'s mutant.

Proved (`AlarmProofs`), for every number of alarms, array size, clock width, frame, instruction and
second, with or without an event alarm: `TypeOK` and `PendingIndicesAgree` for any context;
for one with a raster alarm `NextIsEarliest`, `ClocksNeverWrap` and the refinement of
`AlarmService`, if `Fits(Horizon)`: a frame, an instruction and the longest alarm *of a chip* fit
into `CLKGUARD_SUB_MIN` (0xfffff). They do for the video chips, the CIA, the VIA and the
datasette's longest gap (100000), not for an ACIA at its slowest rate (`aciacore.c:413`). The
second of the event history need not fit: these theorems hold where it wraps too.
`TimestampsASecondApart` is proved if `Fits(Second)` as well. `Fits` is a
hypothesis of the theorems and nothing the model assumes.

None of them is inductive alone. The invariant that is adds to the context's consistency that the
raster alarm is due within a frame of the last call of the guard (`clk - frame` is that clock),
that a chip's alarm is late by less than an instruction, and that the event alarm is not overdue
when the guard is called, because it then is no earlier than the raster alarm that is being
served. Then `clk` cannot get further past `clk_max_value` than a frame
and an instruction, and subtracting leaves at least `SubMin`, more than any alarm
is late: nothing wraps. The context's operations are dealt with once
(`SetKeepsContext`, `UnsetKeepsContext`), the actions cite them. Nothing more is
proved of the drive's context: there the empty context *is* wrong (section 11).
In the refinement `due[a]` is the distance from `clk` to the slot `a` points at, a function of the
array and the indices: that setting, unsetting and swapping change it for one alarm only is
what `PendingIndicesAgree` is needed for, that the dispatched alarm is an
earliest one is `NextIsEarliest`, and that the guard changes nothing is
`ClocksNeverWrap`.

## 4. Interrupt

`Interrupt.tla` is a CPU's interrupt status and the part of the CPU loop that
consumes it: `Fetch` (alarms are over, `DO_INTERRUPT` copies
`global_pending_int`), `Vector` (NMI or IRQ), `interrupt_do_trap` and
`TrapReturns`, `cpu_reset`, `DropIrqPend`, and opcodes grouped by what
`last_opcode_info` says of them: `SEI`, `CLI`, `PLP`, `RTI`, `Branch`,
`OtherOpcode`, `BRK` (which may turn into an NMI in its middle). `ChangeLine`
is a chip's call of `interrupt_set_irq` or `interrupt_set_nmi` at any point
where chip code runs: in alarms, in memory accesses of an opcode, in trap
functions. Clocks are relative and saturate after three cycles, where the code
stops telling them apart; `interrupt_cpu_status_time_warp` moves them together
and is therefore invisible. `owed` is a history variable: traps asked for and
not called. `StartAges` is how long before the current cycle a chip dates its
change. Left out: `IK_MONITOR` and `IK_DMA`, which change none of the other
bits, and the setters of the trap, NMI and reset hooks.

`InterruptLines.tla` is the promise: IRQ a wired-or level, NMI an edge latched
until it is taken.

- `int_lines`: two chips (two are needed for a line to be held by one and
  released by the other), resets, traps, snapshot loads.
- `int_served`: one chip that reports up to a cycle late; liveness of NMI,
  reset, IRQ and trap.
- `int_restore` (violation, finding): the ACIA restores its line with the
  function that counts.

Fairness: `WF(Cpu)`. The CPU loop always takes its next step; no fairness
between opcodes is assumed. `IrqServed` therefore says what the program must
do: leave I clear, other than right after the opcode that cleared it, again and again.

Proved (`InterruptProofs`), for every finite set of chips and of trap
functions, assuming `SetsOnRestore = {}` (no chip restores with the counting
function; the violation run shows the assumption is needed): `TypeOK`,
`LinesCounted`, `GhostIrqBounded`, and the refinement of `InterruptLines`. The
inductive invariant is the conjunction of the three; the refinement uses it
because `ReleaseIrq` must show the level falls exactly when the last holder leaves, which the
code decides by a counter.

## 5. Netplay

`Netplay.tla` has two peers, the TCP streams between them, and for each peer the
ring of event lists, the session's sockets and a history of what its machine
has replayed, which stands for the machine's state. The sync test does not compare that: it
compares PC, A, X, Y and SP (`Registers`), of which the model knows only that they are a
function of what the machine replayed and whether it drifted (the constant `On`), so that
two machines may differ and show the same. A frame of a peer is: input events, the sync
test taken by a trap, `HookSend`, then `ReceiveList` (or `ReceiveSuspend`,
`NothingToPlay`, or one of the failures). `network_suspend` sends a length of
0; `UserDisconnects` may come at any moment outside the hook. A closed stream
is first accepted by the sender and then reset; unread data turns a close into
a reset.

`Lockstep.tla` is the promise: one history is a prefix of the other and at most
`Lead` frames shorter.

- `net_play`: a session of 4 frames, `FrameDelta` 3, two inputs, one pause:
  `Progress` and lockstep.
- `net_faults`: two sessions in a row (a second one on what the first left), a
  machine that drifts, a sync test that gets lost (its trap was overwritten, see
  section 11), a peer that leaves. `DifferenceCaught`: a session does not outlive a frame in
  which the *registers* differ, but for frames whose test was lost or came late; its bound is
  tight. A drift that the registers do not show, in memory or in a chip, goes unnoticed, in the
  code as in the run.
- `net_leaver` (violation, finding): the receive loop never sees the end of a
  stream.

Bounds: `MaxFrame` exceeds `FrameDelta`, so that the ring wraps; `Budget` bounds
each kind of outside event. Fairness: each emulator keeps taking the steps of its own loop
(`WF(Emulate(p))`), which its single thread does; none for the user.

Left out: the handshake of the connection is one step; the control mask (who
may send which event) and the measurement behind `FrameDelta` are not modelled.

Proved (`NetplayProofs`),
for every `FrameDelta` from 2 on, any number of frames, socket slots and
outside events: `TypeOK`, `PlaysOnTime`, `NoFalseAlarm` and `IsLockstep`. The
peers are two; events and lists may be anything as long as the mark of a pause is not
itself a list (`SuspendingAssumption`; a pause is a length of 0, and no list is
empty, since each begins with its frame).

The last three rest on one inductive invariant, `SessionInv`. That the
histories agree (`Agree`) is not inductive: a frame appends what the own ring
and the received list hold, so the other side must have replayed, or be about to
replay, the same two lists. `Ring` says which frames the ring holds,
`Delivered` which lists the stream has yet to bring, without a gap;
`SameLists` that a list under way is still the one its sender holds, if it
does; `Consistent` that a list that is overdue on the other side is the one it
replayed. `Near` bounds how far the peers are apart, which keeps the ring
from being overwritten, and `Linked` says that two live peers are in the same session.
Only a peer that
can still receive a list (`Reads`) is bound by `Near`: one whose stream was
reset is left behind until its next receive ends the session. `Honest` and `Alarmed`
carry the sync tests: what a test shows is the sender's history at the frame
it was taken. The second part of `NetplayProofs` is about streams alone (what a list or a pause
does to what is delivered, at either end); the actions fall into those that leave
rings and streams alone (`Calm`), end a session (`Leaves`), record, send and
receive.

The theorems hold for every register function `On`. `DifferenceCaught` stays with TLC and is not
claimed for every `Budget`.

## 6. CIA

`CiaTimer.tla` maps timers to timers: `Table` is `ciat_table`, `Pass` a pass of
the loop of `ciat_update` with its shortcuts (`Counting`, `Stopped`,
`LatchOne`), `NextUnderflow` the loop of `ciat_set_alarm`. `Cia.tla` is
`ciacore.c` around two timers: updates that first run the alarms that are due
(`RunTa`, `RunTb`, recursive functions), the alarm functions with
their skipped alarms, stores, reads, the idle alarm and the overflow callback.
Time is the bus: an instruction without an access, or one of `Fetch` cycles up
to its access and one more. Alarms are dispatched only at instruction starts,
so they are late.

`CiaChip.tla` is the promise: a chip clocked in every cycle that looks ahead
nowhere. `CiaPair.tla` gives both the same accesses; `chip` is a history variable
that guards no step of `Cia`.

- `cia_lazy`: timer A stands, timer B stands, waits for A, or runs; then any
  two accesses at any distance. A byte has two values, so a timer counts from at most 3
  and every period, the two-cycle one of `LatchOne` included, is met often between
  two accesses; the clock is moved back every 8 cycles and the idle alarm
  comes every 8, so that each falls before, in and after everything else. Both chip
  models. The counters and toggles (`TimersAgree`), the flags (`FlagsAgree`)
  and, without anything being brought up to date, the interrupt line and its
  cycle (`InterruptOnTime`) are the chip's; an alarm that is set is the next
  underflow's (`AlarmsMatch`). The run has no deadlock and no fairness.
  Type correctness is part of every step: the functions' domain is `Context`.

What the run taught about the code, none of which contradicts its comments:
a single step given to timer B in the very cycle that stops it stays in its
pipeline and counts at the next start (`Clock` in `CiaChip` has it too); a
reset forgets a toggle by an underflow that was not computed yet; a pulse on
the FLAG pin that comes before the alarm of an underflow in the same cycle
brings the interrupt forward.

Left out: the clock of the day, the shift register, the ports, the two stores
of a read-modify-write instruction, change of model, `ciacore_disable`, the
snapshot. `write_offset` dates a store back to the bus cycle, so that the
model's stores act at `clk`. The update of timer A inside timer B's, called from timer A's own
alarm, changes nothing and is left out. The guard is called at every instruction start
instead of once a frame: the earlier call is one the code could make, and only
clocks move. The 16-bit truncation in the warp cannot bite as long as the idle alarm
keeps updates within 5000 cycles.

The functions are recursive over data and stay with TLC; nothing is proved of
the CIA yet.

## 7. IEEE-488 bus

The device that VICE answers for has no CPU. A wire that changes calls a handler
of the table in `parallel.c`, the handler answers at once by pulling and
releasing wires, and these calls run the table again, in the state the handler
has not left yet. In `IeeeBus.tla` the handlers map a bus to a bus. A wire that a
handler changes itself (`Pull`, `Free`) is looked up in the table, and the entry it meets,
if any, is noted in `own`. The one entry that is ever met, NDAC pulled by
`WATN_atnlo` in the state `OldPet`, is also called, where it is met
(`PullNdac`); that no other is met, so that no call is missing from the model, is
what `DoesNotHearItself` says. `BusCall` is one call of `parallel_set_*` or `parallel_clr_*` by the machine or a drive
with everything that happens inside it. `calls` holds the calls an instruction
of the machine or the drive still makes. `ParallelTrap.tla` is
`parallel-trap.c`: what commands and bytes do to devices, channels and names.

Machine and drive are external: their ROM routines, as actions that change one
wire at a time and wait for what the protocol says. Machines differ in
how they turn round after a TALK: the new PET holds NRFD and NDAC before it
releases ATN, the old one pulls NDAC afterwards, the CBM 610 NRFD first. A
program opens, writes, reads and closes one file and breaks off at any wire
(`StopSending`, `StopReceiving`); a reset releases the machine's wires, and no
one tells the device.

`ByteStream.tla` is the promise to programs: bytes arrive once, in order, in
both directions, the end is signalled with the last one.

- `ieee_bus`: the device beside a drive with its own CPU and a number with
  nothing behind; the new PET with the drive, the old PET with a reset, the CBM
  610. `DoesNotHearItself`: of all the changes of wires made inside a handler one alone
  runs another handler, and what that does is undone at once. `NoContention`,
  `OffTheBus`: machine and device are never both on the data wires and DAV, in whichever way, and who is not addressed lets go of every wire.
  `IsStream`: the refinement, through any interruption. `NoFalseAlarm`: "device
  not present" and a time-out mean what they say. `NameIntact`: the name
  an OPEN uses is what a reset has left in the buffer (`leftover`), then all that was sent for it,
  cut to the buffer's length, and nothing else; any other command uses only what a reset left. `EveryJobEnds` (liveness).

Bounds: a file of two bytes and up to two written, so that first and last byte
differ; a name of two bytes, or a wrong one of one; one reset, whose leftovers (`leftover`)
meet the jobs after it. Fairness: calls return, the machine's routines and the
drive's CPU run on, and a program that has sent or read all there is says so
(`Done`); nothing else is assumed of the program. The machine's loops poll the
wires for ever (`Poll`), so that only liveness, not a deadlock, would show that somebody waits
in vain: `EveryJobEnds` is there for it.

Proved (`IeeeBusProofs`), for any sets of virtual, real and absent devices, any
file, name and number of bytes, and any `Setups` that satisfy
`DrivesBesideNew`: `TypeOK`, `DoesNotHearItself`, `NoContention`, `OffTheBus`.
`DrivesBesideNew` says that a drive with a CPU stands beside a new PET that is not reset.
It is no convenience: with a drive beside an old PET, beside a CBM 610,
or beside a new PET that is reset, TLC finds `DoesNotHearItself` violated.
In all three the drive still holds NDAC when ATN rises, and the device takes
that for the machine's (section 11, `MCIeeeBusOldPet.cfg`).

None of the four is inductive: whether a handler meets the table again depends on who
pulls which wire when it is called. The invariant, `BusInv`, has six parts.
`Placed` (in `Types`) says which wires the device pulls in each state. `AttentionOK` says that
the machine pulls ATN exactly while it commands (or has a call to change that under way,
`Asks`), and that the device then listens. `BytesOK` says that while a
talker's state is up the machine leaves DAV and the data wires alone.
`ReleaseOK` says that ATN is released in front of a talker only with NRFD pulled
whenever NDAC is: otherwise `In1_atnhi` would put out a byte, in the state
`In1` in which DAV is a byte to take. `WiresOK` is what makes that so: a machine that
commands holds neither wire, a machine that is reset releases NDAC before ATN,
the drive touches no other wire. `CommandsOK` says
that the commands still to come fit what the device knows (`Fits`): without it a machine
that starts to send might face a talker.

The proof goes up in three layers: the trap layer keeps its types and its
addressee (`AttentionIs`, `SendbyteIs`, `ReceivebyteIs`); each handler, from the states in which
the table calls it, keeps `BusOK` and notes nothing in `own` (`DoTransIs`, `SetOrClrIs`); each step
of machine and drive keeps the rest (`CallKeeps`, and one lemma for each routine).

Proved (`IeeeBusStream`), on top of that, for one emulated device (`OneDevice`; the
jobs that open, read and close are about one) and any files, names and
interruptions: `NameIntact`. The buffer for names is shared by all channels and survives
a job that is broken off, so what is in it when a file is opened depends on every command before. The
invariant, `NameInv`, says that while a file is being opened the buffer holds `leftover` and what has
`Arrived` of the name, cut to its length, where what has arrived and what is `Remaining` make up the name of the job;
and that at any other time it holds `leftover`, which is empty unless a reset cut off an OPEN (`NameOK`).
The device is not told of a machine's reset, and only a command that uses the name empties the
buffer: the next OPEN, whose name goes after the half one, or another command that comes before it
and takes the half one for a whole. `leftover` is a history variable: a reset sets it to what the buffer
holds, a call that empties the buffer clears it.
`Remaining` counts a byte as sent when the device takes it, in the call
that pulls DAV, which needs `HearsOK`: whenever the machine commands or sends, the device is in `In1`,
or in `In2` while DAV is pulled, so that it takes every byte, once. That it takes them for
this file is `ToldOK` and `ListensOK` (it was told the device and the channel of the job)
and `RowFits` (which commands are left). `ChannelOK` says which of
the three ways of `parallelcommand` the channel takes.
Half of `NoFalseAlarm` follows from it: "device not present" is never
said of the emulated device, because a machine that sends to it finds NRFD or NDAC pulled.

Proved with four more layers of invariant (`StreamInv` is all six): `NoFalseAlarm` and
`IsStream`, the refinement of `ByteStream`, step by step (`StreamStep`).
`DriveInv`: the drive beside the device pulls NRFD or NDAC until its CPU has dealt with a
command, knows whether it is to listen before the machine goes on, and listens only while the machine
writes to it; so it never takes part in the handshake of a talker.
`HoldsOK`: the machine's own NRFD and NDAC at each place of its reading.
`FileInv`: the byte that the channel keeps (`lastok`) is the last one fetched, and carries the end
signal if it is the file's last (`ChannelFits`); the file has what was acknowledged, and the
byte on the wires that the device has taken (`WriteOK`). `TalkInv`: the
talker's state against the machine's place. `parallel_trap_receivebyte` is called twice for a byte,
to show it and to take it for good, and ATN may fall in between; the bytes `Given` for good are those the
machine has read, and one more exactly between the rise of NDAC and the fall of DAV (`ReadOK`). That
needs to know which byte is on the bus (`ByteOK`), that a
talker waits in `Out1` only while somebody holds NRFD and leaves `Out1a`
only by the machine's own NRFD (`TalkOK`), and that a talker with more to say is still
talking (`MoreOK`), which is the other half of `NoFalseAlarm`: a machine that times out has read the file to its end.
`Put` is the call by which DAV falls on a byte of data, `Acknowledge` is `ByteTaken`,
`Get` is `Accepted`, `Open` the start of an OPEN or CLOSE, its end, and a reset.

## 8. Drive CPUs

`DriveSync.tla` is when a drive's CPU runs and how far: `Cycle` of the machine,
`Access` to the bus (which first runs the drives up to now, `drivecpu_execute`),
`Store` (which on x64sc and SCPU64, whose `write_offset` is 0, runs them to the end of the cycle
it is in, `maincpu_clk + 1`; `WriteAhead`),
`Vsync` (the drives that do not sleep are run, then the machine's clock and each
drive's are looked after), `SetTrueEmulation`, `SetIdlingMethod`, `SetType`,
`MachineReset`, `TriggerReset`. What the drive computes is left out: it runs
instructions of any length up to `MaxInstr` and chooses its clock frequency.
All clocks are unsigned and narrow, differences are taken as signed where the
code does so, `Converted` is the fixed-point loop with its accumulator.

`lead` is a history variable: how much longer the drive has run than the
machine, in fractions of a drive cycle. `upset` says that one of five things happened after which
the code is known not to be in step: the drive's own clock was set back (which
`stop_clk` is not told), the machine's clock was set back while a drive
was behind, one drive was reset alone, the machine was reset alone, or more than half the range of
a clock had to be caught up with. The machine is reset alone whenever it is neither power-on nor
`IECReset` set, which it is not by default (`c64/c64.c:1149`): its clock is 6 then, and the drive's
`last_clk` lies ahead of it. When the drive is looked at next, the distance, as an unsigned number,
is long enough for it to have slept (`drivecpu_wake_up`), if it has run for a second; otherwise it is given no time, once. On machines that
always reset the drives (`IECReset` TRUE in the model) there are four such things. An upset drive is exempt from
`InStep` and `NotInFuture` until it is reset with the machine, switched on or given a type; in particular the run to
the old clock that `drivecpu_prevent_clk_overflow` gives a late drive is modelled but nothing is
claimed of it. `Forgets` ends the history there, so that the run is about
everything else and finite; the drive itself goes on.

- `drive_sync`: one drive at both frequencies, with the idling methods "never"
  and "skip cycles", clocks modulo 12 that are set back every few frames, stores a cycle ahead,
  resets with the drive and without.
  `InStep`: a drive brought up to now has run as long as the machine, to the
  last instruction, however many accesses there were and however the fractions
  fell; so a wire changes in the cycle it should. `NotInFuture`: between two cycles `last_clk` never lies ahead of the
  machine, through every setting back (a store and the cycle it is dated to the end of are one
  step). `RunsAgain` (liveness): a drive that stands still because its clock was set
  back does not stand still for good.
- `drive_stall` (violation, finding): a drive that never sleeps and is never
  reset, its history kept. When its own clock is set back its stop clock is
  not, and the drive stands still for as long as the distance is positive as an
  int: two seconds of the machine every 71 minutes.

Fairness: the machine runs on, its frames end, and at some time the user resets the machine no
more: who resets it for ever keeps its frames from ending. Settings change between
frames, where user interfaces set them. One drive in the runs, any number in the proofs: N drives differ only in
`drivecpu_prevent_clk_overflow`, which runs all of them for the sake of one (see
section 11). Not modelled: the missing-ROM and no-drive exits, the 65C02 copy
as code of its own (it is the same text), the wired-and of the IEC lines, and the Plus/4's stores, which are
dated with the cycle of the last write, in the past (`plus4/plus4mem.c:189`).

Proved (`DriveSyncProofs`), for any number of drives, width of clock, frame
length, ratio, chunk and set of speeds: `TypeOK`, `NotInFuture`, `InStep`. `InStep` is not
inductive: it speaks only of a drive that has just been run. The invariant,
`SyncInv`, says of every drive that is not upset, at any time, that it is
`Lag` cycles past its stop clock, at most an instruction (or a reset with one);
and that its *slack*

    lead + accum + factor * (now - last_clk) - Scale * lag

is a fraction of a cycle: what the drive is ahead, plus the fraction it has
not spent, plus the machine's cycles it was not told of, less what it ran too far.
The slack does not change: `Cycle` moves `lead` and `now`, `Converted`
moves `accum` and the stop clock for the cycles it was told of
(`ConvertedIs`, by chunks), the run moves `lead` and the lag, a sleep moves `lead` and `last_clk`; a store does the
first three for one cycle more. Once
the drive has been told of everything, `InStep` is what is left. That
the machine's clock does not wrap needs `maincpu_clk - frame < MaxClk`: a frame begins below
the limit. When the clock is set back the drives are told one after the other, and
in between some of them live in the old time: `PreventAllIs` goes through them.

`RangeAssumption` is what the code's numbers satisfy and the proof needs: a
frame (about 20000 cycles) is no longer than `CLKGUARD_SUB_MIN` (0xfffff), a drive that
was reset (clock 6) is far from the middle of its clock, and a chunk of 10000
cycles times the largest factor (2 * 66518) fits `cycle_accum`'s 32 bits. With a
larger chunk the accumulator wraps and time is lost, which is the mutant
`Converted_AtOnce`. `RunsAgain` is liveness and stays with TLC.

## 9. Event history

`EventHistory.tla` is `event.c` and what it leans on: the machine's clock, reset and
traps, snapshots as files, and the latch between a key and the machine
(`keyboard.c`). A recording begins in one of four ways (`RecordSave`,
`RecordLoad`, `RecordReset`, `RecordOverwrite`), is stopped, resumed, sent back
to a milestone; a playback restores the start snapshot and an alarm gives the
machine each event at its clock. Requests (`event_record_start` and so on) test
their conditions when the user asks, and their traps run later. A snapshot
may fail to be written (`Failed`). The model's machine is its true age and the
inputs it was given, each with the age at which it came; everything else of its state follows
from these. `story` is a history variable: what the files on disk tell.

- `event_history`: `Faithful`: a playback gives the machine exactly what the
  recording did, at the same points of its life, across resets (which make
  clocks small), the setting back of the clock (which `next_alarm_set` guesses
  from the distance), resumptions and failures. `StopsInTime`: it ends where
  the recording was stopped, not later.

Bounds: a clock of 27 values that starts 2 cycles before its limit, so
that it is set back within the recording; the machine lives 6 cycles after its
power-up or restore, gets two inputs, and the user makes five requests, which is enough to record,
stop, resume at a milestone, stop and play. Time stamps come every 3 cycles. (Of the Plus/4, the VIC20 and the CBM 6x0 a second is longer than the
free part of the clock, of the others it is shorter; with `Second` 8 and a clock of 34 values,
starting at 25, TLC finds the same.) The
machine stops at its horizon, so deadlock is not checked; nothing here waits
for anything, so there is no liveness. `Patient`: the user waits until what was asked before is done,
and the host listens after the clock has been set back (`Early` FALSE, as on X11); what
happens otherwise is in section 11.

Proved (`EventHistoryProofs`), for any width of the clock, frame and delays, any
`Horizon` and numbers of inputs and requests, a user who waits or not and hosts of both
kinds: `TypeOK`. It says that the clocks never leave their range although they are
set back, restored and counted on from, and that `event_list->current` is always one
of the nodes, which `next_current_list` does not look at before it
follows `next`. It is not inductive: a list must have a node behind every one that
is not an end, and that must survive recording, cutting, writing to a file (`WrittenProper`),
where time stamps are dropped, and reading it, which stops at
the first end (`ReadingProper`; a stop that failed leaves an end in the middle). The invariant, `HistoryInv`, has
this of the list and of the file (`Proper`); that the alarm is only set while there is a list and
that who records or plays is behind the initial event (`Lists`), without which
`CutList` could leave nothing; that the conditions under which a request was granted still
hold when its trap comes (`Traps`), although the code does not ask again; and that a trap comes
at the start of a frame, so that the machine it saves or switches on ends its frame before the
clock overflows. `ClockAssumption` holds of the code's numbers: a frame is no longer than
`CLKGUARD_SUB_MIN` (0xfffff), that and a second together are far less than the clock is set back by,
and a reset sets the clock to 6.

Not modelled: images attached during a recording and the copies made of them,
histories of old versions without an initial event, a snapshot that breaks off
while it is read, inputs outside of recordings, the joystick (latched the same way).

## 10. What is only model-checked

- All liveness: `AlarmsDrain`, `NmiServed`, `RequestsServed`, `IrqServed`,
  `Progress`, `EveryJobEnds`, `RunsAgain`. Fairness and ENABLED are beyond the
  provers used here.
- `DifferenceCaught`, for the run's one drift, and not claimed for every `Budget` (section 5).
- Of the event history `Faithful` and `StopsInTime`: they compare two runs of the machine, the
  recording and the playback, event by event, and need the path of the clock through
  the recording as a history of its own. They do not hold for every setting (section 11).
- The CIA (`TimersAgree`, `FlagsAgree`, `InterruptOnTime`, `AlarmsMatch`): functions recursive over data
  whose closed forms are not stated yet.
- The violations, which are about one instance by their nature.

The library's induction theorems take an operator as a parameter, which the provers
here cannot instantiate. Where a proof needs induction over numbers
(`Converted`, the drives served in turn, `Inputs` of a list),
`NaturalFacts` gets it from the least element of a set of naturals
(`LeastOf`, `UpTo`), and a recursive function's values by first showing that some function satisfies the
recursion (`Computable`).

## 11. Findings

| Run | Where | What |
|---|---|---|
| `int_restore` | `aciacore.c:834` | a restored ACIA line is counted twice |
| `net_leaver` | `network.c:354` | the end of the stream is read for ever |
| `drive_stall` | `drive/drivecpu.c:278` | a drive whose clock is set back stands still |

Five further configurations, not among the runs, show more. Each violates its
property:

- `MCAlarmIdleDrive.cfg` (`alarm.c:99`): time-warping an *empty* context
  subtracts from the `~0` that means "no alarm"; the CPU later dispatches slot -1.
- `MCAlarmSecond.cfg` (`event.c:363`): where a second is longer than `CLKGUARD_SUB_MIN` the
  clock of the next time stamp wraps, and its alarm, which should be "Clock tick at which this alarm
  should be activated" (`alarm.h:64`), is due at once.
- `MCInterruptTraps.cfg` (`interrupt.c:321`): of two traps asked for before the
  next instruction the first is lost.
- `MCNetplayClose.cfg` (`network.c:919`): a failed send followed by a failed
  receive closes the same socket twice.
- `MCIeeeBusOldPet.cfg` (`parallel/parallel.c:236`): `In1_atnhi` takes NDAC for a sign that the
  machine has turned round, but it tests the wired-or of all devices. With an old PET and a drive that
  still holds NDAC the device talks before the machine listens, although
  the comment at line 92 says: "The PET 3032 doesn't set NRFD and NDAC low
  before releasing ATN after a TALK command, wait for a NDAC low first!" It even
  does so in the state `In1`, where its own DAV reads as a byte to take.

Seen with other settings of the modules' bounds, by TLC:

- IEEE-488: a new PET that is reset beside a drive with a CPU, and a CBM 610 beside one, do as
  `MCIeeeBusOldPet.cfg` shows for the old PET (`DoesNotHearItself` is violated).
- Drive: with a sleeping drive beside one that runs, `drivecpu_prevent_clk_overflow`
  brings *all* drives to the clock before the setting back, the first of them a second time.
  Resetting one drive sets its clock to 6 but not its stop clock
  (`drivecpu.c:155`): it then runs the whole of its life again before
  the machine's next cycle (`Singles`, without `Forgets`). A drive that is
  2^31 cycles behind is taken for one that is ahead.
- Event history, a user who does not wait (`Patient` FALSE): a key or reset
  that was on its way when a playback starts reaches the machine in it
  (`keyboard.c:162` does not ask; doc/vice.texi: "During playback any user
  interaction is disabled."). A key between a request to stop and its trap is
  recorded after the end mark.
- A recording started during a playback, other than by overwriting it, leaves
  `playback_active` set: keys stay disabled and the playback never ends (`event.c:702`).
- Stopping a playback before a recorded reset and then resetting: `event_reset_ack` arms the
  alarm again and the rest is played (`event.c:770`).
- A host that listens to the user before the clock is set back (`Early`, the
  SDL port): of two events in the very frame of the setting back that have the same
  clock the second is played when the clock is there the next time, 71 minutes later.
- A history that ends in a milestone ends with a mark of clock 0: its playback
  stops up to 71 minutes late, which is why `StopsInTime` is about recordings
  that were stopped.
- A reset to a milestone that this recording never set loads the end of an older one, and one
  that fails leaves the recording off without a word (`event.c:927`).

## 12. Not modelled

Everything in the last row of the inventory, because it is data. Of control, in
the order of what a next model would gain: the delayed latches of netplay, the
flash ROM's command and erase states, the datasette's motor and read alarm,
the keyboard buffer (whose delayed RETURN is put in without a look at what has
changed), the ACIA's alarms (a change of rate moves the receive alarm alone), the VIA. Autostart reads the screen of the
running machine, so that most of its environment would have to be invented. The
monitor, and `IK_MONITOR` with it, is interactive. The share of the sources the map covers
is small because most of the repository is vendored libraries, user interfaces, instruction sets, tables
and translations.
