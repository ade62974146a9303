----------------------------- MODULE DriveSync -----------------------------
(***************************************************************************)
(* The CPUs of the disk drives beside the CPU of the machine.  A drive has *)
(* a clock of its own and runs only when it is told to: whenever the       *)
(* machine looks at or changes a wire of the bus, and at the end of each   *)
(* frame, drivecpu_execute works out how many drive cycles the machine's   *)
(* cycles since the last time are worth, and runs the drive up to there.   *)
(* All clocks are unsigned and of limited width; the machine's clock and   *)
(* the drives' clocks are set back, each at its own time, before they      *)
(* overflow.                                                               *)
(***************************************************************************)
EXTENDS Integers, FiniteSets

CONSTANTS
  N,            \* number of drives, 0..N-1 in the order they are served
  Mod,          \* clocks count modulo Mod
  SUB_MIN,      \* CLKGUARD_SUB_MIN
  Frame,        \* cycles of the machine in a frame, its clk_base too
  Scale,        \* denominator of the clock ratio (65536)
  Ratio,        \* drive cycles per machine cycle, times Scale, at 1 MHz
  Speeds,       \* clock frequencies a drive's program may choose
  Chunk,        \* machine cycles that are converted at once (10000)
  AccumMod,     \* width of cycle_accum
  Idle,         \* machine cycles after which a drive skips time (0xffffff)
  Booted,       \* drive clock from which it may skip time (934639)
  MaxInstr,     \* cycles of the longest instruction, an interrupt before it included
  ResetClk,     \* clock of a drive that was just reset (6)
  Methods,      \* idling methods in use
  IECReset,     \* every reset of the machine reaches the drives, not only power-on
  WriteAhead,   \* a store counts for the cycle it begins with (write_offset is 0)
  Singles,      \* bound: whether single drives are reset
  Forgets       \* bound: whether the history of a drive ends when it is upset

ASSUME WidthAssumption ==
  /\ {N, Mod, SUB_MIN, Frame, Scale, Ratio, Chunk, AccumMod, MaxInstr} \subseteq Nat \ {0}
  /\ {Idle, Booted, ResetClk} \subseteq Nat
  /\ Mod - 1 - SUB_MIN >= 3 * SUB_MIN
  /\ Speeds \subseteq Nat \ {0} /\ 1 \in Speeds
ASSUME MethodsAssumption ==
  /\ Methods \subseteq {"none", "trap", "skip"} /\ Methods # {}
  /\ {IECReset, WriteAhead, Singles, Forgets} \subseteq BOOLEAN

(* What keeps the numbers within their widths: a frame is a few ten        *)
(* thousand cycles long and CLKGUARD_SUB_MIN a million, a drive that was   *)
(* reset is far from the end of its clock, and a chunk times the largest   *)
(* factor, 2 * 66518, fits cycle_accum.                                    *)
ASSUME RangeAssumption ==
  /\ Frame <= SUB_MIN
  /\ ResetClk + MaxInstr <= Mod \div 2 /\ ResetClk + SUB_MIN < Mod - 1
  /\ \A s \in Speeds : Scale + (Ratio * s) * Chunk <= AccumMod

Drives == 0..N-1

Clock == 0..Mod-1

VARIABLES
  maincpu_clk,  \* the machine's clock
  frame,        \* its cycles since the last frame ended
  drive         \* the drives

vars == <<maincpu_clk, frame, drive>>

-----------------------------------------------------------------------------
(* Arithmetic of unsigned clocks, and their difference as an int.          *)
Plus(a, n) == (a + n) % Mod

Minus(a, b) == (a - b) % Mod

Signed(n) == IF n >= Mod \div 2 THEN n - Mod ELSE n

(* The limit of both guards, and what is taken off: of the machine's clock *)
(* whole frames.                                                           *)
MaxClk == Mod - 1 - SUB_MIN

OwnSub == MaxClk - SUB_MIN

MainSub == (OwnSub \div Frame) * Frame

-----------------------------------------------------------------------------
(* One drive.  `lead' is a history variable: the time the drive has run    *)
(* more than the machine, in units of 1/Scale drive cycles.  It is kept    *)
(* until one of the things happens after which the drive is known to be    *)
(* out of step (`upset', see InStep).                                      *)
PoweredUp ==
  [enable |-> FALSE, idling |-> CHOOSE m \in Methods : TRUE, speed |-> 1, clk |-> 0,
   last_clk |-> 0, stop_clk |-> 0, accum |-> 0, reset |-> TRUE, lead |-> 0, upset |-> FALSE]

Factor(x) == Ratio * x.speed

Ahead(x, cycles) == [x EXCEPT !.lead = IF x.upset /\ Forgets THEN 0 ELSE @ + cycles]

Upset(x) == [x EXCEPT !.upset = TRUE]

(* From here on the drive is in step with the machine.                     *)
Resync(x) == [x EXCEPT !.lead = 0, !.upset = FALSE]

drivecpu_reset_clk(x, main) == [x EXCEPT !.last_clk = main, !.stop_clk = 0]

drivecpu_reset(x, main) == Resync([drivecpu_reset_clk(x, main) EXCEPT !.clk = 0, !.reset = TRUE])

(* Variant: the drive has slept however long it is.                        *)
drivecpu_wake_up_Hasty(x, main) ==
  IF x.clk > Booted THEN [x EXCEPT !.last_clk = main] ELSE x

(* A drive that nobody has looked at for a long time has slept.            *)
drivecpu_wake_up(x, main) ==
  LET slept == Minus(main, x.last_clk) IN
  IF slept > Idle /\ x.clk > Booted
  THEN [Ahead(x, Factor(x) * slept) EXCEPT !.last_clk = main]
  ELSE x

drive_enable(x, main) == Resync(drivecpu_wake_up([x EXCEPT !.stop_clk = x.clk], main))

(* Variants: all cycles at once; whole cycles stay in the accumulator.     *)
Converted_AtOnce(x, cycles) ==
  LET sum == (x.accum + Factor(x) * cycles) % AccumMod IN
  [x EXCEPT !.stop_clk = Plus(@, sum \div Scale), !.accum = sum % Scale]

Converted_NoMask(x, cycles) ==
  LET sum == x.accum + Factor(x) * cycles IN
  [x EXCEPT !.stop_clk = Plus(@, sum \div Scale), !.accum = sum]

(* Machine cycles are converted in chunks, which keeps the product within  *)
(* its width; the fraction that is left over stays for the next time.      *)
Converted(x, cycles) ==
  LET f[n \in 0..Mod] ==
        IF n = 0 THEN [stop |-> x.stop_clk, accum |-> x.accum]
        ELSE LET tcycles == IF n > Chunk THEN Chunk ELSE n
                 before == f[n - tcycles]
                 sum == (before.accum + Factor(x) * tcycles) % AccumMod IN
             [stop |-> Plus(before.stop, sum \div Scale), accum |-> sum % Scale] IN
  [x EXCEPT !.stop_clk = f[cycles].stop, !.accum = f[cycles].accum]

Behind(clk, stop) == Signed(Minus(clk, stop)) < 0

(* The CPU runs whole instructions until it has reached stop_clk.  A       *)
(* pending reset comes first, with the instruction after it.  The program  *)
(* may change the drive's speed.                                           *)
RunTo(x, clk, s) ==
  LET start == IF x.reset /\ x.clk # 0 THEN ResetClk ELSE x.clk IN
  [Ahead(x, Scale * Minus(clk, start)) EXCEPT
    !.clk = clk, !.reset = FALSE, !.speed = s, !.upset = @ \/ (x.reset /\ x.clk # 0)]

Ran(x) ==
  LET from == IF x.reset THEN ResetClk ELSE x.clk
      ends == IF Behind(from, x.stop_clk) THEN {Plus(x.stop_clk, late) : late \in 0..MaxInstr-1}
                                          ELSE {Plus(from, n) : n \in 1..MaxInstr} IN
  IF Behind(x.clk, x.stop_clk) THEN {RunTo(x, clk, s) : clk \in ends, s \in Speeds} ELSE {x}

(* All that drivecpu_execute can come to.                                  *)
drivecpu_execute(x, main, clk_value) ==
  LET awake == drivecpu_wake_up(x, main)
      cycles == IF clk_value > awake.last_clk THEN clk_value - awake.last_clk ELSE 0
      overlong == Factor(x) * cycles >= Scale * (Mod \div 2)
      told == Converted(awake, cycles) IN
  {[r EXCEPT !.last_clk = clk_value] : r \in Ran(IF overlong THEN Upset(told) ELSE told)}

(* The drives in `on' that are switched on.                                *)
Executed(g, main, clk_value, on) ==
  LET Can(d) == IF g[d].enable /\ d \in on
                THEN drivecpu_execute(g[d], main, clk_value) ELSE {g[d]} IN
  {h \in [Drives -> UNION {Can(d) : d \in Drives}] : \A d \in Drives : h[d] \in Can(d)}

drive_cpu_execute_all(g, main, clk_value) == Executed(g, main, clk_value, Drives)

(* The drive's own guard.  stop_clk is not told.                           *)
clk_guard_prevent_overflow(x) ==
  IF x.clk < MaxClk THEN x ELSE [Upset(x) EXCEPT !.clk = @ - OwnSub]

(* Variant: last_clk is not told.                                          *)
drivecpu_prevent_clk_overflow_KeepsLast(g, d, main, sub) ==
  {[g EXCEPT ![d] = clk_guard_prevent_overflow(@)]}

(* The machine's clock has been set back by sub; main is what it is now.   *)
drivecpu_prevent_clk_overflow(g, d, main, sub) ==
  LET late == g[d].enable /\ g[d].last_clk < sub
      synced == IF late
                THEN {[e \in Drives |-> Upset(h[e])] : h \in drive_cpu_execute_all(g, main, main + sub)}
                ELSE {g}
      SetBack(x) == IF sub = 0 THEN x
                    ELSE [x EXCEPT !.last_clk = IF x.enable THEN Minus(@, sub) ELSE main] IN
  {[h EXCEPT ![d] = clk_guard_prevent_overflow(SetBack(@))] : h \in synced}

drive_cpu_prevent_clk_overflow_all(gs, main, sub) ==
  LET f[n \in 0..N] ==
        IF n = 0 THEN gs
        ELSE UNION {drivecpu_prevent_clk_overflow(g, n - 1, main, sub) : g \in f[n - 1]} IN
  f[N]

-----------------------------------------------------------------------------
(* The machine's time goes on by a cycle.                                  *)
Passed ==
  [d \in Drives |-> IF drive[d].enable THEN Ahead(drive[d], 0 - Factor(drive[d])) ELSE drive[d]]

Tick ==
  /\ frame < Frame
  /\ maincpu_clk' = Plus(maincpu_clk, 1)
  /\ frame' = frame + 1

(* A cycle in which nobody looks at a drive.                               *)
Cycle == Tick /\ drive' = Passed

(* The machine reads a port that has the bus or one drive's cable on it,   *)
(* or writes one at the end of a cycle: the drives are brought up to now   *)
(* before the wires are read or changed.                                   *)
Access ==
  /\ \E on \in SUBSET Drives : drive' \in Executed(drive, maincpu_clk, maincpu_clk, on)
  /\ UNCHANGED <<maincpu_clk, frame>>

(* A CPU that counts the cycle of a store after it has stored runs the     *)
(* drives to the end of that cycle; the cycle is counted next.             *)
Store ==
  /\ WriteAhead
  /\ Tick
  /\ \E on \in SUBSET Drives :
       drive' \in Executed(Passed, maincpu_clk, Plus(maincpu_clk, 1), on)

(* The end of a frame: the drives that do not sleep are run, then clocks   *)
(* are looked after.                                                       *)
NotSkipping == {d \in Drives : drive[d].idling # "skip"}

Vsync ==
  LET sub == IF maincpu_clk < MaxClk THEN 0 ELSE MainSub
      ran == Executed(drive, maincpu_clk, maincpu_clk, NotSkipping) IN
  /\ frame = Frame
  /\ frame' = 0
  /\ maincpu_clk' = maincpu_clk - sub
  /\ drive' \in drive_cpu_prevent_clk_overflow_all(ran, maincpu_clk - sub, sub)

(* True drive emulation is switched on or off.                             *)
SetTrueEmulation ==
  /\ frame = 0
  /\ \/ drive' = [d \in Drives |->
                   LET on == [drive[d] EXCEPT !.enable = TRUE] IN
                   drive_enable(drivecpu_reset_clk(on, maincpu_clk), maincpu_clk)]
     \/ drive' = [d \in Drives |-> Resync([drive[d] EXCEPT !.enable = FALSE])]
  /\ UNCHANGED <<maincpu_clk, frame>>

SetIdlingMethod(d, method) ==
  /\ frame = 0
  /\ drive' = [drive EXCEPT ![d].idling = method]
  /\ UNCHANGED <<maincpu_clk, frame>>

(* Another type of drive is chosen, which starts it anew.                  *)
SetType(d, speed) ==
  /\ frame = 0
  /\ drive[d].enable
  /\ drive' = [drive EXCEPT ![d] =
       drivecpu_reset([drive_enable(@, maincpu_clk) EXCEPT !.speed = speed], maincpu_clk)]
  /\ UNCHANGED <<maincpu_clk, frame>>

(* The machine is reset.  The drives are reset with it at power-on, or if  *)
(* the reset goes to the bus; otherwise they keep the clock that is gone.  *)
MachineReset ==
  /\ maincpu_clk' = ResetClk
  /\ frame' = 0
  /\ \/ drive' = [d \in Drives |-> drivecpu_reset(drive[d], ResetClk)]
     \/ ~IECReset /\ drive' = [d \in Drives |-> Upset(drive[d])]

(* The user resets one drive.                                              *)
TriggerReset(d) ==
  /\ Singles /\ frame = 0
  /\ drive' = [drive EXCEPT ![d].reset = TRUE]
  /\ UNCHANGED <<maincpu_clk, frame>>

Init ==
  /\ maincpu_clk = 0
  /\ frame = 0
  /\ drive = [d \in Drives |-> PoweredUp]

Next ==
  \/ Cycle \/ Access \/ Store \/ Vsync \/ SetTrueEmulation \/ MachineReset
  \/ \E d \in Drives, m \in Methods : SetIdlingMethod(d, m)
  \/ \E d \in Drives : TriggerReset(d) \/ \E s \in Speeds : SetType(d, s)

Spec == Init /\ [][Next]_vars

(* The machine runs on, its frames end, and at some time the user resets   *)
(* it no more.                                                             *)
FairSpec ==
  /\ Spec
  /\ WF_frame(frame' = (frame + 1) % (Frame + 1))
  /\ <>[][Vsync \/ ~MachineReset]_vars

-----------------------------------------------------------------------------
TypeOK ==
  /\ maincpu_clk \in Clock
  /\ frame \in 0..Frame
  /\ \A d \in Drives :
       /\ {drive[d].clk, drive[d].last_clk, drive[d].stop_clk} \subseteq Clock
       /\ drive[d].accum \in 0..Scale-1
       /\ drive[d].idling \in Methods /\ drive[d].speed \in Speeds

(* A drive has been brought up to the machine's present.                   *)
Synced(x) == x.enable /\ x.last_clk = maincpu_clk

(* The last instruction may end late, the one after a reset later.         *)
RunsAlong(x) == -Scale < x.lead /\ x.lead < Scale * (ResetClk + MaxInstr)

(* A drive that has been brought up to now has run as long as the machine, *)
(* to the last instruction, however often it was told to and however the   *)
(* fractions fell ("Execute up to the current main CPU clock value. This   *)
(* automatically calculates the corresponding number of clock ticks in the *)
(* drive.", drivecpu.c).                                                   *)
RunsAsLongAsMachine == \A d \in Drives : Synced(drive[d]) => RunsAlong(drive[d])

(* So it is until the drive is upset: by its own clock being set back, by  *)
(* the machine's clock being set back while a drive sleeps, by a reset of  *)
(* this drive alone or of the machine alone, by half the range of a clock  *)
(* to catch up with.  It is put in step again when it is reset with the    *)
(* machine, switched on or given a type.                                   *)
InStep == \A d \in Drives : Synced(drive[d]) /\ ~drive[d].upset => RunsAlong(drive[d])

(* Between two cycles the machine is never behind a drive that is not      *)
(* upset: last_clk lies in the past, and what drivecpu_execute converts is *)
(* the time that has passed.                                               *)
NotInFuture ==
  \A d \in Drives : drive[d].enable /\ ~drive[d].upset => drive[d].last_clk <= maincpu_clk

(* A drive whose clock was set back stands still, for stop_clk was not; it *)
(* will run again.                                                         *)
StandsStill(x) == x.enable /\ x.idling # "skip" /\ Signed(Minus(x.clk, x.stop_clk)) >= MaxInstr

RunsAgain == \A d \in Drives : StandsStill(drive[d]) ~> ~StandsStill(drive[d])
=============================================================================
