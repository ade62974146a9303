---------------------------- MODULE ParallelTrap ----------------------------
(***************************************************************************)
(* The device side of the emulated IEEE-488 bus: what a byte that crosses  *)
(* the bus does to the devices.  A command addresses a device and one of   *)
(* its channels; the bytes after it are a file name, or data of the        *)
(* channel.  Everything is a function of the record `t': the addressed     *)
(* device and channel, the name so far and, for every device that is not a *)
(* drive with its own CPU, its channel and the file behind it.             *)
(*                                                                         *)
(* A status is the set of the bits of its low byte, {} when all is well.   *)
(***************************************************************************)
EXTENDS Integers, Sequences

CONSTANTS
  Virtual,      \* devices the emulation answers for
  Real,         \* drives that are emulated with their own CPU
  Absent,       \* device numbers with nothing behind
  FileName,     \* the name of the one file there is
  FileLength,   \* and how many bytes it has
  NameLength    \* the room for a name (SERIAL_NAMELENGTH)

Device == Virtual \cup Real \cup Absent

ASSUME DevicesDiffer ==
  /\ Device \subseteq 1..15
  /\ Virtual \cap Real = {} /\ (Virtual \cup Real) \cap Absent = {}
ASSUME FileAssumption == FileName \in Seq(Nat) /\ FileName # <<>> /\ FileLength \in Nat \ {0}
ASSUME NameLengthAssumption == NameLength \in Nat /\ Len(FileName) <= NameLength

Nobody == [role |-> "none", device |-> 0]

Failure == {"error"}

InUse(d) == d \in Virtual \cup Real

(* A channel: 0 closed, 1 its name is being sent, 2 open; the byte that    *)
(* was fetched and not yet taken.  Its file, external: what is read comes  *)
(* in the order 1..FileLength.                                             *)
ClosedChannel ==
  [isopen |-> 0, lastok |-> FALSE, lastbyte |-> 0, lastst |-> {},
   open |-> FALSE, pos |-> 0, stored |-> <<>>]

InitTrap ==
  [device |-> Nobody, secondary |-> "none", name |-> <<>>,
   channel |-> [d \in Virtual \cup Absent |-> ClosedChannel]]

-----------------------------------------------------------------------------
(* The file behind a channel.                                              *)
openf(d, c, name) ==
  IF d \in Virtual /\ name = FileName
  THEN [st |-> {}, c |-> [c EXCEPT !.open = TRUE, !.pos = 0, !.stored = <<>>]]
  ELSE [st |-> Failure, c |-> [c EXCEPT !.open = FALSE]]

closef(c) == [c EXCEPT !.open = FALSE]

getf(c) ==
  IF c.open /\ c.pos < FileLength
  THEN [c EXCEPT !.pos = @ + 1, !.lastbyte = c.pos + 1,
                 !.lastst = IF c.pos + 1 = FileLength THEN {"eof"} ELSE {}]
  ELSE [c EXCEPT !.lastbyte = 0, !.lastst = Failure]

putf(c, b) ==
  IF c.open
  THEN [st |-> {}, c |-> [c EXCEPT !.stored = Append(@, b)]]
  ELSE [st |-> Failure, c |-> c]

-----------------------------------------------------------------------------
With(t, c) == [t EXCEPT !.channel[t.device.device] = c]

(* Variant: a byte that is only shown is not kept.                         *)
Fetched_NotKept(c, fake) == [(IF c.lastok THEN c ELSE getf(c)) EXCEPT !.lastok = FALSE]

(* A byte is fetched unless one is still there; `fake' leaves it there.    *)
Fetched(c, fake) == [(IF c.lastok THEN c ELSE getf(c)) EXCEPT !.lastok = fake]

parallel_trap_receivebyte(t, fake) ==
  IF t.device.device \in Real
  THEN [t |-> t, byte |-> 0, status |-> [role |-> "none", low |-> Failure]]
  ELSE LET c == Fetched(t.channel[t.device.device], fake) IN
       [t |-> With(t, c), byte |-> c.lastbyte,
        status |-> [role |-> t.device.role, low |-> c.lastst]]

(* A channel that is addressed without having been opened is opened        *)
(* without a name; what is in the name buffer goes into the file.          *)
OpenNameless(t) ==
  LET c == t.channel[t.device.device]
      o == openf(t.device.device, c, <<>>) IN
  IF c.isopen # 0
  THEN [t |-> t, st |-> {}]
  ELSE [t |-> [With(t, [o.c EXCEPT !.isopen = 2]) EXCEPT !.name = <<>>], st |-> o.st]

OpenChannel(t) ==
  LET First(r) == [t |-> r.t, st |-> r.status.low \ {"eof"}]
      Ready(o) == IF o.st = {} /\ t.device.role = "talk"
                  THEN First(parallel_trap_receivebyte(o.t, TRUE)) ELSE o IN
  Ready(OpenNameless(t))

CloseFile(t) ==
  [t |-> With(t, [closef(t.channel[t.device.device]) EXCEPT !.isopen = 0]), st |-> {}]

(* Variant: the name is not forgotten when the file cannot be opened.      *)
OpenFile_KeepsName(t) ==
  LET c == t.channel[t.device.device]
      o == openf(t.device.device, closef(c), t.name)
      opened == [o.c EXCEPT !.isopen = IF o.st = {} THEN 2 ELSE 0] IN
  IF c.isopen = 0 \/ t.name = <<>>
  THEN [t |-> t, st |-> {}]
  ELSE [t |-> [With(t, opened) EXCEPT !.name = IF o.st = {} THEN <<>> ELSE @], st |-> o.st]

OpenFile(t) ==
  LET c == t.channel[t.device.device]
      o == openf(t.device.device, closef(c), t.name)
      opened == [o.c EXCEPT !.isopen = IF o.st = {} THEN 2 ELSE 0] IN
  IF c.isopen = 0 \/ t.name = <<>>
  THEN [t |-> t, st |-> {}]
  ELSE [t |-> [With(t, opened) EXCEPT !.name = <<>>], st |-> o.st]

parallelcommand(t) ==
  LET c == t.channel[t.device.device]
      forgotten == With(t, [c EXCEPT !.lastok = FALSE]) IN
  IF t.device.device \in Real THEN [t |-> t, st |-> Failure]
  ELSE CASE t.secondary = "second" -> OpenChannel(t)
         [] t.secondary = "close"  -> CloseFile(forgotten)
         [] t.secondary = "open"   -> OpenFile(forgotten)

(* Variant: a second OPEN of a channel counts on.                          *)
NameFollows_Counts(t) ==
  IF t.device.device \in Real THEN t
  ELSE [t EXCEPT !.channel[t.device.device].isopen = @ + 1]

(* A command byte: it addresses, or acts on the channel, or ends both.     *)
NameFollows(t) ==
  IF t.device.device \in Real THEN t
  ELSE [t EXCEPT !.channel[t.device.device].isopen = 1]

Addressed(t, b) == [t EXCEPT !.device = [role |-> b.kind, device |-> b.device]]

Command(t, b) ==
  LET asked == [t EXCEPT !.secondary = b.kind] IN
  CASE b.kind = "unlisten" /\ t.secondary = "open" -> parallelcommand(t)
    [] b.kind \in {"listen", "talk"}  -> [t |-> Addressed(t, b), st |-> {}]
    [] b.kind \in {"second", "close"} -> parallelcommand(asked)
    [] b.kind = "open"                -> [t |-> NameFollows(asked), st |-> {}]
    [] OTHER                          -> [t |-> t, st |-> {}]

Missing(t) ==
  IF t.device # Nobody /\ InUse(t.device.device) THEN {} ELSE Failure

parallel_trap_attention(t, b) ==
  LET Over(x) == IF b.kind \in {"unlisten", "untalk"}
                 THEN [x EXCEPT !.device = Nobody, !.secondary = "none"] ELSE x
      Reply(x, low) == [t |-> x, status |-> [role |-> x.device.role, low |-> low]]
      Answer(c) == Reply(Over(c.t), c.st \cup Missing(c.t)) IN
  Answer(Command(t, b))

(* A data byte goes into the name or into the file.                        *)
parallel_trap_sendbyte(t, b) ==
  LET d == t.device.device
      p == putf(t.channel[d], b)
      Reply(new, st) == [t |-> new, status |-> [role |-> t.device.role, low |-> st]] IN
  CASE d \in Real    -> [t |-> t, status |-> [role |-> "none", low |-> Failure]]
    [] d \in Virtual -> IF t.channel[d].isopen = 1
                        THEN Reply([t EXCEPT !.name = IF Len(@) < NameLength THEN Append(@, b) ELSE @], {})
                        ELSE Reply(With(t, p.c), p.st)
    [] OTHER         -> Reply(t, Failure)
=============================================================================
