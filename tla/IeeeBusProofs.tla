---------------------------- MODULE IeeeBusProofs ----------------------------
(***************************************************************************)
(* Proofs about IeeeBus.  Whether the device hears itself, or talks while  *)
(* the machine does, depends on who pulls which wire when a handler is     *)
(* called.  The invariant says what the device pulls in each state, and    *)
(* what the machine's place in the protocol and the call it is making say  *)
(* of the device's state, of the last command and of the wires.            *)
(***************************************************************************)
EXTENDS IeeeBus, TLAPS

(* The machines beside a drive with a CPU hold the bus when they turn it   *)
(* round, and are not reset.  Without this the invariants do not hold: see *)
(* WaitsForNdac.                                                           *)
DrivesBesideNew == \A s \in Setups : s.drive => s.machine = "new" /\ s.resets = 0

-----------------------------------------------------------------------------
(* Types.                                                                  *)
Status == [role : {"none", "listen", "talk"}, low : SUBSET {"eof", "error"}]

Channel ==
  [isopen : 0..2, lastok : BOOLEAN, lastbyte : Nat, lastst : SUBSET {"eof", "error"},
   open : BOOLEAN, pos : Nat, stored : Seq(Nat)]

TrapState ==
  [device : {Nobody} \cup [role : {"listen", "talk"}, device : Device],
   secondary : {"none", "second", "open", "close"}, name : Seq(Nat),
   channel : [Virtual \cup Absent -> Channel]]

DeviceState == {"WaitATN", "In1", "In2", "OldPet", "Out1", "Out1a", "Out2"}

BusState ==
  [line : [Wires -> SUBSET Driver], data : [Driver -> Nat \cup {Idle} \cup CommandByte],
   state : DeviceState, par_status : Status, trap : TrapState, own : SUBSET Active]

(* A channel is spoken of only while a device is addressed.                *)
TrapOK(t) == t \in TrapState /\ (t.secondary # "none" => t.device # Nobody)

(* The states of a talker.                                                 *)
Talks == {"OldPet", "Out1", "Out1a", "Out2"}

(* What the device pulls in each state.                                    *)
MayPull(s) ==
  CASE s = "In1" -> {"ndac"}
    [] s = "In2" -> {"nrfd"}
    [] s \in {"Out1a", "Out2"} -> {"dav", "eoi"}
    [] OTHER -> {}

Mine(b) == {w \in Wires : "emu" \in b.line[w]}

Placed(b) ==
  /\ Mine(b) \subseteq MayPull(b.state)
  /\ b.state = "In2" => "nrfd" \in Mine(b)
  /\ b.state \notin {"Out1a", "Out2"} => b.data["emu"] = Idle

(* The bus, as the device sees it.                                         *)
BusOK(b) ==
  /\ b \in BusState /\ TrapOK(b.trap) /\ Placed(b)
  /\ b.par_status.role = "talk" => b.trap.device.role = "talk"
  /\ b.state \in Talks => b.trap.device.role = "talk"

-----------------------------------------------------------------------------
(* The machine makes this call next.                                       *)
Asks(call) == calls # <<>> /\ Head(calls) = call

(* Who pulls a wire beside the device.                                     *)
Beside(w) == line[w] \ {"emu"}

Call == [who : {"cpu", "drv"}, wire : Wires, low : BOOLEAN]

(* The calls that the machine makes at each place of the protocol.         *)
CallsAt ==
  ({"attention"} \X {Set("cpu", "atn"), Clr("cpu", "nrfd"), Clr("cpu", "ndac")})
  \cup ({"turn"} \X {Set("cpu", "nrfd"), Set("cpu", "ndac"), Clr("cpu", "atn")})
  \cup ({"send"} \X {Clr("cpu", "atn"), Clr("cpu", "dav")})
  \cup ({"receive"} \X {Clr("cpu", "atn"), Set("cpu", "ndac")})
  \cup ({"reset"} \X {Clr("cpu", w) : w \in {"ndac", "dav", "atn", "nrfd"}})
  \cup {<<"command", Clr("cpu", "dav")>>, <<"command dav", Set("cpu", "dav")>>,
         <<"send dav", Set("cpu", "dav")>>, <<"receive dav", Clr("cpu", "nrfd")>>,
         <<"receive taken", Set("cpu", "nrfd")>>, <<"receive accepted", Clr("cpu", "ndac")>>,
         <<"receive end", Set("cpu", "ndac")>>, <<"idle", Clr("cpu", "atn")>>}

(* The machine makes one call at a time; the drive calls for NRFD and NDAC *)
(* only.                                                                   *)
CallsOK ==
  /\ calls \in Seq(Call)
  /\ \A i \in 1..Len(calls) :
       IF calls[i].who = "drv" THEN setup.drive /\ calls[i].wire \in {"nrfd", "ndac"}
       ELSE i = 1 /\ <<pc, calls[i]>> \in CallsAt

PlaceOfMachine ==
  {"idle", "attention", "command", "command dav", "send", "send dav", "turn", "receive",
   "receive dav", "receive taken", "receive accepted", "receive end", "reset"}

PlaceOfDrive == {"absent", "idle", "atn", "ready", "busy", "taken", "again", "leaving"}

(* The machine's wires that a reset has still to release.                  *)
ToRelease(w) == pc = "reset" /\ \E i \in 1..Len(todo) : todo[i] = w

Types ==
  /\ BusOK(Bus) /\ own \subseteq {<<"OldPet", Low("ndac")>>}
  /\ setup \in Setup /\ (setup.drive => setup.machine = "new" /\ setup.resets = 0)
  /\ pc \in PlaceOfMachine /\ after \in {"end", "send", "turn"}
  /\ drive \in [at : PlaceOfDrive, listens : BOOLEAN] /\ (setup.drive <=> drive.at # "absent")
  /\ job.bytes \in Seq(Nat) /\ sent \in Nat
  /\ pc \in {"send", "send dav"} => todo \in Seq(Nat)
  /\ pc = "send dav" => todo # <<>>
  /\ CallsOK

(* The wires of the drive, and of a machine that gives commands or is      *)
(* reset.                                                                  *)
WiresOK ==
  /\ \A w \in Wires : "drv" \in line[w] => setup.drive /\ w \in {"nrfd", "ndac"}
  /\ pc \in {"command", "command dav"} => "cpu" \notin line["nrfd"] \cup line["ndac"]
  /\ pc = "reset" =>
       /\ ~setup.drive
       /\ todo \in {<<"ndac", "dav", "atn", "nrfd">>, <<"dav", "atn", "nrfd">>, <<"atn", "nrfd">>,
                    <<"nrfd">>, <<>>}
       /\ "cpu" \in line["ndac"] => ToRelease("ndac") \/ Asks(Clr("cpu", "ndac"))

(* ATN: who pulls it and when, and that the device then listens.           *)
Commanding ==
  pc \in {"attention", "command", "command dav"} \/ (pc = "turn" /\ setup.machine = "new")

AttentionOK ==
  /\ "cpu" \in line["atn"] => state \in {"In1", "In2"}
  /\ Commanding => "cpu" \in line["atn"] \/ Asks(Set("cpu", "atn"))
  /\ "cpu" \in line["atn"] => Commanding \/ Asks(Clr("cpu", "atn")) \/ ToRelease("atn")
  /\ Asks(Set("cpu", "atn")) =>
       /\ todo # <<>> /\ Head(todo).kind \in {"listen", "talk", "unlisten", "untalk"}

(* The machine's bytes, and that the device does not talk the while.       *)
BytesOK ==
  /\ "cpu" \in line["dav"] \/ Asks(Set("cpu", "dav")) =>
       pc \in {"command dav", "send dav"} \/ Asks(Clr("cpu", "dav")) \/ ToRelease("dav")
  /\ data["cpu"] # Idle => pc \in {"command dav", "send dav"}
  /\ state \in Talks => data["cpu"] = Idle /\ "cpu" \notin line["dav"]
  /\ pc \in {"send", "send dav"} => state \notin Talks
  /\ Asks(Set("cpu", "dav")) =>
       /\ "cpu" \notin line["dav"]
       /\ pc = "command dav" => state = "In1" /\ "cpu" \in line["atn"] /\ data["cpu"] = Head(todo)
       /\ pc = "send dav" => "cpu" \notin line["atn"] /\ data["cpu"] \in Nat

(* The end of the commands: the device turns round only in front of a      *)
(* machine that is ready for it or pulls nothing.                          *)
ReleaseOK ==
  Asks(Clr("cpu", "atn")) =>
    /\ ~Commanding
    /\ data["cpu"] = Idle /\ "cpu" \notin line["dav"]
    /\ par_status.role = "talk" =>
         pc \notin {"send", "send dav"} /\ (Beside("ndac") # {} => Beside("nrfd") # {})

(* The commands that are to come fit what the device knows, and what it    *)
(* knows after the last of them fits what the machine does then.           *)
FitsWith(rest, dev, role, next) ==
  /\ rest \in Seq(CommandByte)
  /\ rest # <<>> /\ Head(rest).kind \in {"second", "open", "close"} => dev # Nobody
  /\ \A i \in 1..Len(rest) : rest[i].kind \in {"unlisten", "untalk"} => i = Len(rest)
  /\ next = "send" =>
       /\ \A i \in 1..Len(rest) : rest[i].kind \in {"listen", "second", "open"}
       /\ rest = <<>> \/ Head(rest).kind # "listen" => dev.role = "listen"
       /\ rest = <<>> => role = "listen"
  /\ next = "end" =>
       /\ rest # <<>> => rest[Len(rest)].kind \in {"unlisten", "untalk"}
       /\ rest = <<>> => role = "none"

Fits(rest) == FitsWith(rest, trap.device, par_status.role, after)

CommandsOK ==
  /\ pc \in {"attention", "command"} => Fits(todo)
  /\ pc = "command dav" =>
       /\ todo # <<>>
       /\ IF Asks(Set("cpu", "dav")) THEN Fits(todo) ELSE Fits(Tail(todo))

BusInv == Types /\ WiresOK /\ AttentionOK /\ BytesOK /\ ReleaseOK /\ CommandsOK

-----------------------------------------------------------------------------
(* A sequence that is not empty has a first element and a rest.            *)
LEMMA HeadAndTail ==
  ASSUME NEW S, NEW s \in Seq(S), s # <<>>
  PROVE  Head(s) \in S /\ Tail(s) \in Seq(S)
  OBVIOUS

-----------------------------------------------------------------------------
(* The trap layer.                                                         *)
LEMMA ChannelKept ==
  ASSUME NEW c \in Channel
  PROVE  /\ \A v \in 0..2 : [c EXCEPT !.isopen = v] \in Channel
         /\ \A v \in BOOLEAN : [c EXCEPT !.lastok = v] \in Channel
         /\ \A v \in BOOLEAN : [c EXCEPT !.open = v] \in Channel
         /\ \A v \in Nat : [c EXCEPT !.pos = v] \in Channel
         /\ \A v \in Nat : [c EXCEPT !.lastbyte = v] \in Channel
         /\ \A v \in SUBSET {"eof", "error"} : [c EXCEPT !.lastst = v] \in Channel
         /\ \A v \in Seq(Nat) : [c EXCEPT !.stored = v] \in Channel
  BY DEF Channel

(* The values that openf and closef give the fields of a channel.          *)
LEMMA ChannelSet ==
  ASSUME NEW c \in Channel
  PROVE  /\ [c EXCEPT !.isopen = 0] \in Channel
         /\ [c EXCEPT !.isopen = 1] \in Channel
         /\ [c EXCEPT !.isopen = 2] \in Channel
         /\ [c EXCEPT !.open = TRUE] \in Channel
         /\ [c EXCEPT !.open = FALSE] \in Channel
         /\ [c EXCEPT !.pos = 0] \in Channel
         /\ [c EXCEPT !.stored = <<>>] \in Channel
<1>1. <<>> \in Seq(Nat) /\ 0 \in 0..2 /\ 1 \in 0..2 /\ 2 \in 0..2
  OBVIOUS
<1> QED BY <1>1, ChannelKept

(* The trap layer keeps its type when one field gets a value of its own    *)
(* type.                                                                   *)
LEMMA TrapKept ==
  ASSUME NEW t \in TrapState
  PROVE  /\ \A v \in {Nobody} \cup [role : {"listen", "talk"}, device : Device] :
              [t EXCEPT !.device = v] \in TrapState
         /\ \A v \in {"none", "second", "open", "close"} : [t EXCEPT !.secondary = v] \in TrapState
         /\ \A v \in Seq(Nat) : [t EXCEPT !.name = v] \in TrapState
         /\ \A v \in [Virtual \cup Absent -> Channel] : [t EXCEPT !.channel = v] \in TrapState
  BY DEF TrapState

(* The collected name is dropped.                                          *)
LEMMA Nameless ==
  ASSUME NEW t \in TrapState
  PROVE  /\ [t EXCEPT !.name = <<>>] \in TrapState
         /\ [t EXCEPT !.name = <<>>].device = t.device
         /\ [t EXCEPT !.name = <<>>].secondary = t.secondary
<1>1. <<>> \in Seq(Nat)
  OBVIOUS
<1>2. [t EXCEPT !.name = <<>>] \in TrapState
  BY <1>1, TrapKept
<1> QED BY <1>2 DEF TrapState

(* Who is addressed: nobody, or a device that listens or talks.            *)
LEMMA Addressee ==
  ASSUME NEW t \in TrapState
  PROVE  /\ t.device # Nobody <=> t.device.role \in {"listen", "talk"}
         /\ t.device # Nobody => t.device.device \in Device
         /\ t.device = Nobody => t.device.role = "none" /\ t.device.device \notin Device
         /\ t.device.device \in Device \ Real =>
              /\ t.device.device \in Virtual \cup Absent
              /\ t.channel[t.device.device] \in Channel
<1>1. t.device \in {Nobody} \cup [role : {"listen", "talk"}, device : Device]
  BY DEF TrapState
<1>2. Nobody.role = "none" /\ Nobody.device = 0 /\ 0 \notin Device
  BY DevicesDiffer DEF Nobody
<1>3. t.device # Nobody => t.device \in [role : {"listen", "talk"}, device : Device]
  BY <1>1
<1>4. t.device.device \in Device \ Real => t.device.device \in Virtual \cup Absent
  BY DEF Device
<1>5. t.channel \in [Virtual \cup Absent -> Channel]
  BY DEF TrapState
<1> QED BY <1>1, <1>2, <1>3, <1>4, <1>5

(* A change of the addressee's channel changes nothing else.               *)
LEMMA WithIs ==
  ASSUME NEW t \in TrapState, NEW c \in Channel, t.device.device \in Virtual \cup Absent
  PROVE  /\ With(t, c) \in TrapState
         /\ With(t, c).device = t.device
         /\ With(t, c).secondary = t.secondary
         /\ With(t, c).name = t.name
<1>1. [t.channel EXCEPT ![t.device.device] = c] \in [Virtual \cup Absent -> Channel]
  BY DEF TrapState
<1>2. With(t, c) = [t EXCEPT !.channel = [t.channel EXCEPT ![t.device.device] = c]]
  BY DEF With, TrapState
<1>3. With(t, c) \in TrapState
  <2> DEFINE f == [t.channel EXCEPT ![t.device.device] = c]
  <2>1. f \in [Virtual \cup Absent -> Channel]
    BY <1>1
  <2>2. With(t, c) = [t EXCEPT !.channel = f]
    BY <1>2
  <2> HIDE DEF f
  <2> QED BY <2>1, <2>2, TrapKept
<1>4. [t EXCEPT !.channel = [t.channel EXCEPT ![t.device.device] = c]].device = t.device
  BY DEF TrapState
<1>5. [t EXCEPT !.channel = [t.channel EXCEPT ![t.device.device] = c]].secondary = t.secondary
  BY DEF TrapState
<1>6. [t EXCEPT !.channel = [t.channel EXCEPT ![t.device.device] = c]].name = t.name
  BY DEF TrapState
<1> QED BY <1>2, <1>3, <1>4, <1>5, <1>6

(* A byte is read from the file.                                           *)
LEMMA GetfIs == ASSUME NEW c \in Channel PROVE getf(c) \in Channel
<1> DEFINE byte == [[c EXCEPT !.pos = c.pos + 1] EXCEPT !.lastbyte = c.pos + 1]
           last == IF c.pos + 1 = FileLength THEN {"eof"} ELSE {}
           none == [c EXCEPT !.lastbyte = 0]
<1>1. c.pos \in Nat
  BY DEF Channel
<1>2. byte \in Channel /\ none \in Channel
  <2>1. c.pos + 1 \in Nat
    BY <1>1
  <2>2. [c EXCEPT !.pos = c.pos + 1] \in Channel
    BY <2>1, ChannelKept
  <2> QED BY <2>1, <2>2, ChannelKept
<1>3. [byte EXCEPT !.lastst = last] \in Channel /\ [none EXCEPT !.lastst = Failure] \in Channel
  BY <1>2, ChannelKept DEF Failure
<1>4. getf(c) = IF c.open /\ c.pos < FileLength THEN [byte EXCEPT !.lastst = last]
                ELSE [none EXCEPT !.lastst = Failure]
  BY DEF getf, Channel
<1> QED BY <1>3, <1>4

(* A byte is fetched, or the one that was kept.                            *)
LEMMA FetchedIs ==
  ASSUME NEW c \in Channel, NEW fake \in BOOLEAN
  PROVE  Fetched(c, fake) \in Channel
<1>1. (IF c.lastok THEN c ELSE getf(c)) \in Channel
  BY GetfIs
<1> QED BY <1>1, ChannelKept DEF Fetched

(* A byte is fetched from whoever is addressed, and he stays addressed.    *)
LEMMA ReceivebyteIs ==
  ASSUME NEW t, TrapOK(t), t.device # Nobody, NEW fake \in BOOLEAN
  PROVE  LET r == parallel_trap_receivebyte(t, fake) IN
         /\ TrapOK(r.t) /\ r.t.device = t.device /\ r.t.secondary = t.secondary
         /\ r.byte \in Nat /\ r.status \in Status
         /\ r.status.role \in {"none", t.device.role}
<1>0. t \in TrapState /\ t.device.device \in Device /\ t.device.role \in {"listen", "talk"}
  BY Addressee DEF TrapOK
<1>1. CASE t.device.device \in Real
  <2>1. parallel_trap_receivebyte(t, fake)
          = [t |-> t, byte |-> 0, status |-> [role |-> "none", low |-> Failure]]
    BY <1>1 DEF parallel_trap_receivebyte
  <2> QED BY <2>1 DEF Status, Failure
<1>2. CASE t.device.device \notin Real
  <2> DEFINE c == Fetched(t.channel[t.device.device], fake)
  <2>1. t.device.device \in Virtual \cup Absent /\ t.channel[t.device.device] \in Channel
    BY <1>0, <1>2, Addressee
  <2>2. c \in Channel
    BY <2>1, FetchedIs
  <2>3. parallel_trap_receivebyte(t, fake)
          = [t |-> With(t, c), byte |-> c.lastbyte,
             status |-> [role |-> t.device.role, low |-> c.lastst]]
    BY <1>2 DEF parallel_trap_receivebyte
  <2> HIDE DEF c
  <2>4. With(t, c) \in TrapState /\ With(t, c).device = t.device
        /\ With(t, c).secondary = t.secondary
    BY <1>0, <2>1, <2>2, WithIs
  <2>5. c.lastbyte \in Nat /\ c.lastst \in SUBSET {"eof", "error"}
    BY <2>2 DEF Channel
  <2>6. [role |-> t.device.role, low |-> c.lastst] \in Status
    BY <1>0, <2>5 DEF Status
  <2> QED BY <2>3, <2>4, <2>5, <2>6 DEF TrapOK
<1> QED BY <1>1, <1>2

(* A data byte goes to whoever is addressed, if anybody is.                *)
LEMMA SendbyteIs ==
  ASSUME NEW t, TrapOK(t), NEW byte \in Nat
  PROVE  LET r == parallel_trap_sendbyte(t, byte) IN
         /\ TrapOK(r.t) /\ r.t.device = t.device
         /\ r.status \in Status /\ r.status.role \in {"none", t.device.role}
<1> DEFINE d == t.device.device
           c == t.channel[d]
           none == [role |-> "none", low |-> Failure]
           Own(low) == [role |-> t.device.role, low |-> low]
           r == parallel_trap_sendbyte(t, byte)
<1>0. t \in TrapState /\ t.device.role \in {"none", "listen", "talk"}
  BY Addressee DEF TrapOK, Nobody
<1>1. none \in Status /\ Own({}) \in Status /\ Own(Failure) \in Status
  BY <1>0 DEF Status, Failure
<1>2. CASE d \in Real
  <2>1. r = [t |-> t, status |-> none]
    BY <1>2, DevicesDiffer DEF parallel_trap_sendbyte
  <2>2. r.t = t /\ r.status = none
    BY <2>1
  <2> HIDE DEF r
  <2>3. TrapOK(r.t) /\ r.t.device = t.device /\ r.status \in Status /\ r.status.role = "none"
    BY <1>1, <2>2
  <2> QED BY <2>3 DEF r
<1>3. CASE d \in Virtual /\ c.isopen = 1
  <2> DEFINE n == IF Len(t.name) < NameLength THEN Append(t.name, byte) ELSE t.name
  <2>1. n \in Seq(Nat)
    BY <1>0 DEF TrapState
  <2>2. d \notin Real
    BY <1>3, DevicesDiffer
  <2>3. r = [t |-> [t EXCEPT !.name = n], status |-> Own({})]
    BY <1>3, <2>2 DEF parallel_trap_sendbyte
  <2> HIDE DEF n
  <2>4. [t EXCEPT !.name = n] \in TrapState
    BY <1>0, <2>1, TrapKept
  <2>5. [t EXCEPT !.name = n].device = t.device /\ [t EXCEPT !.name = n].secondary = t.secondary
    BY <1>0 DEF TrapState
  <2>6. TrapOK([t EXCEPT !.name = n])
    BY <2>4, <2>5 DEF TrapOK
  <2>7. Own({}).role = t.device.role
    OBVIOUS
  <2>8. r.t = [t EXCEPT !.name = n] /\ r.status = Own({})
    BY <2>3
  <2> HIDE DEF r, Own
  <2>9. TrapOK(r.t) /\ r.t.device = t.device /\ r.status \in Status /\ r.status.role = t.device.role
    BY <1>1, <2>5, <2>6, <2>7, <2>8
  <2> QED BY <2>9 DEF r
<1>4. CASE d \in Virtual /\ c.isopen # 1
  <2>1. d \notin Real /\ d \in Virtual \cup Absent /\ c \in Channel
    BY <1>0, <1>4, DevicesDiffer, Addressee DEF Device
  <2> DEFINE p == putf(c, byte)
  <2>2. p.c \in Channel /\ p.st \in {{}, Failure}
    <3>1. c.stored \in Seq(Nat)
      BY <2>1 DEF Channel
    <3>2. Append(c.stored, byte) \in Seq(Nat)
      BY <3>1
    <3>3. [c EXCEPT !.stored = Append(c.stored, byte)] \in Channel
      BY <2>1, <3>2, ChannelKept
    <3> QED BY <2>1, <3>3 DEF putf
  <2>3. r = [t |-> With(t, p.c), status |-> Own(p.st)]
    BY <1>4, <2>1 DEF parallel_trap_sendbyte
  <2> HIDE DEF p
  <2>4. With(t, p.c) \in TrapState /\ With(t, p.c).device = t.device
        /\ With(t, p.c).secondary = t.secondary
    BY <1>0, <2>1, <2>2, WithIs
  <2>5. TrapOK(With(t, p.c))
    BY <2>4 DEF TrapOK
  <2>6. Own(p.st).role = t.device.role /\ Own(p.st) \in Status
    BY <1>1, <2>2
  <2>7. r.t = With(t, p.c) /\ r.status = Own(p.st)
    BY <2>3
  <2> HIDE DEF r, Own
  <2>8. TrapOK(r.t) /\ r.t.device = t.device /\ r.status \in Status /\ r.status.role = t.device.role
    BY <2>4, <2>5, <2>6, <2>7
  <2> QED BY <2>8 DEF r
<1>5. CASE d \notin Real /\ d \notin Virtual
  BY <1>1, <1>5 DEF parallel_trap_sendbyte
<1> QED BY <1>2, <1>3, <1>4, <1>5

(* A command for a channel leaves the device addressed.                    *)
LEMMA OpenChannelIs ==
  ASSUME NEW t, TrapOK(t), t.device.device \in Virtual \cup Absent
  PROVE  /\ TrapOK(OpenChannel(t).t)
         /\ OpenChannel(t).t.device = t.device /\ OpenChannel(t).t.secondary = t.secondary
         /\ OpenChannel(t).st \in SUBSET {"eof", "error"}
<1> DEFINE c == t.channel[t.device.device]
           o == openf(t.device.device, c, <<>>)
           w == With(t, [o.c EXCEPT !.isopen = 2])
<1>0. t \in TrapState /\ c \in Channel
  BY DEF TrapOK, TrapState
<1>1. o.c \in Channel /\ o.st \in {{}, Failure}
  <2> DEFINE x == [[c EXCEPT !.open = TRUE] EXCEPT !.pos = 0]
  <2>1. [c EXCEPT !.open = TRUE] \in Channel /\ [c EXCEPT !.open = FALSE] \in Channel
    BY <1>0, ChannelKept
  <2>2. x \in Channel
    BY <2>1, ChannelKept
  <2>3. [x EXCEPT !.stored = <<>>] \in Channel
    BY <2>2, ChannelSet
  <2>4. [x EXCEPT !.stored = <<>>] = [c EXCEPT !.open = TRUE, !.pos = 0, !.stored = <<>>]
    BY <1>0 DEF Channel
  <2> QED BY <2>1, <2>3, <2>4 DEF openf
<1>2. [o.c EXCEPT !.isopen = 2] \in Channel
  BY <1>1, ChannelSet
<1>3. w \in TrapState /\ w.device = t.device /\ w.secondary = t.secondary
  BY <1>0, <1>2, WithIs
<1>4. OpenNameless(t) = IF c.isopen # 0 THEN [t |-> t, st |-> {}]
                        ELSE [t |-> [w EXCEPT !.name = <<>>], st |-> o.st]
  BY DEF OpenNameless
<1> HIDE DEF w, o, c
<1>5. [w EXCEPT !.name = <<>>] \in TrapState /\ [w EXCEPT !.name = <<>>].device = t.device
      /\ [w EXCEPT !.name = <<>>].secondary = t.secondary
  BY <1>3, Nameless
<1> DEFINE n == OpenNameless(t)
<1>6. n.t \in TrapState /\ n.t.device = t.device /\ n.t.secondary = t.secondary
      /\ n.st \in {{}, Failure}
  BY <1>0, <1>1, <1>4, <1>5
<1>7. TrapOK(n.t)
  BY <1>6 DEF TrapOK
<1> DEFINE r == parallel_trap_receivebyte(n.t, TRUE)
<1>8. n.t.device # Nobody
  BY <1>6, Addressee, DevicesDiffer DEF Device
<1>9. TrapOK(r.t) /\ r.t.device = n.t.device /\ r.t.secondary = n.t.secondary /\ r.status \in Status
  BY <1>7, <1>8, ReceivebyteIs
<1>10. OpenChannel(t) = IF n.st = {} /\ t.device.role = "talk"
                        THEN [t |-> r.t, st |-> r.status.low \ {"eof"}] ELSE n
  BY DEF OpenChannel
<1> HIDE DEF n, r
<1>11. r.status.low \ {"eof"} \in SUBSET {"eof", "error"}
  BY <1>9 DEF Status
<1> QED BY <1>6, <1>7, <1>9, <1>10, <1>11 DEF Failure

(* A file is closed.                                                       *)
LEMMA CloseFileIs ==
  ASSUME NEW t, TrapOK(t), t.device.device \in Virtual \cup Absent
  PROVE  /\ TrapOK(CloseFile(t).t)
         /\ CloseFile(t).t.device = t.device /\ CloseFile(t).t.secondary = t.secondary
         /\ CloseFile(t).st = {}
<1> DEFINE c == t.channel[t.device.device]
<1>1. t \in TrapState /\ c \in Channel
  BY DEF TrapOK, TrapState
<1>2. closef(c) \in Channel
  BY <1>1, ChannelKept DEF closef
<1>3. [closef(c) EXCEPT !.isopen = 0] \in Channel
  BY <1>2, ChannelSet
<1>4. With(t, [closef(c) EXCEPT !.isopen = 0]) \in TrapState
      /\ With(t, [closef(c) EXCEPT !.isopen = 0]).device = t.device
      /\ With(t, [closef(c) EXCEPT !.isopen = 0]).secondary = t.secondary
  BY <1>1, <1>3, WithIs
<1>5. CloseFile(t) = [t |-> With(t, [closef(c) EXCEPT !.isopen = 0]), st |-> {}]
  BY DEF CloseFile
<1> QED BY <1>4, <1>5 DEF TrapOK

(* A file is opened with the name that was collected.                      *)
LEMMA OpenFileIs ==
  ASSUME NEW t, TrapOK(t), t.device.device \in Virtual \cup Absent
  PROVE  /\ TrapOK(OpenFile(t).t)
         /\ OpenFile(t).t.device = t.device /\ OpenFile(t).t.secondary = t.secondary
         /\ OpenFile(t).st \in {{}, Failure}
<1> DEFINE c == t.channel[t.device.device]
           o == openf(t.device.device, closef(c), t.name)
           x == [o.c EXCEPT !.isopen = IF o.st = {} THEN 2 ELSE 0]
           w == With(t, x)
<1>1. t \in TrapState /\ c \in Channel
  BY DEF TrapOK, TrapState
<1>2. closef(c) \in Channel
  BY <1>1, ChannelKept DEF closef
<1>3. o.c \in Channel /\ o.st \in {{}, Failure}
  <2> DEFINE a == closef(c)
             y == [[a EXCEPT !.open = TRUE] EXCEPT !.pos = 0]
  <2>0. a \in Channel
    BY <1>2
  <2> HIDE DEF a
  <2>1. [a EXCEPT !.open = TRUE] \in Channel /\ [a EXCEPT !.open = FALSE] \in Channel
    BY <2>0, ChannelKept
  <2>2. y \in Channel
    BY <2>1, ChannelKept
  <2>3. [y EXCEPT !.stored = <<>>] \in Channel
    BY <2>2, ChannelSet
  <2>4. [y EXCEPT !.stored = <<>>] = [a EXCEPT !.open = TRUE, !.pos = 0, !.stored = <<>>]
    BY <2>0 DEF Channel
  <2>5. o = openf(t.device.device, a, t.name)
    BY DEF a
  <2> HIDE DEF o
  <2> QED BY <2>1, <2>3, <2>4, <2>5 DEF openf
<1>4. x \in Channel
  BY <1>3, ChannelSet
<1>5. w \in TrapState /\ w.device = t.device /\ w.secondary = t.secondary
  BY <1>1, <1>4, WithIs
<1>6. OpenFile(t) = IF c.isopen = 0 \/ t.name = <<>> THEN [t |-> t, st |-> {}]
                    ELSE [t |-> [w EXCEPT !.name = <<>>], st |-> o.st]
  BY DEF OpenFile
<1> HIDE DEF w, x, o, c
<1>7. [w EXCEPT !.name = <<>>] \in TrapState
      /\ [w EXCEPT !.name = <<>>].device = w.device
      /\ [w EXCEPT !.name = <<>>].secondary = w.secondary
  BY <1>5, Nameless
<1>8. TrapOK([w EXCEPT !.name = <<>>])
  BY <1>5, <1>7 DEF TrapOK
<1> QED BY <1>3, <1>5, <1>6, <1>7, <1>8

(* What a secondary address does to a channel leaves the addressee alone.  *)
LEMMA ParallelcommandIs ==
  ASSUME NEW t, TrapOK(t), t.device # Nobody, t.secondary # "none"
  PROVE  /\ TrapOK(parallelcommand(t).t)
         /\ parallelcommand(t).t.device = t.device
         /\ parallelcommand(t).st \in SUBSET {"eof", "error"}
<1> DEFINE c == t.channel[t.device.device]
           forgotten == With(t, [c EXCEPT !.lastok = FALSE])
<1>0. t \in TrapState /\ t.device.device \in Device /\ t.secondary \in {"second", "open", "close"}
  BY Addressee DEF TrapOK, TrapState
<1>1. CASE t.device.device \in Real
  <2>1. parallelcommand(t) = [t |-> t, st |-> Failure]
    BY <1>1 DEF parallelcommand
  <2> QED BY <2>1 DEF Failure
<1>2. CASE t.device.device \notin Real
  <2>1. t.device.device \in Virtual \cup Absent /\ c \in Channel
    BY <1>0, <1>2, Addressee
  <2>2. [c EXCEPT !.lastok = FALSE] \in Channel
    BY <2>1, ChannelKept
  <2>3. forgotten \in TrapState /\ forgotten.device = t.device /\ forgotten.secondary = t.secondary
    BY <1>0, <2>1, <2>2, WithIs
  <2>4. parallelcommand(t) =
          CASE t.secondary = "second" -> OpenChannel(t)
            [] t.secondary = "close" -> CloseFile(forgotten)
            [] t.secondary = "open" -> OpenFile(forgotten)
    BY <1>0, <1>2 DEF parallelcommand
  <2> HIDE DEF forgotten, c
  <2>5. TrapOK(forgotten) /\ forgotten.device.device \in Virtual \cup Absent
    BY <2>1, <2>3 DEF TrapOK
  <2>6. CASE t.secondary = "second"
    <3>1. parallelcommand(t) = OpenChannel(t)
      BY <2>4, <2>6
    <3> QED BY <2>1, <3>1, OpenChannelIs
  <2>7. CASE t.secondary = "close"
    <3>1. parallelcommand(t) = CloseFile(forgotten)
      BY <2>4, <2>7
    <3> QED BY <2>3, <2>5, <3>1, CloseFileIs
  <2>8. CASE t.secondary = "open"
    <3>1. parallelcommand(t) = OpenFile(forgotten)
      BY <2>4, <2>8
    <3> QED BY <2>3, <2>5, <3>1, OpenFileIs DEF Failure
  <2> QED BY <1>0, <2>6, <2>7, <2>8
<1> QED BY <1>1, <1>2

(* An OPEN lets the bytes that follow be the name.                         *)
LEMMA NameFollowsIs ==
  ASSUME NEW t \in TrapState, t.device # Nobody
  PROVE  NameFollows(t) \in TrapState /\ NameFollows(t).device = t.device
<1> DEFINE d == t.device.device
           f == [t.channel EXCEPT ![d] = [t.channel[d] EXCEPT !.isopen = 1]]
<1>1. CASE d \in Real
  BY <1>1 DEF NameFollows
<1>2. CASE d \notin Real
  <2>1. d \in Virtual \cup Absent /\ t.channel[d] \in Channel
    BY <1>2, Addressee
  <2>2. [t.channel[d] EXCEPT !.isopen = 1] \in Channel
    BY <2>1, ChannelSet
  <2>3. f \in [Virtual \cup Absent -> Channel]
    BY <2>1, <2>2 DEF TrapState
  <2>4. NameFollows(t) = [t EXCEPT !.channel = f]
    BY <1>2, <2>1 DEF NameFollows, TrapState
  <2> HIDE DEF f
  <2>5. [t EXCEPT !.channel = f] \in TrapState
    BY <2>3, TrapKept
  <2>6. [t EXCEPT !.channel = f].device = t.device
    BY DEF TrapState
  <2> QED BY <2>4, <2>5, <2>6
<1> QED BY <1>1, <1>2

Addressing(b) == b.kind \in {"listen", "talk"}

Ending(b) == b.kind \in {"unlisten", "untalk"}

(* A command byte: who is addressed after it.                              *)
LEMMA CommandIs ==
  ASSUME NEW t, TrapOK(t), NEW b \in CommandByte,
         b.kind \in {"second", "open", "close"} => t.device # Nobody
  PROVE  /\ TrapOK(Command(t, b).t)
         /\ Command(t, b).t.device =
              IF Addressing(b) THEN [role |-> b.kind, device |-> b.device] ELSE t.device
         /\ Command(t, b).st \in SUBSET {"eof", "error"}
<1> DEFINE asked == [t EXCEPT !.secondary = b.kind]
<1>0. t \in TrapState
  BY DEF TrapOK
<1>1. CASE Addressing(b)
  <2> DEFINE v == [role |-> b.kind, device |-> b.device]
  <2>1. v \in [role : {"listen", "talk"}, device : Device]
    BY <1>1 DEF CommandByte, Addressing
  <2>2. [t EXCEPT !.device = v] \in TrapState /\ v # Nobody
    <3> HIDE DEF v
    <3>1. v # Nobody
      BY <2>1 DEF Nobody
    <3> QED BY <1>0, <2>1, <3>1, TrapKept
  <2>3. Command(t, b) = [t |-> [t EXCEPT !.device = v], st |-> {}]
    BY <1>1 DEF Command, Addressed, Addressing
  <2>4. [t EXCEPT !.device = v].device = v
    BY <1>0 DEF TrapState
  <2> HIDE DEF v
  <2>5. Command(t, b).t = [t EXCEPT !.device = v] /\ Command(t, b).st = {}
    BY <2>3
  <2>6. TrapOK([t EXCEPT !.device = v])
    BY <2>2, <2>4 DEF TrapOK
  <2>7. Command(t, b).t.device = v /\ TrapOK(Command(t, b).t)
    BY <2>4, <2>5, <2>6
  <2> QED BY <1>1, <2>5, <2>7 DEF v
<1>2. CASE b.kind \in {"second", "open", "close"}
  <2>1. t.device # Nobody
    BY <1>2
  <2>2. asked \in TrapState
    BY <1>0, <1>2, TrapKept
  <2>3. asked.device = t.device /\ asked.secondary = b.kind
    BY <1>0 DEF TrapState
  <2>4. Command(t, b) = IF b.kind = "open" THEN [t |-> NameFollows(asked), st |-> {}]
                        ELSE parallelcommand(asked)
    BY <1>2 DEF Command
  <2> HIDE DEF asked
  <2>5. NameFollows(asked) \in TrapState /\ NameFollows(asked).device = t.device
    BY <2>1, <2>2, <2>3, NameFollowsIs
  <2>6. TrapOK(NameFollows(asked))
    BY <2>1, <2>5 DEF TrapOK
  <2>7. TrapOK(asked) /\ asked.secondary # "none"
    BY <1>2, <2>1, <2>2, <2>3 DEF TrapOK
  <2>8. /\ TrapOK(parallelcommand(asked).t)
        /\ parallelcommand(asked).t.device = t.device
        /\ parallelcommand(asked).st \in SUBSET {"eof", "error"}
    BY <2>1, <2>3, <2>7, ParallelcommandIs
  <2>9. ~Addressing(b)
    BY <1>2 DEF Addressing
  <2> QED BY <2>4, <2>5, <2>6, <2>8, <2>9
<1>3. CASE Ending(b) /\ b.kind = "unlisten" /\ t.secondary = "open"
  <2>1. Command(t, b) = parallelcommand(t)
    BY <1>3 DEF Command
  <2>2. t.device # Nobody /\ ~Addressing(b)
    BY <1>3 DEF TrapOK, Addressing
  <2> QED BY <1>3, <2>1, <2>2, ParallelcommandIs
<1>4. CASE Ending(b) /\ ~(b.kind = "unlisten" /\ t.secondary = "open")
  <2>1. Command(t, b) = [t |-> t, st |-> {}]
    BY <1>4 DEF Command, Ending
  <2>2. ~Addressing(b)
    BY <1>4 DEF Ending, Addressing
  <2>3. Command(t, b).t = t /\ Command(t, b).st = {}
    BY <2>1
  <2> QED BY <2>2, <2>3
<1> QED BY <1>1, <1>2, <1>3, <1>4 DEF CommandByte, Addressing, Ending

(* A command addresses, or leaves the device addressed, or ends that; the  *)
(* status tells which role it has then.                                    *)
LEMMA AttentionIs ==
  ASSUME NEW t, TrapOK(t), NEW b \in CommandByte,
         b.kind \in {"second", "open", "close"} => t.device # Nobody
  PROVE  /\ TrapOK(parallel_trap_attention(t, b).t)
         /\ parallel_trap_attention(t, b).t.device =
              IF Addressing(b) THEN [role |-> b.kind, device |-> b.device]
              ELSE IF Ending(b) THEN Nobody ELSE t.device
         /\ parallel_trap_attention(t, b).status \in Status
         /\ parallel_trap_attention(t, b).status.role = parallel_trap_attention(t, b).t.device.role
<1> DEFINE c == Command(t, b)
           over == IF Ending(b) THEN [c.t EXCEPT !.device = Nobody, !.secondary = "none"] ELSE c.t
           low == c.st \cup Missing(c.t)
<1>1. /\ TrapOK(c.t)
      /\ c.t.device = IF Addressing(b) THEN [role |-> b.kind, device |-> b.device] ELSE t.device
      /\ c.st \in SUBSET {"eof", "error"}
  BY CommandIs
<1>2. parallel_trap_attention(t, b)
        = [t |-> over, status |-> [role |-> over.device.role, low |-> low]]
  BY DEF parallel_trap_attention, Ending
<1>3. low \in SUBSET {"eof", "error"}
  BY <1>1 DEF Missing, Failure
<1>4. TrapOK(over) /\ over.device = IF Ending(b) THEN Nobody ELSE c.t.device
  <2> HIDE DEF c
  <2>1. [c.t EXCEPT !.device = Nobody] \in TrapState
    BY <1>1, TrapKept DEF TrapOK
  <2> DEFINE x == [c.t EXCEPT !.device = Nobody]
  <2>2. x \in TrapState
    BY <2>1
  <2>3. [x EXCEPT !.secondary = "none"] \in TrapState
    <3> HIDE DEF x
    <3> QED BY <2>2, TrapKept
  <2>4. [x EXCEPT !.secondary = "none"] = [c.t EXCEPT !.device = Nobody, !.secondary = "none"]
    BY <1>1 DEF TrapOK, TrapState
  <2>5. [x EXCEPT !.secondary = "none"].secondary = "none"
        /\ [x EXCEPT !.secondary = "none"].device = Nobody
    BY <1>1 DEF TrapOK, TrapState
  <2> QED BY <1>1, <2>3, <2>4, <2>5 DEF TrapOK
<1> HIDE DEF over, low, c
<1>5. over.device.role \in {"none", "listen", "talk"}
  BY <1>4, Addressee DEF TrapOK
<1>6. [role |-> over.device.role, low |-> low] \in Status
  BY <1>3, <1>5 DEF Status
<1>7. ~(Addressing(b) /\ Ending(b))
  BY DEF Addressing, Ending
<1> QED BY <1>1, <1>2, <1>4, <1>6, <1>7

-----------------------------------------------------------------------------
(* What the handlers are made of.                                          *)
LEMMA BusKept ==
  ASSUME NEW b \in BusState
  PROVE  /\ \A v \in [Wires -> SUBSET Driver] : [b EXCEPT !.line = v] \in BusState
         /\ \A v \in [Driver -> Nat \cup {Idle} \cup CommandByte] : [b EXCEPT !.data = v] \in BusState
         /\ \A v \in DeviceState : [b EXCEPT !.state = v] \in BusState
         /\ \A v \in Status : [b EXCEPT !.par_status = v] \in BusState
         /\ \A v \in TrapState : [b EXCEPT !.trap = v] \in BusState
         /\ \A v \in SUBSET Active : [b EXCEPT !.own = v] \in BusState
  BY DEF BusState

(* The device has done something to the bus: who else pulls a wire or has  *)
(* a byte on the bus is the same as before.                                *)
SameBeside(b, x) ==
  /\ x \in BusState
  /\ \A w \in Wires : x.line[w] \ {"emu"} = b.line[w] \ {"emu"}
  /\ x.data["cpu"] = b.data["cpu"]

(* It has done so without a change of its own state.                       *)
Like(b, x) ==
  /\ SameBeside(b, x)
  /\ x.state = b.state /\ x.par_status = b.par_status /\ x.trap = b.trap

(* A wire gets another set of drivers.                                     *)
LEMMA SetLine ==
  ASSUME NEW b \in BusState, NEW v \in [Wires -> SUBSET Driver]
  PROVE  LET x == [b EXCEPT !.line = v] IN
         /\ x \in BusState /\ x.line = v /\ x.data = b.data /\ x.state = b.state
         /\ x.par_status = b.par_status /\ x.trap = b.trap /\ x.own = b.own
<1>1. [b EXCEPT !.line = v] \in BusState
  BY BusKept
<1> QED BY <1>1 DEF BusState

(* A transition of the device's own only notes what it meets.              *)
LEMMA OwnTransIs ==
  ASSUME NEW b \in BusState, NEW c
  PROVE  LET x == OwnTrans(b, c) IN
         /\ x \in BusState /\ x.line = b.line /\ x.data = b.data /\ x.state = b.state
         /\ x.par_status = b.par_status /\ x.trap = b.trap
         /\ x.own = IF <<b.state, c>> \in Active THEN b.own \cup {<<b.state, c>>} ELSE b.own
<1>1. CASE <<b.state, c>> \in Active
  <2> DEFINE v == b.own \cup {<<b.state, c>>}
  <2>1. v \in SUBSET Active
    BY <1>1 DEF BusState
  <2>2. OwnTrans(b, c) = [b EXCEPT !.own = v]
    BY <1>1 DEF OwnTrans
  <2> HIDE DEF v
  <2>3. [b EXCEPT !.own = v] \in BusState
    BY <2>1, BusKept
  <2>4. OwnTrans(b, c).own = v
    BY <2>2 DEF BusState
  <2> QED BY <1>1, <2>2, <2>3, <2>4 DEF BusState, v
<1>2. CASE <<b.state, c>> \notin Active
  BY <1>2 DEF OwnTrans
<1> QED BY <1>1, <1>2

(* The device pulls a wire of its own.                                     *)
LEMMA PullIs ==
  ASSUME NEW b \in BusState, NEW w \in Wires
  PROVE  LET x == Pull(b, w) IN
         /\ Like(b, x) /\ x.data = b.data /\ Mine(x) = Mine(b) \cup {w}
         /\ x.line[w] # {}
         /\ x.own = IF Pulled(b, w) \/ <<b.state, Low(w)>> \notin Active THEN b.own
                    ELSE b.own \cup {<<b.state, Low(w)>>}
<1> DEFINE v == [b.line EXCEPT ![w] = @ \cup {"emu"}]
           p == [b EXCEPT !.line = v]
<1>1. b.line \in [Wires -> SUBSET Driver]
  BY DEF BusState
<1>2. v \in [Wires -> SUBSET Driver]
  BY <1>1 DEF Driver
<1>3. \A u \in Wires : v[u] = IF u = w THEN b.line[u] \cup {"emu"} ELSE b.line[u]
  BY <1>1
<1>4. [b EXCEPT !.line[w] = @ \cup {"emu"}] = p
  BY DEF BusState
<1>5. Pull(b, w) = IF Pulled(b, w) THEN p ELSE OwnTrans(p, Low(w))
  BY <1>4 DEF Pull
<1> HIDE DEF v
<1>6. /\ p \in BusState /\ p.line = v /\ p.data = b.data /\ p.state = b.state
      /\ p.par_status = b.par_status /\ p.trap = b.trap /\ p.own = b.own
  BY <1>2, SetLine
<1> HIDE DEF p
<1> DEFINE x == Pull(b, w)
<1>7. /\ x \in BusState /\ x.line = v /\ x.data = b.data /\ x.state = b.state
      /\ x.par_status = b.par_status /\ x.trap = b.trap
      /\ x.own = IF Pulled(b, w) \/ <<b.state, Low(w)>> \notin Active THEN b.own
                 ELSE b.own \cup {<<b.state, Low(w)>>}
  BY <1>5, <1>6, OwnTransIs
<1> HIDE DEF x
<1>8. Mine(x) = Mine(b) \cup {w}
  BY <1>3, <1>7 DEF Mine
<1>9. Like(b, x)
  BY <1>3, <1>7 DEF Like, SameBeside
<1> QED BY <1>3, <1>7, <1>8, <1>9 DEF x

(* The device releases a wire of its own.                                  *)
LEMMA FreeIs ==
  ASSUME NEW b \in BusState, NEW w \in Wires,
         w \in Mine(b) => <<b.state, High(w)>> \notin Active
  PROVE  LET x == Free(b, w) IN
         Like(b, x) /\ x.data = b.data /\ Mine(x) = Mine(b) \ {w} /\ x.own = b.own
<1> DEFINE v == [b.line EXCEPT ![w] = @ \ {"emu"}]
           p == [b EXCEPT !.line = v]
<1>1. b.line \in [Wires -> SUBSET Driver]
  BY DEF BusState
<1>2. v \in [Wires -> SUBSET Driver]
  BY <1>1
<1>3. \A u \in Wires : v[u] = IF u = w THEN b.line[u] \ {"emu"} ELSE b.line[u]
  BY <1>1
<1>4. [b EXCEPT !.line[w] = @ \ {"emu"}] = p
  BY DEF BusState
<1>5. Free(b, w) = IF b.line[w] = {"emu"} THEN OwnTrans(p, High(w)) ELSE p
  BY <1>4 DEF Free
<1>a. b.line[w] = {"emu"} => <<b.state, High(w)>> \notin Active
  BY DEF Mine
<1> HIDE DEF v
<1>6. /\ p \in BusState /\ p.line = v /\ p.data = b.data /\ p.state = b.state
      /\ p.par_status = b.par_status /\ p.trap = b.trap /\ p.own = b.own
  BY <1>2, SetLine
<1> HIDE DEF p
<1> DEFINE x == Free(b, w)
<1>7. /\ x \in BusState /\ x.line = v /\ x.data = b.data /\ x.state = b.state
      /\ x.par_status = b.par_status /\ x.trap = b.trap /\ x.own = b.own
  <2>1. CASE b.line[w] = {"emu"}
    <3>1. x = OwnTrans(p, High(w)) /\ <<p.state, High(w)>> \notin Active
      BY <1>5, <1>6, <1>a, <2>1
    <3> DEFINE y == OwnTrans(p, High(w))
    <3>2. /\ y \in BusState /\ y.line = p.line /\ y.data = p.data /\ y.state = p.state
          /\ y.par_status = p.par_status /\ y.trap = p.trap
          /\ y.own = IF <<p.state, High(w)>> \in Active THEN p.own \cup {<<p.state, High(w)>>}
                     ELSE p.own
      BY <1>6, OwnTransIs
    <3>3. y.own = p.own
      BY <3>1, <3>2
    <3>4. x = y
      BY <3>1
    <3> HIDE DEF x, y
    <3> QED BY <1>6, <3>2, <3>3, <3>4
  <2>2. CASE b.line[w] # {"emu"}
    BY <1>5, <1>6, <2>2
  <2> QED BY <2>1, <2>2
<1> HIDE DEF x
<1>8. Mine(x) = Mine(b) \ {w}
  BY <1>3, <1>7 DEF Mine
<1>9. Like(b, x)
  BY <1>3, <1>7 DEF Like, SameBeside
<1> QED BY <1>7, <1>8, <1>9 DEF x

(* The device puts a byte on the data wires.                               *)
LEMMA PutsIs ==
  ASSUME NEW b \in BusState, NEW byte \in Nat \cup {Idle}
  PROVE  LET x == Puts(b, byte) IN
         Like(b, x) /\ x.data["emu"] = byte /\ Mine(x) = Mine(b) /\ x.own = b.own
                    /\ x.line = b.line
<1> DEFINE v == [b.data EXCEPT !["emu"] = byte]
<1>1. b.data \in [Driver -> Nat \cup {Idle} \cup CommandByte]
  BY DEF BusState
<1>2. v \in [Driver -> Nat \cup {Idle} \cup CommandByte] /\ v["emu"] = byte /\ v["cpu"] = b.data["cpu"]
  BY <1>1 DEF Driver
<1>3. Puts(b, byte) = [b EXCEPT !.data = v]
  BY DEF Puts, BusState
<1> HIDE DEF v
<1>4. [b EXCEPT !.data = v] \in BusState
  BY <1>2, BusKept
<1> DEFINE x == [b EXCEPT !.data = v]
<1>5. /\ x.data = v /\ x.line = b.line /\ x.state = b.state /\ x.own = b.own
      /\ x.par_status = b.par_status /\ x.trap = b.trap
  BY DEF BusState
<1> HIDE DEF x
<1> QED BY <1>2, <1>3, <1>4, <1>5 DEF x, Like, SameBeside, Mine

(* The state machine goes to another state.                                *)
LEMMA GoIs ==
  ASSUME NEW b \in BusState, NEW s \in DeviceState
  PROVE  LET x == Go(b, s) IN
         /\ SameBeside(b, x) /\ x.state = s /\ x.par_status = b.par_status /\ x.trap = b.trap
         /\ x.data = b.data /\ Mine(x) = Mine(b) /\ x.own = b.own /\ x.line = b.line
<1> DEFINE x == [b EXCEPT !.state = s]
<1>1. x \in BusState
  BY BusKept
<1>2. /\ x.state = s /\ x.par_status = b.par_status /\ x.trap = b.trap
      /\ x.data = b.data /\ x.own = b.own /\ x.line = b.line
  BY DEF BusState
<1>3. Go(b, s) = x
  BY DEF Go
<1> HIDE DEF x
<1> QED BY <1>1, <1>2, <1>3 DEF SameBeside, Mine

(* The device takes what the trap layer says.                              *)
LEMMA TookIs ==
  ASSUME NEW b \in BusState, NEW r, r.t \in TrapState, r.status \in Status
  PROVE  LET x == Took(b, r) IN
         /\ SameBeside(b, x) /\ x.state = b.state /\ x.par_status = r.status /\ x.trap = r.t
         /\ x.data = b.data /\ Mine(x) = Mine(b) /\ x.own = b.own /\ x.line = b.line
<1> DEFINE y == [b EXCEPT !.trap = r.t]
           x == [y EXCEPT !.par_status = r.status]
<1>1. y \in BusState
  BY BusKept
<1>2. x \in BusState
  <2> HIDE DEF y
  <2> QED BY <1>1, BusKept
<1>3. Took(b, r) = x
  BY DEF Took, BusState
<1>4. /\ x.state = b.state /\ x.par_status = r.status /\ x.trap = r.t
      /\ x.data = b.data /\ x.own = b.own /\ x.line = b.line
  BY DEF BusState
<1> HIDE DEF x
<1> QED BY <1>2, <1>3, <1>4 DEF SameBeside, Mine

(* Two changes in a row that leave the others' wires and bytes alone.      *)
LEMMA SameBesideTwice ==
  ASSUME NEW b, NEW x, NEW y, SameBeside(b, x), SameBeside(x, y)
  PROVE  SameBeside(b, y)
  BY DEF SameBeside

(* The device's own wires that no state reacts to.                         *)
LEMMA Unheard ==
  /\ \A s \in DeviceState : \A w \in MayPull(s) : <<s, High(w)>> \notin Active
  /\ \A s \in DeviceState : <<s, High("eoi")>> \notin Active /\ <<s, Low("eoi")>> \notin Active
  /\ \A s \in DeviceState \ {"OldPet"} : <<s, Low("ndac")>> \notin Active
  /\ \A s \in DeviceState \ {"In1"} : <<s, Low("dav")>> \notin Active
  /\ \A s \in DeviceState \ {"OldPet", "Out1a"} : <<s, Low("nrfd")>> \notin Active
<1>1. \A s : <<s, High("eoi")>> \notin Active /\ <<s, Low("eoi")>> \notin Active
  BY DEF Active, High, Low
<1>2. \A s : s # "OldPet" => <<s, Low("ndac")>> \notin Active
  BY DEF Active, Low
<1>3. \A s : s # "In1" => <<s, Low("dav")>> \notin Active
  BY DEF Active, Low
<1>4. \A s : s \notin {"OldPet", "Out1a"} => <<s, Low("nrfd")>> \notin Active
  BY DEF Active, Low
<1>5. <<"In1", High("ndac")>> \notin Active /\ <<"In2", High("nrfd")>> \notin Active
      /\ <<"Out1a", High("dav")>> \notin Active /\ <<"Out2", High("dav")>> \notin Active
  BY DEF Active, High
<1>6. \A s \in DeviceState : \A w \in MayPull(s) :
        \/ s = "In1" /\ w = "ndac"
        \/ s = "In2" /\ w = "nrfd"
        \/ s \in {"Out1a", "Out2"} /\ w \in {"dav", "eoi"}
  BY DEF MayPull, DeviceState
<1> QED BY <1>1, <1>2, <1>3, <1>4, <1>5, <1>6

(* The device's wires are wires, its state is one of the table.            *)
LEMMA Placement == \A b : b \in BusState => Mine(b) \subseteq Wires /\ b.state \in DeviceState
  BY DEF Mine, BusState

(* After ResetBus the device pulls nothing.                                *)
LEMMA ResetBusIs ==
  ASSUME NEW b \in BusState, Mine(b) \subseteq MayPull(b.state)
  PROVE  LET x == ResetBus(b) IN
         /\ SameBeside(b, x) /\ x.state = b.state /\ x.trap = b.trap /\ x.par_status = Silent
         /\ x.own = b.own /\ x.data["emu"] = Idle /\ Mine(x) = {}
<1> DEFINE f1 == Free(b, "dav")
           f2 == Free(f1, "eoi")
           f3 == Free(f2, "nrfd")
           f4 == Free(f3, "ndac")
           f5 == Puts(f4, Idle)
           x == [f5 EXCEPT !.par_status = Silent]
           Safe(f) == /\ Like(b, f) /\ f.own = b.own /\ Mine(f) \subseteq Mine(b)
<1>0. {"dav", "eoi", "nrfd", "ndac"} \subseteq Wires /\ MayPull(b.state) \subseteq {"dav", "eoi", "nrfd", "ndac"}
  BY DEF Wires, MayPull
<1>1. ASSUME NEW f, Safe(f), NEW w \in {"dav", "eoi", "nrfd", "ndac"}
      PROVE  Safe(Free(f, w)) /\ Mine(Free(f, w)) = Mine(f) \ {w}
  <2>1. f \in BusState /\ f.state = b.state
    BY <1>1 DEF Like, SameBeside
  <2>2. w \in Mine(f) => <<f.state, High(w)>> \notin Active
    BY <1>1, <2>1, Unheard, Placement
  <2>3. Like(f, Free(f, w)) /\ Mine(Free(f, w)) = Mine(f) \ {w} /\ Free(f, w).own = f.own
    BY <1>0, <2>1, <2>2, FreeIs
  <2> QED BY <1>1, <2>3 DEF Like, SameBeside
<1>2. Safe(b)
  BY DEF Like, SameBeside
<1> HIDE DEF Safe
<1>3. Safe(f1) /\ Mine(f1) = Mine(b) \ {"dav"}
  BY <1>1, <1>2
<1> HIDE DEF f1
<1>4. Safe(f2) /\ Mine(f2) = Mine(f1) \ {"eoi"}
  BY <1>1, <1>3
<1> HIDE DEF f2
<1>5. Safe(f3) /\ Mine(f3) = Mine(f2) \ {"nrfd"}
  BY <1>1, <1>4
<1> HIDE DEF f3
<1>6. Safe(f4) /\ Mine(f4) = Mine(f3) \ {"ndac"}
  BY <1>1, <1>5
<1> HIDE DEF f4
<1>7. Mine(f4) = {}
  BY <1>0, <1>3, <1>4, <1>5, <1>6
<1>8. f4 \in BusState
  BY <1>6 DEF Safe, Like, SameBeside
<1>9. Like(f4, f5) /\ f5.data["emu"] = Idle /\ Mine(f5) = Mine(f4) /\ f5.own = f4.own
  BY <1>8, PutsIs
<1> HIDE DEF f5
<1>10. Safe(f5) /\ f5.data["emu"] = Idle /\ Mine(f5) = {} /\ f5 \in BusState
  BY <1>6, <1>7, <1>9 DEF Safe, Like, SameBeside
<1>11. Silent \in Status
  BY DEF Silent, Status
<1>12. x \in BusState
  BY <1>10, <1>11, BusKept
<1>13. /\ x.line = f5.line /\ x.data = f5.data /\ x.state = f5.state /\ x.trap = f5.trap
       /\ x.own = f5.own /\ x.par_status = Silent
  BY <1>10 DEF BusState
<1>14. ResetBus(b) = x
  BY DEF ResetBus, f5, f4, f3, f2, f1
<1> HIDE DEF x
<1>15. Mine(x) = Mine(f5)
  BY <1>13 DEF Mine
<1>16. SameBeside(b, x)
  BY <1>10, <1>12, <1>13 DEF Safe, Like, SameBeside
<1>17. x.state = b.state /\ x.trap = b.trap /\ x.own = b.own
  BY <1>10, <1>13 DEF Safe, Like
<1> QED BY <1>10, <1>13, <1>14, <1>15, <1>16, <1>17

(* The device has put the next byte of the channel on the bus.             *)
Sends(b, x) ==
  LET r == parallel_trap_receivebyte(b.trap, TRUE) IN
  /\ x.state = "Out1a" /\ x.trap = r.t /\ x.par_status = r.status /\ x.data["emu"] = r.byte
  /\ "dav" \in Mine(x) /\ ("eoi" \in Mine(x) <=> "eof" \in r.status.low)

(* The device starts to send a byte.                                       *)
LEMMA Out1_nrfdhiIs ==
  ASSUME NEW b \in BusState, TrapOK(b.trap), b.trap.device # Nobody,
         b.state \in {"OldPet", "Out1"}
  PROVE  LET x == Out1_nrfdhi(b) IN
         /\ SameBeside(b, x) /\ x.state = "Out1a"
         /\ TrapOK(x.trap) /\ x.trap.device = b.trap.device
         /\ x.par_status.role \in {"none", b.trap.device.role}
         /\ x.own = b.own /\ Mine(x) \subseteq Mine(b) \cup {"dav", "eoi"}
         /\ Sends(b, x) /\ Mine(b) \ {"eoi"} \subseteq Mine(x)
<1> DEFINE r == parallel_trap_receivebyte(b.trap, TRUE)
           y == Took(b, r)
           talks == Puts(y, r.byte)
           z == IF "eof" \in r.status.low THEN Pull(talks, "eoi") ELSE Free(talks, "eoi")
           d == Pull(z, "dav")
           x == Go(d, "Out1a")
<1>1. TrapOK(r.t) /\ r.t.device = b.trap.device /\ r.byte \in Nat /\ r.status \in Status
      /\ r.status.role \in {"none", b.trap.device.role}
  BY ReceivebyteIs
<1>0. r = parallel_trap_receivebyte(b.trap, TRUE)
  OBVIOUS
<1> HIDE DEF r
<1>2. /\ SameBeside(b, y) /\ y.state = b.state /\ y.par_status = r.status /\ y.trap = r.t
      /\ y.own = b.own /\ Mine(y) = Mine(b)
  BY <1>1, TookIs DEF TrapOK
<1>3. y \in BusState
  BY <1>2 DEF SameBeside
<1> HIDE DEF y
<1>4. Like(y, talks) /\ Mine(talks) = Mine(y) /\ talks.own = y.own /\ talks.data["emu"] = r.byte
  BY <1>1, <1>3, PutsIs
<1>5. talks \in BusState /\ talks.state = b.state
  BY <1>2, <1>4 DEF Like, SameBeside
<1> HIDE DEF talks
<1>6. /\ Like(talks, z) /\ z.own = talks.own /\ Mine(z) \subseteq Mine(talks) \cup {"eoi"}
      /\ z.data = talks.data /\ ("eoi" \in Mine(z) <=> "eof" \in r.status.low)
      /\ Mine(talks) \ {"eoi"} \subseteq Mine(z)
  <2>1. "eoi" \in Wires /\ <<talks.state, High("eoi")>> \notin Active
        /\ <<talks.state, Low("eoi")>> \notin Active
    BY <1>5, Unheard, Placement DEF Wires
  <2>2. /\ Like(talks, Pull(talks, "eoi")) /\ Pull(talks, "eoi").own = talks.own
        /\ Mine(Pull(talks, "eoi")) = Mine(talks) \cup {"eoi"}
        /\ Pull(talks, "eoi").data = talks.data
    BY <1>5, <2>1, PullIs
  <2>3. /\ Like(talks, Free(talks, "eoi")) /\ Free(talks, "eoi").own = talks.own
        /\ Mine(Free(talks, "eoi")) = Mine(talks) \ {"eoi"}
        /\ Free(talks, "eoi").data = talks.data
    BY <1>5, <2>1, FreeIs
  <2> QED BY <2>2, <2>3
<1>7. z \in BusState /\ z.state = b.state
  BY <1>5, <1>6 DEF Like, SameBeside
<1> HIDE DEF z
<1>8. Like(z, d) /\ d.own = z.own /\ Mine(d) = Mine(z) \cup {"dav"} /\ d.data = z.data
  <2>1. "dav" \in Wires /\ <<z.state, Low("dav")>> \notin Active
    BY <1>7, Unheard, Placement DEF Wires
  <2> QED BY <1>7, <2>1, PullIs
<1>9. d \in BusState
  BY <1>8 DEF Like, SameBeside
<1> HIDE DEF d
<1>10. /\ SameBeside(d, x) /\ x.state = "Out1a" /\ x.par_status = d.par_status /\ x.trap = d.trap
       /\ x.own = d.own /\ Mine(x) = Mine(d) /\ x.data = d.data
  BY <1>9, GoIs DEF DeviceState
<1>11. Out1_nrfdhi(b) = x
  BY DEF Out1_nrfdhi, d, z, talks, y, r
<1> HIDE DEF x
<1>12. SameBeside(b, x)
  BY <1>2, <1>4, <1>6, <1>8, <1>10, SameBesideTwice DEF Like
<1>13. x.trap = r.t /\ x.par_status = r.status /\ x.own = b.own
  BY <1>2, <1>4, <1>6, <1>8, <1>10 DEF Like
<1>14. Mine(x) \subseteq Mine(b) \cup {"dav", "eoi"} /\ Mine(b) \ {"eoi"} \subseteq Mine(x)
  BY <1>2, <1>4, <1>6, <1>8, <1>10
<1>15. Sends(b, x)
  <2>1. x.data["emu"] = r.byte
    BY <1>4, <1>6, <1>8, <1>10
  <2>2. "dav" \in Mine(x) /\ ("eoi" \in Mine(x) <=> "eof" \in r.status.low)
    BY <1>6, <1>8, <1>10
  <2> QED BY <1>0, <1>10, <1>13, <2>1, <2>2 DEF Sends
<1> QED BY <1>1, <1>10, <1>11, <1>12, <1>13, <1>14, <1>15

(* NDAC comes before the machine holds NRFD, or with it.                   *)
LEMMA OPet_ndacloIs ==
  ASSUME NEW b \in BusState, TrapOK(b.trap), b.trap.device # Nobody,
         b.state = "OldPet" \/ Pulled(b, "nrfd")
  PROVE  LET x == OPet_ndaclo(b) IN
         /\ SameBeside(b, x) /\ x.own = b.own
         /\ TrapOK(x.trap) /\ x.trap.device = b.trap.device
         /\ x.par_status.role \in {"none", b.trap.device.role, b.par_status.role}
         /\ \/ x.state = "Out1" /\ Mine(x) = Mine(b) /\ x.data = b.data
            \/ x.state = "Out1a" /\ Mine(x) \subseteq Mine(b) \cup {"dav", "eoi"}
         /\ Mine(b) \ {"eoi"} \subseteq Mine(x)
         /\ IF Pulled(b, "nrfd") THEN x.state = "Out1" /\ x.trap = b.trap ELSE Sends(b, x)
<1>1. CASE Pulled(b, "nrfd")
  <2>1. OPet_ndaclo(b) = Go(b, "Out1")
    BY <1>1 DEF OPet_ndaclo
  <2> QED BY <1>1, <2>1, GoIs DEF DeviceState
<1>2. CASE ~Pulled(b, "nrfd")
  <2>1. OPet_ndaclo(b) = Out1_nrfdhi(b) /\ b.state = "OldPet"
    BY <1>2 DEF OPet_ndaclo
  <2> QED BY <1>2, <2>1, Out1_nrfdhiIs
<1> QED BY <1>1, <1>2

HeardOwnNdac == {<<"OldPet", Low("ndac")>>}

(* What a handler leaves behind.                                           *)
Answered(b, x) == BusOK(x) /\ SameBeside(b, x) /\ x.own \subseteq HeardOwnNdac

(* A talker is addressed, in the trap layer too.                           *)
LEMMA TalkerAddressed ==
  ASSUME NEW b, BusOK(b)
  PROVE  /\ b \in BusState /\ TrapOK(b.trap) /\ b.trap \in TrapState /\ b.state \in DeviceState
         /\ b.par_status \in Status
         /\ b.state \in Talks => b.trap.device # Nobody
         /\ b.par_status.role = "talk" => b.trap.device # Nobody
<1>1. b \in BusState /\ TrapOK(b.trap) /\ b.trap \in TrapState /\ b.state \in DeviceState
      /\ b.par_status \in Status
  BY DEF BusOK, BusState, TrapOK
<1>2. b.trap.device.role = "talk" => b.trap.device # Nobody
  BY <1>1, Addressee
<1> QED BY <1>1, <1>2 DEF BusOK

(* The channel may have been asked for its next byte when ATN fell.        *)
AtMostAsks(b, x) ==
  x.trap = b.trap \/ (b.state = "OldPet" /\ x.trap = parallel_trap_receivebyte(b.trap, TRUE).t)

(* NDAC, pulled when ATN falls, and the one handler that this runs.        *)
LEMMA PullNdacIs ==
  ASSUME NEW b, BusOK(b), b.own = {}
  PROVE  LET q == PullNdac(b) IN
         /\ SameBeside(b, q) /\ q.own \subseteq HeardOwnNdac
         /\ TrapOK(q.trap) /\ q.trap.device = b.trap.device
         /\ q.par_status.role = "talk" => b.trap.device.role = "talk"
         /\ \/ q.state = b.state /\ Mine(q) = Mine(b) \cup {"ndac"}
            \/ q.state \in {"Out1", "Out1a"} /\ Mine(q) \subseteq {"ndac", "dav", "eoi"}
         /\ "ndac" \in Mine(q) /\ AtMostAsks(b, q)
<1> DEFINE p == Pull(b, "ndac")
<1>0. b \in BusState /\ TrapOK(b.trap) /\ b.state \in DeviceState
  BY TalkerAddressed
<1>1. /\ Like(b, p) /\ Mine(p) = Mine(b) \cup {"ndac"}
      /\ p.own = IF Pulled(b, "ndac") \/ <<b.state, Low("ndac")>> \notin Active THEN b.own
                 ELSE b.own \cup {<<b.state, Low("ndac")>>}
  BY <1>0, PullIs DEF Wires
<1>2. PullNdac(b) = IF <<"OldPet", Low("ndac")>> \in p.own THEN OPet_ndaclo(p) ELSE p
  BY DEF PullNdac
<1> HIDE DEF p
<1>3. p \in BusState /\ p.state = b.state /\ p.trap = b.trap /\ p.par_status = b.par_status
      /\ SameBeside(b, p)
  BY <1>1 DEF Like, SameBeside
<1>4. CASE b.state = "OldPet"
  <2>1. p.own \subseteq HeardOwnNdac
    BY <1>1, <1>4 DEF HeardOwnNdac
  <2>2. CASE <<"OldPet", Low("ndac")>> \in p.own
    <3> DEFINE q == OPet_ndaclo(p)
    <3>1. p.trap.device # Nobody /\ TrapOK(p.trap)
      BY <1>0, <1>3, <1>4, TalkerAddressed DEF Talks
    <3>2. /\ SameBeside(p, q) /\ q.own = p.own
          /\ TrapOK(q.trap) /\ q.trap.device = p.trap.device
          /\ q.par_status.role \in {"none", p.trap.device.role, p.par_status.role}
          /\ \/ q.state = "Out1" /\ Mine(q) = Mine(p) /\ q.data = p.data
             \/ q.state = "Out1a" /\ Mine(q) \subseteq Mine(p) \cup {"dav", "eoi"}
          /\ Mine(p) \ {"eoi"} \subseteq Mine(q)
          /\ IF Pulled(p, "nrfd") THEN q.state = "Out1" /\ q.trap = p.trap ELSE Sends(p, q)
      BY <1>3, <1>4, <3>1, OPet_ndacloIs
    <3>3. PullNdac(b) = q
      BY <1>2, <2>2
    <3> HIDE DEF q
    <3>4. Mine(b) = {}
      BY <1>4 DEF BusOK, Placed, MayPull
    <3>5. Mine(q) \subseteq {"ndac", "dav", "eoi"} /\ q.state \in {"Out1", "Out1a"}
      BY <1>1, <3>2, <3>4
    <3>6. SameBeside(b, q)
      BY <1>3, <3>2, SameBesideTwice
    <3>7. q.par_status.role = "talk" => b.trap.device.role = "talk"
      BY <1>3, <3>2 DEF BusOK
    <3>8. "ndac" \in Mine(q) /\ AtMostAsks(b, q)
      BY <1>1, <1>3, <1>4, <3>2 DEF AtMostAsks, Sends
    <3> QED BY <1>3, <2>1, <3>2, <3>3, <3>5, <3>6, <3>7, <3>8
  <2>3. CASE <<"OldPet", Low("ndac")>> \notin p.own
    <3>1. PullNdac(b) = p
      BY <1>2, <2>3
    <3> QED BY <1>0, <1>1, <1>3, <2>1, <3>1 DEF BusOK, AtMostAsks
  <2> QED BY <2>2, <2>3
<1>5. CASE b.state # "OldPet"
  <2>1. p.own = {}
    BY <1>0, <1>1, <1>5, Unheard
  <2>2. PullNdac(b) = p
    BY <1>2, <2>1
  <2> QED BY <1>0, <1>1, <1>3, <2>1, <2>2 DEF BusOK, AtMostAsks
<1> QED BY <1>4, <1>5

(* ATN falls: the device lets go of whatever it was doing.                 *)
LEMMA WATN_atnloIs ==
  ASSUME NEW b, BusOK(b), b.own = {}
  PROVE  LET x == WATN_atnlo(b) IN
         /\ Answered(b, x) /\ x.state = "In1" /\ x.trap.device = b.trap.device
         /\ "ndac" \in Mine(x) /\ AtMostAsks(b, x)
<1> DEFINE q == PullNdac(b)
           f1 == Free(q, "dav")
           f2 == Free(f1, "eoi")
           f3 == Puts(f2, Idle)
           f4 == Free(f3, "nrfd")
           x == Go(f4, "In1")
           Safe(f) == /\ SameBeside(b, f) /\ f.own \subseteq HeardOwnNdac
                      /\ f.trap = q.trap /\ f.par_status = q.par_status /\ f.state = q.state
                      /\ Mine(f) \subseteq Mine(q)
<1>0. WATN_atnlo(b) = x
  BY DEF WATN_atnlo
<1>1. /\ SameBeside(b, q) /\ q.own \subseteq HeardOwnNdac
      /\ TrapOK(q.trap) /\ q.trap.device = b.trap.device
      /\ q.par_status.role = "talk" => b.trap.device.role = "talk"
      /\ \/ q.state = b.state /\ Mine(q) = Mine(b) \cup {"ndac"}
         \/ q.state \in {"Out1", "Out1a"} /\ Mine(q) \subseteq {"ndac", "dav", "eoi"}
      /\ "ndac" \in Mine(q) /\ AtMostAsks(b, q)
  BY PullNdacIs
<1> HIDE DEF q
<1>2. Safe(q)
  BY <1>1
<1>3. /\ "dav" \in Mine(q) => q.state # "In2"
      /\ "nrfd" \in Mine(q) => q.state # "Out1"
      /\ Mine(q) \subseteq {"dav", "eoi", "nrfd", "ndac"}
  <2>1. Mine(b) \subseteq MayPull(b.state)
    BY DEF BusOK, Placed
  <2> QED BY <1>1, <2>1 DEF MayPull
<1>4. \A s : /\ s # "In2" => <<s, High("dav")>> \notin Active
             /\ s # "Out1" => <<s, High("nrfd")>> \notin Active
             /\ <<s, High("eoi")>> \notin Active
  BY DEF Active, High
<1>5. ASSUME NEW f, Safe(f), NEW w \in {"dav", "eoi", "nrfd"}
      PROVE  Safe(Free(f, w)) /\ Mine(Free(f, w)) = Mine(f) \ {w} /\ Free(f, w).data = f.data
  <2>1. f \in BusState /\ f.state = q.state /\ w \in Wires
    BY <1>5 DEF SameBeside, Wires
  <2>2. w \in Mine(f) => <<f.state, High(w)>> \notin Active
    BY <1>3, <1>4, <1>5, <2>1
  <2>3. Like(f, Free(f, w)) /\ Mine(Free(f, w)) = Mine(f) \ {w} /\ Free(f, w).own = f.own
        /\ Free(f, w).data = f.data
    BY <2>1, <2>2, FreeIs
  <2>4. SameBeside(b, Free(f, w))
    BY <1>5, <2>3, SameBesideTwice DEF Like
  <2> QED BY <1>5, <2>3, <2>4 DEF Like
<1> HIDE DEF Safe
<1>6. Safe(f1) /\ Mine(f1) = Mine(q) \ {"dav"}
  BY <1>2, <1>5
<1> HIDE DEF f1
<1>7. Safe(f2) /\ Mine(f2) = Mine(f1) \ {"eoi"}
  BY <1>5, <1>6
<1> HIDE DEF f2
<1>8. Safe(f3) /\ Mine(f3) = Mine(f2) /\ f3.data["emu"] = Idle
  <2>1. f2 \in BusState
    BY <1>7 DEF Safe, SameBeside
  <2>2. Like(f2, f3) /\ f3.data["emu"] = Idle /\ Mine(f3) = Mine(f2) /\ f3.own = f2.own
    BY <2>1, PutsIs
  <2>3. SameBeside(b, f3)
    BY <1>7, <2>2, SameBesideTwice DEF Like, Safe
  <2> QED BY <1>7, <2>2, <2>3 DEF Like, Safe
<1> HIDE DEF f3
<1>9. Safe(f4) /\ Mine(f4) = Mine(f3) \ {"nrfd"} /\ f4.data["emu"] = Idle
  BY <1>5, <1>8
<1> HIDE DEF f4
<1>10. f4 \in BusState
  BY <1>9 DEF Safe, SameBeside
<1>11. /\ SameBeside(f4, x) /\ x.state = "In1" /\ x.par_status = f4.par_status /\ x.trap = f4.trap
       /\ x.data = f4.data /\ x.own = f4.own /\ Mine(x) = Mine(f4)
  BY <1>10, GoIs DEF DeviceState
<1> HIDE DEF x
<1>12. Mine(x) \subseteq {"ndac"} /\ "ndac" \in Mine(x)
  BY <1>1, <1>3, <1>6, <1>7, <1>8, <1>9, <1>11
<1>13. SameBeside(b, x)
  BY <1>9, <1>11, SameBesideTwice DEF Safe
<1>14. TrapOK(x.trap) /\ x.trap.device = b.trap.device
       /\ (x.par_status.role = "talk" => x.trap.device.role = "talk")
       /\ x.own \subseteq HeardOwnNdac
  BY <1>1, <1>9, <1>11 DEF Safe
<1>15. Placed(x)
  BY <1>9, <1>11, <1>12 DEF Placed, MayPull
<1>16. BusOK(x)
  BY <1>11, <1>13, <1>14, <1>15 DEF BusOK, SameBeside, Talks
<1>17. AtMostAsks(b, x)
  BY <1>1, <1>9, <1>11 DEF Safe, AtMostAsks
<1> QED BY <1>0, <1>11, <1>12, <1>13, <1>14, <1>16, <1>17 DEF Answered

(* The device lets go of the bus, and has nothing more to do.              *)
LEMMA LetsGo ==
  ASSUME NEW b, BusOK(b), b.own = {}
  PROVE  LET x == Go(ResetBus(b), "WaitATN") IN
         Answered(b, x) /\ x.state = "WaitATN" /\ x.trap = b.trap
<1> DEFINE r == ResetBus(b)
           x == Go(r, "WaitATN")
<1>0. b \in BusState /\ TrapOK(b.trap) /\ Mine(b) \subseteq MayPull(b.state)
  BY TalkerAddressed DEF BusOK, Placed
<1>1. /\ SameBeside(b, r) /\ r.trap = b.trap /\ r.par_status = Silent
      /\ r.own = b.own /\ r.data["emu"] = Idle /\ Mine(r) = {}
  BY <1>0, ResetBusIs
<1> HIDE DEF r
<1>2. /\ SameBeside(r, x) /\ x.state = "WaitATN" /\ x.par_status = r.par_status /\ x.trap = r.trap
      /\ x.data = r.data /\ x.own = r.own /\ Mine(x) = Mine(r)
  BY <1>1, GoIs DEF DeviceState, SameBeside
<1> HIDE DEF x
<1>3. SameBeside(b, x)
  BY <1>1, <1>2, SameBesideTwice
<1>4. BusOK(x)
  BY <1>0, <1>1, <1>2, <1>3 DEF BusOK, Placed, SameBeside, Silent, Talks
<1> QED BY <1>1, <1>2, <1>3, <1>4 DEF Answered, r, x

(* What the device does does not show: neither in its place nor on the bus. *)
Still(b, x) ==
  /\ x.state = b.state /\ x.trap = b.trap /\ x.par_status = b.par_status
  /\ x.data["emu"] = b.data["emu"] /\ Mine(x) = Mine(b)

(* After the commands a listener listens on, a talker waits for the wires  *)
(* that the machine has still to pull, and others let go.                  *)
TurnsRound(b, x) ==
  /\ x.trap = b.trap
  /\ IF b.par_status.low = {} /\ b.par_status.role = "listen" THEN Still(b, x)
     ELSE IF b.par_status.low = {} /\ b.par_status.role = "talk"
     THEN IF b.line["ndac"] \ {"emu"} = {} THEN x.state = "OldPet"
          ELSE x.state = "Out1" /\ b.line["nrfd"] \ {"emu"} # {}
     ELSE x.state = "WaitATN"

(* ATN rises after the commands.                                           *)
LEMMA In1_atnhiIs ==
  ASSUME NEW b, BusOK(b), b.own = {}, b.state = "In1",
         b.par_status.role = "talk" =>
           (b.line["ndac"] \ {"emu"} # {} => b.line["nrfd"] \ {"emu"} # {})
  PROVE  LET x == In1_atnhi(b) IN
         /\ Answered(b, x) /\ TurnsRound(b, x)
         /\ b.par_status.role # "talk" => x.state \notin Talks
<1> DEFINE r == ResetBus(b)
<1>0. b \in BusState /\ TrapOK(b.trap) /\ Mine(b) \subseteq MayPull(b.state)
  BY TalkerAddressed DEF BusOK, Placed
<1>1. /\ SameBeside(b, r) /\ r.state = "In1" /\ r.trap = b.trap /\ r.par_status = Silent
      /\ r.own = b.own /\ r.data["emu"] = Idle /\ Mine(r) = {}
  BY <1>0, ResetBusIs
<1>2. CASE b.par_status.low = {} /\ b.par_status.role = "listen"
  <2> DEFINE x == Go(b, "In1")
  <2>1. In1_atnhi(b) = x
    BY <1>2 DEF In1_atnhi
  <2>2. /\ SameBeside(b, x) /\ x.state = "In1" /\ x.par_status = b.par_status /\ x.trap = b.trap
        /\ x.data = b.data /\ x.own = b.own /\ Mine(x) = Mine(b)
    BY <1>0, GoIs DEF DeviceState
  <2> HIDE DEF x
  <2>3. BusOK(x)
    BY <2>2 DEF BusOK, Placed, SameBeside
  <2>4. TurnsRound(b, x)
    BY <1>2, <2>2 DEF TurnsRound, Still
  <2> QED BY <2>1, <2>2, <2>3, <2>4 DEF Answered, Talks
<1>3. CASE b.par_status.low = {} /\ b.par_status.role = "talk"
  <2>0. b.trap.device.role = "talk" /\ b.trap.device # Nobody
    BY <1>3, TalkerAddressed DEF BusOK
  <2>1. In1_atnhi(b) = IF Pulled(r, "ndac") THEN OPet_ndaclo(r) ELSE Go(r, "OldPet")
    BY <1>3 DEF In1_atnhi
  <2> HIDE DEF r
  <2>r. r \in BusState /\ "ndac" \in Wires /\ "nrfd" \in Wires
    BY <1>1 DEF SameBeside, Wires
  <2>2. CASE Pulled(r, "ndac")
    <3> DEFINE x == OPet_ndaclo(r)
    <3>1. r.line["ndac"] \ {"emu"} # {}
      BY <1>1, <2>2, <2>r DEF Pulled, Mine
    <3>2. Pulled(r, "nrfd")
      BY <1>1, <1>3, <2>r, <3>1 DEF SameBeside, Pulled
    <3>3. Go(r, "Out1") = x
      BY <3>2 DEF OPet_ndaclo
    <3>4. /\ SameBeside(r, x) /\ x.state = "Out1" /\ x.par_status = r.par_status /\ x.trap = r.trap
          /\ x.data = r.data /\ x.own = r.own /\ Mine(x) = Mine(r)
      BY <2>r, <3>3, GoIs DEF DeviceState
    <3>5. In1_atnhi(b) = x
      BY <2>1, <2>2
    <3> HIDE DEF x
    <3>6. SameBeside(b, x)
      BY <1>1, <3>4, SameBesideTwice
    <3>7. BusOK(x)
      BY <1>0, <1>1, <2>0, <3>4, <3>6 DEF BusOK, Placed, SameBeside, Silent
    <3>8. b.line["ndac"] \ {"emu"} # {} /\ b.line["nrfd"] \ {"emu"} # {}
      BY <1>1, <1>3, <2>r, <3>1 DEF SameBeside
    <3>9. TurnsRound(b, x)
      BY <1>1, <1>3, <3>4, <3>8 DEF TurnsRound
    <3> QED BY <1>1, <1>3, <3>4, <3>5, <3>6, <3>7, <3>9 DEF Answered
  <2>3. CASE ~Pulled(r, "ndac")
    <3> DEFINE x == Go(r, "OldPet")
    <3>4. /\ SameBeside(r, x) /\ x.state = "OldPet" /\ x.par_status = r.par_status /\ x.trap = r.trap
          /\ x.data = r.data /\ x.own = r.own /\ Mine(x) = Mine(r)
      BY <2>r, GoIs DEF DeviceState
    <3>5. In1_atnhi(b) = x
      BY <2>1, <2>3
    <3> HIDE DEF x
    <3>6. SameBeside(b, x)
      BY <1>1, <3>4, SameBesideTwice
    <3>7. BusOK(x)
      BY <1>0, <1>1, <2>0, <3>4, <3>6 DEF BusOK, Placed, SameBeside, Silent
    <3>8. b.line["ndac"] \ {"emu"} = {}
      BY <1>1, <2>3, <2>r DEF SameBeside, Pulled
    <3>9. TurnsRound(b, x)
      BY <1>1, <1>3, <3>4, <3>8 DEF TurnsRound
    <3> QED BY <1>1, <1>3, <3>4, <3>5, <3>6, <3>7, <3>9 DEF Answered
  <2> QED BY <2>2, <2>3
<1>4. CASE /\ ~(b.par_status.low = {} /\ b.par_status.role = "listen")
           /\ ~(b.par_status.low = {} /\ b.par_status.role = "talk")
  <2>1. In1_atnhi(b) = Go(ResetBus(b), "WaitATN")
    BY <1>4 DEF In1_atnhi
  <2> HIDE DEF r
  <2>2. Answered(b, In1_atnhi(b)) /\ In1_atnhi(b).state = "WaitATN"
        /\ In1_atnhi(b).trap = b.trap
    BY <2>1, LetsGo
  <2> QED BY <1>4, <2>2 DEF Talks, TurnsRound
<1> QED BY <1>2, <1>3, <1>4

(* The byte has been taken away.                                           *)
LEMMA In2_davhiIs ==
  ASSUME NEW b, BusOK(b), b.own = {}, b.state = "In2"
  PROVE  LET x == In2_davhi(b) IN
         /\ Answered(b, x) /\ x.trap = b.trap /\ x.state = "In1"
         /\ x.par_status = b.par_status /\ "ndac" \in Mine(x)
<1> DEFINE p == Pull(b, "ndac")
           f == Free(p, "nrfd")
           x == Go(f, "In1")
<1>0. b \in BusState /\ TrapOK(b.trap) /\ Mine(b) \subseteq {"nrfd"} /\ b.data["emu"] = Idle
      /\ "ndac" \in Wires /\ "nrfd" \in Wires
  BY TalkerAddressed DEF BusOK, Placed, MayPull, Wires
<1>1. <<"In2", Low("ndac")>> \notin Active /\ <<"In2", High("nrfd")>> \notin Active
  BY DEF Active, Low, High
<1>2. Like(b, p) /\ p.data = b.data /\ Mine(p) = Mine(b) \cup {"ndac"} /\ p.own = b.own
  BY <1>0, <1>1, PullIs
<1> HIDE DEF p
<1>3. p \in BusState /\ p.state = "In2"
  BY <1>2 DEF Like, SameBeside
<1>4. Like(p, f) /\ f.data = p.data /\ Mine(f) = Mine(p) \ {"nrfd"} /\ f.own = p.own
  BY <1>0, <1>1, <1>3, FreeIs
<1> HIDE DEF f
<1>5. f \in BusState
  BY <1>4 DEF Like, SameBeside
<1>6. /\ SameBeside(f, x) /\ x.state = "In1" /\ x.par_status = f.par_status /\ x.trap = f.trap
      /\ x.data = f.data /\ x.own = f.own /\ Mine(x) = Mine(f)
  BY <1>5, GoIs DEF DeviceState
<1> HIDE DEF x
<1>7. SameBeside(b, x) /\ x.trap = b.trap /\ x.par_status = b.par_status /\ x.own = {}
  BY <1>2, <1>4, <1>6, SameBesideTwice DEF Like
<1>8. Placed(x) /\ "ndac" \in Mine(x)
  BY <1>0, <1>2, <1>4, <1>6 DEF Placed, MayPull
<1>9. BusOK(x)
  BY <1>0, <1>6, <1>7, <1>8 DEF BusOK, SameBeside, Talks
<1>10. In2_davhi(b) = x
  BY DEF In2_davhi, x, f, p
<1> QED BY <1>6, <1>7, <1>8, <1>9, <1>10 DEF Answered

(* The byte is gone: the device goes on, or that was the last one.         *)
GoesOn(b, x) ==
  LET r == parallel_trap_receivebyte(b.trap, FALSE) IN
  /\ x.trap = r.t
  /\ x.state = IF r.status.low = {} THEN "Out1" ELSE "WaitATN"

(* The listener has taken the device's byte.                               *)
LEMMA Out2_ndachiIs ==
  ASSUME NEW b, BusOK(b), b.own = {}, b.state = "Out2"
  PROVE  LET x == Out2_ndachi(b) IN
         /\ Answered(b, x) /\ x.trap.device = b.trap.device /\ GoesOn(b, x)
<1> DEFINE f1 == Free(b, "dav")
           f2 == Free(f1, "eoi")
           f3 == Puts(f2, Idle)
           r == parallel_trap_receivebyte(f3.trap, FALSE)
           y == Took(f3, r)
           x == Out2_ndachi(b)
<1>0. b \in BusState /\ TrapOK(b.trap) /\ Mine(b) \subseteq {"dav", "eoi"}
      /\ b.trap.device # Nobody /\ b.trap.device.role = "talk"
      /\ "dav" \in Wires /\ "eoi" \in Wires
  BY TalkerAddressed DEF BusOK, Placed, MayPull, Wires, Talks
<1>1. <<"Out2", High("dav")>> \notin Active /\ <<"Out2", High("eoi")>> \notin Active
  BY DEF Active, High
<1>2. Like(b, f1) /\ Mine(f1) = Mine(b) \ {"dav"} /\ f1.own = b.own
  BY <1>0, <1>1, FreeIs
<1>x. x = IF y.par_status.low = {} THEN Go(y, "Out1") ELSE Go(ResetBus(y), "WaitATN")
  BY DEF Out2_ndachi
<1> HIDE DEF f1
<1>3. f1 \in BusState /\ f1.state = "Out2"
  BY <1>2 DEF Like, SameBeside
<1>4. Like(f1, f2) /\ Mine(f2) = Mine(f1) \ {"eoi"} /\ f2.own = f1.own
  BY <1>0, <1>1, <1>3, FreeIs
<1> HIDE DEF f2
<1>5. f2 \in BusState
  BY <1>4 DEF Like, SameBeside
<1>6. Like(f2, f3) /\ f3.data["emu"] = Idle /\ Mine(f3) = Mine(f2) /\ f3.own = f2.own
  BY <1>5, PutsIs
<1> HIDE DEF f3
<1>7. f3 \in BusState /\ f3.state = "Out2" /\ f3.trap = b.trap /\ Mine(f3) = {}
      /\ SameBeside(b, f3) /\ f3.own = {}
  <2>1. f3 \in BusState
    BY <1>6 DEF Like, SameBeside
  <2>2. f3.state = "Out2" /\ f3.trap = b.trap /\ f3.own = {}
    BY <1>2, <1>3, <1>4, <1>6 DEF Like
  <2>3. Mine(f3) = {}
    BY <1>0, <1>2, <1>4, <1>6
  <2>4. SameBeside(b, f3)
    BY <1>2, <1>4, <1>6, SameBesideTwice DEF Like
  <2> QED BY <2>1, <2>2, <2>3, <2>4
<1>8. TrapOK(r.t) /\ r.t.device = b.trap.device /\ r.status \in Status
      /\ r.status.role \in {"none", b.trap.device.role}
  BY <1>0, <1>7, ReceivebyteIs
<1> HIDE DEF r
<1>9. /\ SameBeside(f3, y) /\ y.state = "Out2" /\ y.par_status = r.status /\ y.trap = r.t
      /\ y.data = f3.data /\ Mine(y) = {} /\ y.own = {}
  BY <1>7, <1>8, TookIs DEF TrapOK
<1> HIDE DEF y
<1>10. SameBeside(b, y) /\ y \in BusState
  BY <1>7, <1>9, SameBesideTwice DEF SameBeside
<1>11. BusOK(y)
  BY <1>0, <1>6, <1>8, <1>9, <1>10 DEF BusOK, Placed
<1>r. r = parallel_trap_receivebyte(b.trap, FALSE)
  BY <1>7 DEF r
<1>12. CASE y.par_status.low = {}
  <2> HIDE DEF x
  <2>1. x = Go(y, "Out1")
    BY <1>12, <1>x
  <2>2. /\ SameBeside(y, x) /\ x.state = "Out1" /\ x.par_status = y.par_status /\ x.trap = y.trap
        /\ x.data = y.data /\ x.own = y.own /\ Mine(x) = Mine(y)
    BY <1>10, <2>1, GoIs DEF DeviceState
  <2>3. SameBeside(b, x)
    BY <1>10, <2>2, SameBesideTwice
  <2>4. BusOK(x)
    BY <1>0, <1>6, <1>8, <1>9, <2>2, <2>3 DEF BusOK, Placed, SameBeside
  <2>5. GoesOn(b, x)
    BY <1>9, <1>12, <1>r, <2>2 DEF GoesOn
  <2> QED BY <1>8, <1>9, <2>2, <2>3, <2>4, <2>5 DEF Answered, x
<1>13. CASE y.par_status.low # {}
  <2> HIDE DEF x
  <2>1. x = Go(ResetBus(y), "WaitATN")
    BY <1>13, <1>x
  <2>2. Answered(y, x) /\ x.state = "WaitATN" /\ x.trap = y.trap
    BY <1>9, <1>11, <2>1, LetsGo
  <2>3. SameBeside(b, x)
    BY <1>10, <2>2, SameBesideTwice DEF Answered
  <2>4. GoesOn(b, x)
    BY <1>9, <1>13, <1>r, <2>2 DEF GoesOn
  <2> QED BY <1>8, <1>9, <2>2, <2>3, <2>4 DEF Answered, x
<1> QED BY <1>12, <1>13

(* The byte that the machine shows is dealt with by the trap layer.        *)
Heeds(b, x) ==
  LET r == IF Pulled(b, "atn") THEN parallel_trap_attention(b.trap, b.data["cpu"])
           ELSE parallel_trap_sendbyte(b.trap, b.data["cpu"]) IN
  x.trap = r.t /\ x.par_status = r.status

(* A byte comes: it is a command, or data for the listener.                *)
LEMMA In1_davloIs ==
  ASSUME NEW b, BusOK(b), b.own = {}, b.state = "In1",
         Pulled(b, "atn") =>
           /\ b.data["cpu"] \in CommandByte
           /\ b.data["cpu"].kind \in {"second", "open", "close"} => b.trap.device # Nobody,
         ~Pulled(b, "atn") => b.data["cpu"] \in Nat
  PROVE  LET x == In1_davlo(b)
             byte == b.data["cpu"] IN
         /\ Answered(b, x) /\ x.state = "In2"
         /\ Pulled(b, "atn") =>
              /\ x.trap.device = IF Addressing(byte) THEN [role |-> byte.kind, device |-> byte.device]
                                 ELSE IF Ending(byte) THEN Nobody ELSE b.trap.device
              /\ x.par_status.role = x.trap.device.role
         /\ ~Pulled(b, "atn") => x.trap.device = b.trap.device
         /\ Heeds(b, x)
<1> DEFINE p == Pull(b, "nrfd")
           f == Free(p, "ndac")
           byte == b.data["cpu"]
           r == IF Pulled(b, "atn") THEN parallel_trap_attention(f.trap, byte)
                ELSE parallel_trap_sendbyte(f.trap, byte)
           y == Took(f, r)
           x == Go(y, "In2")
<1>0. b \in BusState /\ TrapOK(b.trap) /\ Mine(b) \subseteq {"ndac"} /\ b.data["emu"] = Idle
      /\ "ndac" \in Wires /\ "nrfd" \in Wires /\ "In2" \in DeviceState
  BY TalkerAddressed DEF BusOK, Placed, MayPull, Wires, DeviceState
<1>1. <<"In1", Low("nrfd")>> \notin Active /\ <<"In1", High("ndac")>> \notin Active
  BY DEF Active, Low, High
<1>2. Like(b, p) /\ p.data = b.data /\ Mine(p) = Mine(b) \cup {"nrfd"} /\ p.own = b.own
  BY <1>0, <1>1, PullIs
<1>3. byte # Idle /\ Byte(b) = byte
  BY IdleAssumption DEF Byte
<1>x. In1_davlo(b) = x
  BY <1>3 DEF In1_davlo
<1> HIDE DEF p
<1>4. p \in BusState /\ p.state = "In1"
  BY <1>2 DEF Like, SameBeside
<1>5. Like(p, f) /\ f.data = p.data /\ Mine(f) = Mine(p) \ {"ndac"} /\ f.own = p.own
  BY <1>0, <1>1, <1>4, FreeIs
<1> HIDE DEF f
<1>6. f \in BusState /\ f.trap = b.trap /\ f.data = b.data /\ Mine(f) = {"nrfd"} /\ f.own = {}
      /\ SameBeside(b, f)
  <2>1. f \in BusState /\ f.trap = b.trap
    BY <1>2, <1>5 DEF Like, SameBeside
  <2>2. Mine(f) = {"nrfd"}
    BY <1>0, <1>2, <1>5
  <2>3. SameBeside(b, f)
    BY <1>2, <1>5, SameBesideTwice DEF Like
  <2> QED BY <1>2, <1>5, <2>1, <2>2, <2>3
<1> HIDE DEF byte
<1>7. /\ TrapOK(r.t) /\ r.status \in Status
      /\ Pulled(b, "atn") =>
           /\ r.t.device = IF Addressing(byte) THEN [role |-> byte.kind, device |-> byte.device]
                           ELSE IF Ending(byte) THEN Nobody ELSE b.trap.device
           /\ r.status.role = r.t.device.role
      /\ ~Pulled(b, "atn") => r.t.device = b.trap.device
      /\ r.status.role = "talk" => r.t.device.role = "talk"
      /\ r = IF Pulled(b, "atn") THEN parallel_trap_attention(b.trap, byte)
             ELSE parallel_trap_sendbyte(b.trap, byte)
  <2>1. CASE Pulled(b, "atn")
    <3>1. r = parallel_trap_attention(b.trap, byte)
      BY <1>6, <2>1
    <3>2. byte \in CommandByte /\ (byte.kind \in {"second", "open", "close"} => b.trap.device # Nobody)
      BY <2>1 DEF byte
    <3> HIDE DEF r
    <3> QED BY <1>0, <2>1, <3>1, <3>2, AttentionIs
  <2>2. CASE ~Pulled(b, "atn")
    <3>1. r = parallel_trap_sendbyte(b.trap, byte)
      BY <1>6, <2>2
    <3>2. byte \in Nat
      BY <2>2 DEF byte
    <3> HIDE DEF r
    <3>3. TrapOK(r.t) /\ r.t.device = b.trap.device
          /\ r.status \in Status /\ r.status.role \in {"none", b.trap.device.role}
      BY <1>0, <3>1, <3>2, SendbyteIs
    <3> QED BY <2>2, <3>1, <3>3
  <2> QED BY <2>1, <2>2
<1> HIDE DEF r
<1>8. /\ SameBeside(f, y) /\ y.par_status = r.status /\ y.trap = r.t
      /\ y.data = f.data /\ Mine(y) = {"nrfd"} /\ y.own = {}
  BY <1>6, <1>7, TookIs DEF TrapOK
<1> HIDE DEF y
<1>9. /\ SameBeside(y, x) /\ x.state = "In2" /\ x.par_status = r.status /\ x.trap = r.t
      /\ x.data = b.data /\ Mine(x) = {"nrfd"} /\ x.own = {}
  <2>1. y \in BusState
    BY <1>8 DEF SameBeside
  <2> QED BY <1>0, <1>6, <1>8, <2>1, GoIs
<1> HIDE DEF x
<1>10. SameBeside(b, x)
  BY <1>6, <1>8, <1>9, SameBesideTwice
<1>11. BusOK(x)
  BY <1>0, <1>7, <1>9, <1>10 DEF BusOK, Placed, MayPull, SameBeside, Talks
<1>12. Heeds(b, x)
  BY <1>7, <1>9 DEF Heeds, byte
<1> QED BY <1>7, <1>9, <1>10, <1>11, <1>12, <1>x DEF Answered, byte

(* The device, addressed to talk, starts to send: the machine has pulled   *)
(* NDAC, or let NRFD go.                                                   *)
LEMMA TalksIs ==
  ASSUME NEW b, BusOK(b), b.own = {}, b.state \in {"OldPet", "Out1"}
  PROVE  /\ Answered(b, Out1_nrfdhi(b)) /\ Out1_nrfdhi(b).state \in Talks
         /\ Out1_nrfdhi(b).trap.device = b.trap.device /\ Sends(b, Out1_nrfdhi(b))
         /\ b.state = "OldPet" =>
              /\ Answered(b, OPet_ndaclo(b)) /\ OPet_ndaclo(b).state \in Talks
              /\ OPet_ndaclo(b).trap.device = b.trap.device
              /\ IF Pulled(b, "nrfd")
                 THEN OPet_ndaclo(b).state = "Out1" /\ OPet_ndaclo(b).trap = b.trap
                 ELSE Sends(b, OPet_ndaclo(b))
<1>0. b \in BusState /\ TrapOK(b.trap) /\ b.trap.device # Nobody /\ b.trap.device.role = "talk"
      /\ Mine(b) = {} /\ b.data["emu"] = Idle
  BY TalkerAddressed DEF BusOK, Placed, MayPull, Talks
<1>1. ASSUME NEW x, SameBeside(b, x), x.own = b.own,
             TrapOK(x.trap), x.trap.device = b.trap.device,
             x.par_status.role \in {"none", b.trap.device.role, b.par_status.role},
             \/ x.state = "Out1" /\ Mine(x) = Mine(b) /\ x.data = b.data
             \/ x.state = "Out1a" /\ Mine(x) \subseteq Mine(b) \cup {"dav", "eoi"}
      PROVE  Answered(b, x) /\ x.state \in Talks /\ x.trap.device = b.trap.device
  <2>1. x \in BusState
    BY <1>1 DEF SameBeside
  <2>2. Placed(x)
    BY <1>0, <1>1 DEF Placed, MayPull
  <2> QED BY <1>0, <1>1, <2>1, <2>2 DEF Answered, BusOK, Talks
<1>2. /\ SameBeside(b, Out1_nrfdhi(b)) /\ Out1_nrfdhi(b).state = "Out1a"
      /\ TrapOK(Out1_nrfdhi(b).trap) /\ Out1_nrfdhi(b).trap.device = b.trap.device
      /\ Out1_nrfdhi(b).par_status.role \in {"none", b.trap.device.role}
      /\ Out1_nrfdhi(b).own = b.own /\ Mine(Out1_nrfdhi(b)) \subseteq Mine(b) \cup {"dav", "eoi"}
      /\ Sends(b, Out1_nrfdhi(b))
  BY <1>0, Out1_nrfdhiIs
<1>3. Answered(b, Out1_nrfdhi(b)) /\ Out1_nrfdhi(b).state \in Talks
      /\ Out1_nrfdhi(b).trap.device = b.trap.device /\ Sends(b, Out1_nrfdhi(b))
  BY <1>1, <1>2
<1>4. CASE b.state = "OldPet"
  <2>1. /\ SameBeside(b, OPet_ndaclo(b)) /\ OPet_ndaclo(b).own = b.own
        /\ TrapOK(OPet_ndaclo(b).trap) /\ OPet_ndaclo(b).trap.device = b.trap.device
        /\ OPet_ndaclo(b).par_status.role \in {"none", b.trap.device.role, b.par_status.role}
        /\ \/ OPet_ndaclo(b).state = "Out1" /\ Mine(OPet_ndaclo(b)) = Mine(b)
              /\ OPet_ndaclo(b).data = b.data
           \/ OPet_ndaclo(b).state = "Out1a" /\ Mine(OPet_ndaclo(b)) \subseteq Mine(b) \cup {"dav", "eoi"}
        /\ IF Pulled(b, "nrfd")
           THEN OPet_ndaclo(b).state = "Out1" /\ OPet_ndaclo(b).trap = b.trap
           ELSE Sends(b, OPet_ndaclo(b))
    BY <1>0, <1>4, OPet_ndacloIs
  <2>2. Answered(b, OPet_ndaclo(b)) /\ OPet_ndaclo(b).state \in Talks
        /\ OPet_ndaclo(b).trap.device = b.trap.device
    BY <1>1, <2>1
  <2> QED BY <1>3, <2>1, <2>2
<1> QED BY <1>3, <1>4

(* The machine acknowledges before it takes.                               *)
LEMMA Out1a_nrfdloIs ==
  ASSUME NEW b, BusOK(b), b.own = {}, b.state = "Out1a"
  PROVE  LET x == Go(b, "Out2") IN
         /\ Answered(b, x) /\ x.state = "Out2" /\ x.trap = b.trap
         /\ x.data = b.data /\ Mine(x) = Mine(b)
<1> DEFINE x == Go(b, "Out2")
<1>1. b \in BusState /\ "Out2" \in DeviceState
  BY TalkerAddressed DEF DeviceState
<1>2. /\ SameBeside(b, x) /\ x.state = "Out2" /\ x.par_status = b.par_status /\ x.trap = b.trap
      /\ x.data = b.data /\ Mine(x) = Mine(b) /\ x.own = {}
  BY <1>1, GoIs
<1> HIDE DEF x
<1>3. BusOK(x)
  BY <1>2 DEF BusOK, Placed, MayPull, SameBeside, Talks
<1>4. Answered(b, x)
  BY <1>2, <1>3 DEF Answered
<1> QED BY <1>2, <1>4 DEF x

-----------------------------------------------------------------------------
(* What a change of a wire does to the device.                             *)

(* A byte that comes while the device listens is of the kind it expects.   *)
Understood(b) ==
  IF Pulled(b, "atn")
  THEN /\ b.data["cpu"] \in CommandByte
       /\ b.data["cpu"].kind \in {"second", "open", "close"} => b.trap.device # Nobody
  ELSE b.data["cpu"] \in Nat

(* The machine that lets a talker begin pulls NRFD if anybody pulls NDAC.  *)
MayTurn(b) ==
  b.par_status.role = "talk" =>
    (b.line["ndac"] \ {"emu"} # {} => b.line["nrfd"] \ {"emu"} # {})

Expected(b, c) ==
  /\ b.state = "In1" /\ c = Low("dav") => Understood(b)
  /\ b.state = "In1" /\ c = High("atn") => MayTurn(b)

(* What the device answers to each change.                                 *)
Steady(b, x) == x.state = b.state /\ x.trap = b.trap /\ x.par_status = b.par_status

HeardCommand(b, x) ==
  LET byte == b.data["cpu"] IN
  Pulled(b, "atn") =>
    /\ x.trap.device = IF Addressing(byte) THEN [role |-> byte.kind, device |-> byte.device]
                       ELSE IF Ending(byte) THEN Nobody ELSE b.trap.device
    /\ x.par_status.role = x.trap.device.role

Reaction(b, c, x) ==
  /\ c = Low("atn") => x.state = "In1" /\ x.trap.device = b.trap.device
  /\ c = High("atn") => b.par_status.role = "talk" \/ b.state \in Talks \/ x.state \notin Talks
  /\ c = Low("dav") => IF b.state = "In1" THEN x.state = "In2" /\ HeardCommand(b, x) ELSE Steady(b, x)
  /\ c = High("dav") =>
       IF b.state = "In2"
       THEN x.state = "In1" /\ x.trap.device = b.trap.device /\ x.par_status = b.par_status
       ELSE Steady(b, x)
  /\ c[1] \in {"nrfd", "ndac", "eoi"} =>
       IF b.state \in Talks
       THEN x.state \in Talks \cup {"WaitATN"} /\ x.trap.device = b.trap.device
       ELSE Steady(b, x)

(* Every entry of the table, from the states in which machine and drive    *)
(* reach it.                                                               *)
LEMMA DoTransIs ==
  ASSUME NEW b, BusOK(b), b.own = {}, NEW w \in Wires, NEW dir \in {"low", "high"},
         Expected(b, <<w, dir>>)
  PROVE  Answered(b, DoTrans(b, <<w, dir>>)) /\ Reaction(b, <<w, dir>>, DoTrans(b, <<w, dir>>))
<1> DEFINE c == <<w, dir>>
           x == DoTrans(b, c)
<1>0. b.state \in DeviceState /\ b \in BusState
  BY TalkerAddressed
<1>same. Answered(b, b)
  BY <1>0 DEF Answered, SameBeside
<1>1. CASE c = Low("atn")
  <2>1. x = WATN_atnlo(b)
    BY <1>1 DEF DoTrans, Low, High
  <2>2. Answered(b, x) /\ x.state = "In1" /\ x.trap.device = b.trap.device
    BY <2>1, WATN_atnloIs
  <2>3. Reaction(b, c, x)
    <3> HIDE DEF x
    <3> QED BY <1>1, <2>2 DEF Reaction, Low, High
  <2> QED BY <2>2, <2>3
<1>2. CASE c = High("atn")
  <2>1. x = CASE b.state = "In1" -> In1_atnhi(b) [] b.state = "In2" -> In2_atnhi(b) [] OTHER -> b
    BY <1>2 DEF DoTrans, Low, High
  <2> HIDE DEF x
  <2>2. CASE b.state = "In1"
    <3>1. x = In1_atnhi(b)
      BY <2>1, <2>2
    <3>2. Answered(b, x) /\ (b.par_status.role # "talk" => x.state \notin Talks)
      BY <1>2, <2>2, <3>1, In1_atnhiIs DEF Expected, MayTurn
    <3>3. Reaction(b, c, x)
      BY <1>2, <3>2 DEF Reaction, Low, High
    <3> QED BY <3>2, <3>3 DEF x
  <2>3. CASE b.state = "In2"
    <3>1. x = Go(ResetBus(b), "WaitATN")
      BY <2>1, <2>3 DEF In2_atnhi
    <3>2. Answered(b, x) /\ x.state = "WaitATN"
      BY <3>1, LetsGo
    <3>3. Reaction(b, c, x)
      BY <1>2, <3>2 DEF Reaction, Low, High, Talks
    <3> QED BY <3>2, <3>3 DEF x
  <2>4. CASE b.state \notin {"In1", "In2"}
    <3>1. x = b
      BY <2>1, <2>4
    <3>2. Reaction(b, c, x)
      BY <1>2, <3>1 DEF Reaction, Steady, Low, High
    <3> QED BY <1>same, <3>1, <3>2 DEF x
  <2> QED BY <2>2, <2>3, <2>4
<1>3. CASE c = Low("dav")
  <2>1. x = IF b.state = "In1" THEN In1_davlo(b) ELSE b
    BY <1>3 DEF DoTrans, Low, High
  <2> HIDE DEF x
  <2>2. CASE b.state = "In1"
    <3>1. x = In1_davlo(b)
      BY <2>1, <2>2
    <3>2. Understood(b)
      BY <1>3, <2>2 DEF Expected
    <3>3. Answered(b, x) /\ x.state = "In2" /\ HeardCommand(b, x)
      BY <2>2, <3>1, <3>2, In1_davloIs DEF Understood, HeardCommand
    <3>4. Reaction(b, c, x)
      BY <1>3, <2>2, <3>3 DEF Reaction, Low, High
    <3> QED BY <3>3, <3>4 DEF x
  <2>3. CASE b.state # "In1"
    <3>1. x = b
      BY <2>1, <2>3
    <3>2. Reaction(b, c, x)
      BY <1>3, <2>3, <3>1 DEF Reaction, Steady, Low, High
    <3> QED BY <1>same, <3>1, <3>2 DEF x
  <2> QED BY <2>2, <2>3
<1>4. CASE c = High("dav")
  <2>1. x = IF b.state = "In2" THEN In2_davhi(b) ELSE b
    BY <1>4 DEF DoTrans, Low, High
  <2> HIDE DEF x
  <2>2. CASE b.state = "In2"
    <3>1. x = In2_davhi(b)
      BY <2>1, <2>2
    <3>2. Answered(b, x) /\ x.state = "In1" /\ x.trap.device = b.trap.device
          /\ x.par_status = b.par_status
      BY <2>2, <3>1, In2_davhiIs
    <3>3. Reaction(b, c, x)
      BY <1>4, <2>2, <3>2 DEF Reaction, Low, High
    <3> QED BY <3>2, <3>3 DEF x
  <2>3. CASE b.state # "In2"
    <3>1. x = b
      BY <2>1, <2>3
    <3>2. Reaction(b, c, x)
      BY <1>4, <2>3, <3>1 DEF Reaction, Steady, Low, High
    <3> QED BY <1>same, <3>1, <3>2 DEF x
  <2> QED BY <2>2, <2>3
<1>5. CASE w \in {"nrfd", "ndac", "eoi"}
  <2>0. c # Low("atn") /\ c # High("atn") /\ c # Low("dav") /\ c # High("dav")
        /\ c[1] \in {"nrfd", "ndac", "eoi"}
    BY <1>5 DEF Low, High
  <2>1. x = CASE b.state = "OldPet" /\ c = Low("ndac") -> OPet_ndaclo(b)
              [] b.state \in {"OldPet"} /\ c = Low("nrfd") -> Out1_nrfdhi(b)
              [] b.state = "Out1" /\ c = High("nrfd") -> Out1_nrfdhi(b)
              [] b.state = "Out1a" /\ c = High("ndac") -> Out1a_ndachi(b)
              [] b.state = "Out1a" /\ c = Low("nrfd") -> Go(b, "Out2")
              [] b.state = "Out2" /\ c = High("ndac") -> Out2_ndachi(b)
              [] OTHER -> b
    BY <2>0 DEF DoTrans, Low, High
  <2> HIDE DEF x, c
  <2> SUFFICES Answered(b, x) /\ Reaction(b, c, x)
    BY DEF x, c
  <2>2. ASSUME b.state \in Talks, Answered(b, x), x.state \in Talks \cup {"WaitATN"},
               x.trap.device = b.trap.device
        PROVE  Answered(b, x) /\ Reaction(b, c, x)
    BY <2>0, <2>2 DEF Reaction
  <2>3. CASE b.state = "OldPet" /\ c = Low("ndac")
    <3>1. x = OPet_ndaclo(b)
      BY <2>1, <2>3 DEF Low, High
    <3> QED BY <2>2, <2>3, <3>1, TalksIs DEF Talks
  <2>4. CASE \/ b.state = "OldPet" /\ c = Low("nrfd")
             \/ b.state = "Out1" /\ c = High("nrfd")
    <3>1. x = Out1_nrfdhi(b)
      BY <2>1, <2>4 DEF Low, High
    <3> QED BY <2>2, <2>4, <3>1, TalksIs DEF Talks
  <2>5. CASE b.state = "Out1a" /\ c = High("ndac")
    <3>1. x = Go(ResetBus(b), "WaitATN")
      BY <2>1, <2>5 DEF Out1a_ndachi, Low, High
    <3>2. Answered(b, x) /\ x.state = "WaitATN" /\ x.trap = b.trap
      BY <3>1, LetsGo
    <3> QED BY <2>2, <2>5, <3>2 DEF Talks
  <2>6. CASE b.state = "Out1a" /\ c = Low("nrfd")
    <3>1. x = Go(b, "Out2")
      BY <2>1, <2>6 DEF Low, High
    <3>2. Answered(b, x) /\ x.state = "Out2" /\ x.trap = b.trap
      BY <2>6, <3>1, Out1a_nrfdloIs
    <3> QED BY <2>2, <2>6, <3>2 DEF Talks
  <2>7. CASE b.state = "Out2" /\ c = High("ndac")
    <3>1. x = Out2_ndachi(b)
      BY <2>1, <2>7
    <3>2. Answered(b, x) /\ x.state \in {"Out1", "WaitATN"} /\ x.trap.device = b.trap.device
      BY <2>7, <3>1, Out2_ndachiIs DEF GoesOn
    <3> QED BY <2>2, <2>7, <3>2 DEF Talks
  <2>8. CASE /\ ~(b.state = "OldPet" /\ c = Low("ndac"))
             /\ ~(b.state = "OldPet" /\ c = Low("nrfd"))
             /\ ~(b.state = "Out1" /\ c = High("nrfd"))
             /\ ~(b.state = "Out1a" /\ c = High("ndac"))
             /\ ~(b.state = "Out1a" /\ c = Low("nrfd"))
             /\ ~(b.state = "Out2" /\ c = High("ndac"))
    <3>1. x = b
      BY <2>1, <2>8
    <3>2. Reaction(b, c, x)
      BY <1>same, <2>0, <3>1 DEF Reaction, Steady
    <3> QED BY <1>same, <3>1, <3>2
  <2> QED BY <2>3, <2>4, <2>5, <2>6, <2>7, <2>8
<1>6. c \in {Low("atn"), High("atn"), Low("dav"), High("dav")} \/ w \in {"nrfd", "ndac", "eoi"}
  BY DEF Wires, Low, High
<1> QED BY <1>1, <1>2, <1>3, <1>4, <1>5, <1>6

(* Somebody else pulls or releases a wire.                                 *)
Pulls(b, call) ==
  IF call.low THEN b.line[call.wire] \cup {call.who} ELSE b.line[call.wire] \ {call.who}

Changed(b, call) == [b EXCEPT !.line[call.wire] = Pulls(b, call)]

Change(call) == <<call.wire, IF call.low THEN "low" ELSE "high">>

Falls(b, call) == (b.line[call.wire] = {}) # (Pulls(b, call) = {})

(* Another's change of a wire leaves the device's own wires alone.         *)
LEMMA ChangedIs ==
  ASSUME NEW b, BusOK(b), NEW call \in Call
  PROVE  LET x == Changed(b, call) IN
         /\ BusOK(x) /\ x.data = b.data /\ x.own = b.own /\ Steady(b, x)
         /\ \A u \in Wires : x.line[u] = IF u = call.wire THEN Pulls(b, call) ELSE b.line[u]
<1> DEFINE v == [b.line EXCEPT ![call.wire] = Pulls(b, call)]
           x == [b EXCEPT !.line = v]
<1>0. b \in BusState /\ b.line \in [Wires -> SUBSET Driver] /\ call.wire \in Wires
      /\ call.who \in {"cpu", "drv"}
  BY DEF BusOK, BusState, Call
<1>1. v \in [Wires -> SUBSET Driver]
  BY <1>0 DEF Pulls, Driver
<1>2. \A u \in Wires : v[u] = IF u = call.wire THEN Pulls(b, call) ELSE b.line[u]
  BY <1>0
<1>3. Changed(b, call) = x
  BY <1>0 DEF Changed
<1> HIDE DEF v
<1>4. /\ x \in BusState /\ x.line = v /\ x.data = b.data /\ x.state = b.state
      /\ x.par_status = b.par_status /\ x.trap = b.trap /\ x.own = b.own
  BY <1>0, <1>1, SetLine
<1> HIDE DEF x
<1>5. Mine(x) = Mine(b)
  BY <1>0, <1>2, <1>4 DEF Mine, Pulls
<1>6. BusOK(x)
  BY <1>4, <1>5 DEF BusOK, Placed
<1> QED BY <1>2, <1>3, <1>4, <1>6 DEF Steady

(* One call of a bus function: the device keeps its place.                 *)
LEMMA SetOrClrIs ==
  ASSUME NEW b, BusOK(b), b.own = {}, NEW call \in Call,
         Falls(b, call) => Expected(Changed(b, call), Change(call))
  PROVE  LET x == SetOrClr(b, call) IN
         /\ BusOK(x) /\ x.own \subseteq HeardOwnNdac /\ x.data["cpu"] = b.data["cpu"]
         /\ \A u \in Wires :
              x.line[u] \ {"emu"} = (IF u = call.wire THEN Pulls(b, call) ELSE b.line[u]) \ {"emu"}
         /\ IF Falls(b, call) THEN Reaction(b, Change(call), x) ELSE Steady(b, x)
<1> DEFINE c == Changed(b, call)
           x == SetOrClr(b, call)
<1>1. /\ BusOK(c) /\ c.data = b.data /\ c.own = {} /\ Steady(b, c)
      /\ \A u \in Wires : c.line[u] = IF u = call.wire THEN Pulls(b, call) ELSE b.line[u]
  BY ChangedIs
<1>2. x = IF Falls(b, call) THEN DoTrans(c, Change(call)) ELSE c
  BY DEF SetOrClr, Changed, Pulls, Falls, Change
<1> HIDE DEF c, x
<1> SUFFICES /\ BusOK(x) /\ x.own \subseteq HeardOwnNdac /\ x.data["cpu"] = b.data["cpu"]
             /\ \A u \in Wires : x.line[u] \ {"emu"} = c.line[u] \ {"emu"}
             /\ IF Falls(b, call) THEN Reaction(b, Change(call), x) ELSE Steady(b, x)
  BY <1>1 DEF x
<1>3. CASE ~Falls(b, call)
  BY <1>1, <1>2, <1>3
<1>4. CASE Falls(b, call)
  <2>0. Expected(c, Change(call)) /\ call.wire \in Wires
    BY <1>4 DEF c, Call
  <2>1. x = DoTrans(c, Change(call))
    BY <1>2, <1>4
  <2>2. Answered(c, x) /\ Reaction(c, Change(call), x)
    BY <1>1, <2>0, <2>1, DoTransIs DEF Change
  <2>3. call.wire # "atn" => c.line["atn"] = b.line["atn"]
    BY <1>1 DEF Wires
  <2>4. Reaction(b, Change(call), x)
    <3>1. Change(call) = Low("dav") => call.wire # "atn"
      BY DEF Change, Low
    <3>2. Change(call) = Low("dav") /\ HeardCommand(c, x) => HeardCommand(b, x)
      BY <1>1, <2>3, <3>1 DEF HeardCommand, Pulled, Steady
    <3>3. \A y : Steady(c, y) => Steady(b, y)
      BY <1>1 DEF Steady
    <3>4. c.state = b.state /\ c.par_status = b.par_status /\ c.trap = b.trap
      BY <1>1 DEF Steady
    <3> QED BY <2>2, <3>2, <3>3, <3>4 DEF Reaction
  <2> QED BY <1>1, <1>4, <2>2, <2>4 DEF Answered, SameBeside
<1> QED BY <1>3, <1>4

-----------------------------------------------------------------------------
(* A call of a bus function.                                               *)
LEMMA BusFields ==
  /\ Bus.line = line /\ Bus.data = data /\ Bus.state = state /\ Bus.par_status = par_status
  /\ Bus.trap = trap /\ Bus.own = {}
  BY DEF Bus

(* Who is called, and by whom.                                             *)
LEMMA FirstCall ==
  ASSUME Types, calls # <<>>
  PROVE  /\ Head(calls) \in Call /\ Head(calls) = calls[1] /\ Asks(Head(calls))
         /\ Head(calls).who = "drv" => setup.drive /\ Head(calls).wire \in {"nrfd", "ndac"}
         /\ Head(calls).who = "cpu" => <<pc, Head(calls)>> \in CallsAt
<1>1. calls \in Seq(Call)
  BY DEF Types, CallsOK
<1>2. 1 \in 1..Len(calls) /\ Head(calls) = calls[1] /\ calls[1] \in Call
  BY <1>1
<1> QED BY <1>2 DEF Types, CallsOK, Asks, Call

(* The calls of the machine by the wire.                                   *)
LEMMA CallsOfWire ==
  ASSUME Types, calls # <<>>, Head(calls).who = "cpu"
  PROVE  LET c == Head(calls) IN
         /\ c = IF c.low THEN Set("cpu", c.wire) ELSE Clr("cpu", c.wire)
         /\ c.wire # "eoi"
         /\ c.wire = "atn" => pc \in IF c.low THEN {"attention"} ELSE {"turn", "send", "receive", "reset", "idle"}
         /\ c.wire = "dav" => pc \in IF c.low THEN {"command dav", "send dav"} ELSE {"command", "send", "reset"}
         /\ pc \in {"command", "command dav"} => c.wire = "dav"
         /\ pc = "reset" => ~c.low
<1> DEFINE c == Head(calls)
<1>1. c \in Call /\ <<pc, c>> \in CallsAt
  BY FirstCall
<1> HIDE DEF c
<1>2. c.who = "cpu"
  BY DEF c
<1>3. c = IF c.low THEN Set("cpu", c.wire) ELSE Clr("cpu", c.wire)
  BY <1>1, <1>2 DEF Call, Set, Clr
<1>4. /\ c.wire # "eoi"
      /\ c.wire = "atn" => pc \in IF c.low THEN {"attention"} ELSE {"turn", "send", "receive", "reset", "idle"}
      /\ c.wire = "dav" => pc \in IF c.low THEN {"command dav", "send dav"} ELSE {"command", "send", "reset"}
      /\ pc \in {"command", "command dav"} => c.wire = "dav"
      /\ pc = "reset" => ~c.low
  <2>1. \/ pc = "attention" /\ c \in {Set("cpu", "atn"), Clr("cpu", "nrfd"), Clr("cpu", "ndac")}
        \/ pc = "turn" /\ c \in {Set("cpu", "nrfd"), Set("cpu", "ndac"), Clr("cpu", "atn")}
        \/ pc = "send" /\ c \in {Clr("cpu", "atn"), Clr("cpu", "dav")}
        \/ pc = "receive" /\ c \in {Clr("cpu", "atn"), Set("cpu", "ndac")}
        \/ pc = "reset" /\ \E w \in {"ndac", "dav", "atn", "nrfd"} : c = Clr("cpu", w)
        \/ pc = "command" /\ c = Clr("cpu", "dav")
        \/ pc \in {"command dav", "send dav"} /\ c = Set("cpu", "dav")
        \/ pc = "receive dav" /\ c = Clr("cpu", "nrfd")
        \/ pc = "receive taken" /\ c = Set("cpu", "nrfd")
        \/ pc = "receive accepted" /\ c = Clr("cpu", "ndac")
        \/ pc = "receive end" /\ c = Set("cpu", "ndac")
        \/ pc = "idle" /\ c = Clr("cpu", "atn")
    BY <1>1 DEF CallsAt
  <2>2. \A w : Set("cpu", w).wire = w /\ Set("cpu", w).low /\ Clr("cpu", w).wire = w /\ ~Clr("cpu", w).low
    BY DEF Set, Clr
  <2>3. CASE pc = "reset"
    BY <2>1, <2>2, <2>3
  <2>4. CASE pc # "reset"
    BY <2>1, <2>2, <2>4
  <2> QED BY <2>3, <2>4
<1> QED BY <1>3, <1>4 DEF c

(* Calls that differ in caller, wire or direction are different calls.     *)
LEMMA Distinct ==
  /\ \A v \in Wires, w \in Wires : v # w => Set("cpu", v) # Set("cpu", w) /\ Clr("cpu", v) # Clr("cpu", w)
  /\ \A v \in Wires, w \in Wires : Set("cpu", v) # Clr("cpu", w)
  BY DEF Set, Clr

(* A byte that comes and an ATN that rises are such as the device expects. *)
LEMMA ExpectedByDevice ==
  ASSUME BusInv, calls # <<>>
  PROVE  Expected(Changed(Bus, Head(calls)), Change(Head(calls)))
<1> DEFINE c == Head(calls)
           x == Changed(Bus, c)
<1>0. c \in Call /\ BusOK(Bus)
  BY FirstCall DEF BusInv, Types
<1>1. /\ x.data = data /\ x.state = state /\ x.trap = trap /\ x.par_status = par_status
      /\ \A u \in Wires : x.line[u] = IF u = c.wire THEN Pulls(Bus, c) ELSE line[u]
  BY <1>0, ChangedIs, BusFields DEF Steady
<1> HIDE DEF x
<1>2. ASSUME state = "In1", Change(c) = Low("dav")
      PROVE  Understood(x)
  <2>1. c.wire = "dav" /\ c.low
    BY <1>0, <1>2 DEF Change, Low, Call
  <2>2. c.who = "cpu"
    BY <1>0, <2>1, FirstCall DEF BusInv, Call
  <2>3. pc \in {"command dav", "send dav"} /\ Asks(Set("cpu", "dav"))
    BY <2>1, <2>2, CallsOfWire DEF BusInv, Asks
  <2>4. x.line["atn"] = line["atn"]
    BY <1>1, <2>1 DEF Wires
  <2>5. CASE pc = "command dav"
    <3>1. "cpu" \in line["atn"] /\ data["cpu"] = Head(todo) /\ todo # <<>> /\ Fits(todo)
      BY <2>3, <2>5 DEF BusInv, BytesOK, CommandsOK
    <3>2. Head(todo) \in CommandByte
      BY <3>1 DEF Fits, FitsWith
    <3> QED BY <1>1, <2>4, <3>1, <3>2 DEF Understood, Pulled, Fits, FitsWith
  <2>6. CASE pc = "send dav"
    <3>1. "cpu" \notin line["atn"] /\ data["cpu"] \in Nat
      BY <2>3, <2>6 DEF BusInv, BytesOK
    <3>2. "drv" \notin line["atn"]
      BY DEF BusInv, WiresOK, Wires
    <3>3. "emu" \notin line["atn"]
      <4>1. Mine(Bus) \subseteq {"ndac"}
        BY <1>0, <1>2, BusFields DEF BusOK, Placed, MayPull
      <4> QED BY <4>1, BusFields DEF Mine, Wires
    <3>4. line["atn"] \subseteq Driver
      BY <1>0, BusFields DEF BusOK, BusState, Wires
    <3> QED BY <1>1, <2>4, <3>1, <3>2, <3>3, <3>4 DEF Understood, Pulled, Driver
  <2> QED BY <2>3, <2>5, <2>6
<1>3. ASSUME state = "In1", Change(c) = High("atn")
      PROVE  MayTurn(x)
  <2>1. c.wire = "atn" /\ ~c.low
    BY <1>0, <1>3 DEF Change, High, Call
  <2>2. c.who = "cpu"
    BY <1>0, <2>1, FirstCall DEF BusInv, Call
  <2>3. Asks(Clr("cpu", "atn"))
    BY <2>1, <2>2, CallsOfWire DEF BusInv, Asks
  <2>4. x.line["ndac"] = line["ndac"] /\ x.line["nrfd"] = line["nrfd"]
    BY <1>1, <2>1 DEF Wires
  <2> QED BY <1>1, <2>3, <2>4 DEF MayTurn, BusInv, ReleaseOK, Beside
<1> QED BY <1>1, <1>2, <1>3 DEF Expected, x

(* What the machine, the drive and the device see of a call.               *)
LEMMA BusCallIs ==
  ASSUME BusInv, BusCall
  PROVE  LET c == Head(calls) IN
         /\ BusOK(Bus') /\ own' \subseteq HeardOwnNdac /\ data'["cpu"] = data["cpu"]
         /\ \A u \in Wires :
              line'[u] \ {"emu"} = (IF u = c.wire THEN Pulls(Bus, c) ELSE line[u]) \ {"emu"}
         /\ IF Falls(Bus, c) THEN Reaction(Bus, Change(c), Bus') ELSE Steady(Bus, Bus')
<1> DEFINE c == Head(calls)
           x == SetOrClr(Bus, c)
           y == [x EXCEPT !.own = {}]
<1>0. c \in Call /\ BusOK(Bus) /\ Bus.own = {}
  BY FirstCall, BusFields DEF BusInv, Types, BusCall
<1>1. /\ BusOK(x) /\ x.own \subseteq HeardOwnNdac /\ x.data["cpu"] = data["cpu"]
      /\ \A u \in Wires :
           x.line[u] \ {"emu"} = (IF u = c.wire THEN Pulls(Bus, c) ELSE line[u]) \ {"emu"}
      /\ IF Falls(Bus, c) THEN Reaction(Bus, Change(c), x) ELSE Steady(Bus, x)
  BY <1>0, ExpectedByDevice, SetOrClrIs, BusFields DEF BusCall
<1>2. /\ line' = x.line /\ data' = x.data /\ state' = x.state /\ par_status' = x.par_status
      /\ trap' = x.trap /\ own' = x.own
  BY DEF BusCall
<1> HIDE DEF x, c
<1>3. x \in BusState
  BY <1>1 DEF BusOK
<1>4. y \in BusState
  BY <1>3, BusKept
<1>5. Bus' = y
  BY <1>2, <1>3 DEF Bus, BusState
<1>6. /\ y.line = x.line /\ y.data = x.data /\ y.state = x.state /\ y.par_status = x.par_status
      /\ y.trap = x.trap
  BY <1>3 DEF BusState
<1> HIDE DEF y
<1>7. BusOK(y)
  BY <1>1, <1>4, <1>6 DEF BusOK, Placed, Mine
<1>8. /\ Steady(Bus, x) => Steady(Bus, y)
      /\ Reaction(Bus, Change(c), x) => Reaction(Bus, Change(c), y)
  BY <1>6 DEF Reaction, Steady, HeardCommand
<1>9. /\ BusOK(Bus') /\ own' \subseteq HeardOwnNdac /\ data'["cpu"] = data["cpu"]
      /\ \A u \in Wires :
           line'[u] \ {"emu"} = (IF u = c.wire THEN Pulls(Bus, c) ELSE line[u]) \ {"emu"}
      /\ IF Falls(Bus, c) THEN Reaction(Bus, Change(c), Bus') ELSE Steady(Bus, Bus')
  BY <1>1, <1>2, <1>5, <1>7, <1>8
<1> QED BY <1>9 DEF c

(* The calls that are left, and the wires of machine and drive.            *)
LEMMA CallMoves ==
  ASSUME BusInv, BusCall
  PROVE  /\ CallsOK'
         /\ \A w : ~Asks(Set("cpu", w))' /\ ~Asks(Clr("cpu", w))'
         /\ \A w \in Wires :
              /\ "cpu" \in line'[w] <=>
                   ("cpu" \in line[w] /\ ~Asks(Clr("cpu", w))) \/ Asks(Set("cpu", w))
              /\ "drv" \in line'[w] => "drv" \in line[w] \/ (setup.drive /\ w \in {"nrfd", "ndac"})
<1> DEFINE c == Head(calls)
<1>0. calls \in Seq(Call) /\ calls # <<>> /\ calls' = Tail(calls) /\ pc' = pc /\ setup' = setup
  BY DEF BusInv, Types, CallsOK, BusCall
<1>1. c \in Call /\ c = calls[1] /\ Asks(c)
      /\ (c.who = "drv" => setup.drive /\ c.wire \in {"nrfd", "ndac"})
  BY <1>0, FirstCall DEF BusInv
<1>2. calls' \in Seq(Call) /\ Len(calls') = Len(calls) - 1
      /\ \A i \in 1..Len(calls') : i + 1 \in 1..Len(calls) /\ calls'[i] = calls[i + 1]
  BY <1>0
<1>3. \A i \in 1..Len(calls') : calls'[i].who = "drv" /\ setup.drive /\ calls'[i].wire \in {"nrfd", "ndac"}
  <2>1. \A i \in 1..Len(calls) : calls[i].who = "drv" \/ i = 1
    BY DEF BusInv, Types, CallsOK
  <2>2. \A i \in 1..Len(calls) : calls[i].who = "drv" => setup.drive /\ calls[i].wire \in {"nrfd", "ndac"}
    BY DEF BusInv, Types, CallsOK
  <2>3. \A i \in 1..Len(calls') : i + 1 # 1
    BY <1>2
  <2> QED BY <1>2, <2>1, <2>2, <2>3
<1>4. CallsOK'
  BY <1>0, <1>2, <1>3 DEF CallsOK
<1>5. ASSUME calls' # <<>>
      PROVE  Head(calls').who = "drv"
  <2>1. 1 \in 1..Len(calls') /\ Head(calls') = calls'[1]
    BY <1>2, <1>5
  <2> QED BY <1>3, <2>1
<1>6. \A w : ~Asks(Set("cpu", w))' /\ ~Asks(Clr("cpu", w))'
  <2>1. \A w : Set("cpu", w).who = "cpu" /\ Clr("cpu", w).who = "cpu"
    BY DEF Set, Clr
  <2> QED BY <1>5, <2>1 DEF Asks
<1>7. ASSUME NEW w \in Wires
      PROVE  /\ "cpu" \in line'[w] <=>
                  ("cpu" \in line[w] /\ ~Asks(Clr("cpu", w))) \/ Asks(Set("cpu", w))
             /\ "drv" \in line'[w] => "drv" \in line[w] \/ (setup.drive /\ w \in {"nrfd", "ndac"})
  <2>1. line'[w] \ {"emu"} = (IF w = c.wire THEN Pulls(Bus, c) ELSE line[w]) \ {"emu"}
    BY BusCallIs
  <2>2. Pulls(Bus, c) = IF c.low THEN line[c.wire] \cup {c.who} ELSE line[c.wire] \ {c.who}
    BY BusFields DEF Pulls
  <2>3. /\ Asks(Set("cpu", w)) <=> c.who = "cpu" /\ c.wire = w /\ c.low
        /\ Asks(Clr("cpu", w)) <=> c.who = "cpu" /\ c.wire = w /\ ~c.low
    BY <1>0, <1>1 DEF Asks, Set, Clr, Call
  <2>4. c.who \in {"cpu", "drv"}
    BY <1>1 DEF Call
  <2> HIDE DEF c
  <2>5. CASE w # c.wire
    BY <2>1, <2>3, <2>5
  <2>6. CASE w = c.wire
    BY <1>1, <2>1, <2>2, <2>3, <2>4, <2>6
  <2> QED BY <2>5, <2>6
<1> QED BY <1>4, <1>6, <1>7

(* What a call does to the device, by the call.                            *)
LEMMA CallAnswered ==
  ASSUME BusInv, BusCall
  PROVE  /\ Asks(Set("cpu", "atn")) => state' \in {"In1", "In2"} /\ trap'.device = trap.device
         /\ Asks(Clr("cpu", "atn")) =>
              par_status.role = "talk" \/ state \in Talks \/ state' \notin Talks
         /\ Asks(Set("cpu", "dav")) =>
              \/ state = "In1" /\ state' = "In2" /\ HeardCommand(Bus, Bus')
              \/ (state # "In1" \/ Pulled(Bus, "dav")) /\ Steady(Bus, Bus')
         /\ Asks(Clr("cpu", "dav")) =>
              /\ trap'.device = trap.device /\ par_status' = par_status
              /\ state' = state \/ (state = "In2" /\ state' = "In1")
         /\ (\A w \in {"atn", "dav"} : ~Asks(Set("cpu", w)) /\ ~Asks(Clr("cpu", w))) =>
              IF state \in Talks THEN state' \in Talks \cup {"WaitATN"} ELSE Steady(Bus, Bus')
<1> DEFINE c == Head(calls)
           cc == Change(c)
<1>0. c \in Call /\ calls # <<>> /\ Types
      /\ (c.who = "drv" => c.wire \in {"nrfd", "ndac"})
  BY FirstCall DEF BusInv, BusCall
<1>1. IF Falls(Bus, c) THEN Reaction(Bus, cc, Bus') ELSE Steady(Bus, Bus')
  BY BusCallIs
<1>2. /\ Bus'.state = state' /\ Bus'.trap = trap' /\ Bus'.par_status = par_status'
      /\ Bus.state = state /\ Bus.trap = trap /\ Bus.par_status = par_status /\ Bus.line = line
  BY DEF Bus
<1>3. \A w : /\ Asks(Set("cpu", w)) <=> c.who = "cpu" /\ c.wire = w /\ c.low
             /\ Asks(Clr("cpu", w)) <=> c.who = "cpu" /\ c.wire = w /\ ~c.low
  BY <1>0 DEF Asks, Set, Clr, Call
<1>4. Pulls(Bus, c) = IF c.low THEN line[c.wire] \cup {c.who} ELSE line[c.wire] \ {c.who}
  BY <1>2 DEF Pulls
<1>5. Falls(Bus, c) <=> (line[c.wire] = {}) # (Pulls(Bus, c) = {})
  BY <1>2 DEF Falls
<1>6. /\ c.low => cc = Low(c.wire)
      /\ ~c.low => cc = High(c.wire)
      /\ cc[1] = c.wire
  BY <1>0 DEF Change, Low, High, Call
<1> HIDE DEF c, cc
<1>7. ASSUME Asks(Set("cpu", "atn"))
      PROVE  state' \in {"In1", "In2"} /\ trap'.device = trap.device
  <2>1. c.who = "cpu" /\ c.wire = "atn" /\ c.low /\ cc = Low("atn")
    BY <1>3, <1>6, <1>7
  <2>2. CASE line["atn"] = {}
    <3>1. Falls(Bus, c)
      BY <1>4, <1>5, <2>1, <2>2
    <3> QED BY <1>1, <1>2, <2>1, <3>1 DEF Reaction
  <2>3. CASE line["atn"] # {}
    <3>1. ~Falls(Bus, c)
      BY <1>4, <1>5, <2>1, <2>3
    <3>2. "drv" \notin line["atn"] /\ "emu" \notin line["atn"] /\ line["atn"] \subseteq Driver
      <4>1. Mine(Bus) \subseteq MayPull(state) /\ line["atn"] \subseteq Driver
        BY <1>0, <1>2 DEF Types, BusOK, Placed, BusState, Wires
      <4>2. "atn" \notin MayPull(state)
        BY DEF MayPull
      <4> QED BY <1>2, <4>1, <4>2 DEF BusInv, WiresOK, Wires, Mine
    <3>3. state \in {"In1", "In2"}
      BY <2>3, <3>2 DEF BusInv, AttentionOK, Driver
    <3> QED BY <1>1, <1>2, <3>1, <3>3 DEF Steady
  <2> QED BY <2>2, <2>3
<1>8. ASSUME Asks(Clr("cpu", "atn"))
      PROVE  par_status.role = "talk" \/ state \in Talks \/ state' \notin Talks
  <2>1. cc = High("atn")
    BY <1>3, <1>6, <1>8
  <2> QED BY <1>1, <1>2, <2>1 DEF Reaction, Steady
<1>9. ASSUME Asks(Set("cpu", "dav"))
      PROVE  \/ state = "In1" /\ state' = "In2" /\ HeardCommand(Bus, Bus')
             \/ (state # "In1" \/ Pulled(Bus, "dav")) /\ Steady(Bus, Bus')
  <2>1. c.who = "cpu" /\ c.wire = "dav" /\ c.low /\ cc = Low("dav")
    BY <1>3, <1>6, <1>9
  <2>2. CASE line["dav"] = {}
    <3>1. Falls(Bus, c)
      BY <1>4, <1>5, <2>1, <2>2
    <3> QED BY <1>1, <1>2, <2>1, <3>1 DEF Reaction
  <2>3. CASE line["dav"] # {}
    <3>1. ~Falls(Bus, c)
      BY <1>4, <1>5, <2>1, <2>3
    <3> QED BY <1>1, <1>2, <2>3, <3>1 DEF Pulled
  <2> QED BY <2>2, <2>3
<1>10. ASSUME Asks(Clr("cpu", "dav"))
       PROVE  /\ trap'.device = trap.device /\ par_status' = par_status
              /\ state' = state \/ (state = "In2" /\ state' = "In1")
  <2>1. cc = High("dav")
    BY <1>3, <1>6, <1>10
  <2> QED BY <1>1, <1>2, <2>1 DEF Reaction, Steady
<1>11. ASSUME \A w \in {"atn", "dav"} : ~Asks(Set("cpu", w)) /\ ~Asks(Clr("cpu", w))
       PROVE  IF state \in Talks THEN state' \in Talks \cup {"WaitATN"} ELSE Steady(Bus, Bus')
  <2>1. c.wire \in {"nrfd", "ndac", "eoi"}
    BY <1>0, <1>3, <1>11 DEF Call, Wires
  <2>2. cc[1] \in {"nrfd", "ndac", "eoi"}
    BY <1>6, <2>1
  <2> QED BY <1>1, <1>2, <2>2 DEF Reaction, Steady
<1> QED BY <1>7, <1>8, <1>9, <1>10, <1>11

(* Where the machine is when it makes a call.                              *)
LEMMA AsksAt ==
  ASSUME Types
  PROVE  /\ Asks(Set("cpu", "atn")) => pc = "attention"
         /\ Asks(Clr("cpu", "atn")) => pc \in {"turn", "send", "receive", "reset", "idle"}
         /\ Asks(Set("cpu", "dav")) => pc \in {"command dav", "send dav"}
         /\ Asks(Clr("cpu", "dav")) => pc \in {"command", "send", "reset"}
         /\ pc \in {"command", "command dav"} =>
              \A w \in {"atn", "nrfd", "ndac"} : ~Asks(Set("cpu", w)) /\ ~Asks(Clr("cpu", w))
         /\ pc = "reset" => \A w : ~Asks(Set("cpu", w))
         /\ \A v, w : ~(Asks(Set("cpu", v)) /\ Asks(Clr("cpu", w)))
         /\ \A v, w : (Asks(Set("cpu", v)) /\ Asks(Set("cpu", w))) => v = w
         /\ \A v, w : (Asks(Clr("cpu", v)) /\ Asks(Clr("cpu", w))) => v = w
<1> DEFINE c == Head(calls)
<1>1. \A w : /\ Asks(Set("cpu", w)) => calls # <<>> /\ c.who = "cpu" /\ c.wire = w /\ c.low
             /\ Asks(Clr("cpu", w)) => calls # <<>> /\ c.who = "cpu" /\ c.wire = w /\ ~c.low
  BY DEF Asks, Set, Clr
<1>2. calls # <<>> /\ c.who = "cpu" =>
        /\ c.wire = "atn" => pc \in IF c.low THEN {"attention"} ELSE {"turn", "send", "receive", "reset", "idle"}
        /\ c.wire = "dav" => pc \in IF c.low THEN {"command dav", "send dav"} ELSE {"command", "send", "reset"}
        /\ pc \in {"command", "command dav"} => c.wire = "dav"
        /\ pc = "reset" => ~c.low
  BY CallsOfWire
<1> HIDE DEF c
<1>3. /\ Asks(Set("cpu", "atn")) => pc = "attention"
      /\ Asks(Clr("cpu", "atn")) => pc \in {"turn", "send", "receive", "reset", "idle"}
  BY <1>1, <1>2
<1>4. /\ Asks(Set("cpu", "dav")) => pc \in {"command dav", "send dav"}
      /\ Asks(Clr("cpu", "dav")) => pc \in {"command", "send", "reset"}
  BY <1>1, <1>2
<1>5. ASSUME pc \in {"command", "command dav"}, NEW w \in {"atn", "nrfd", "ndac"}
      PROVE  ~Asks(Set("cpu", w)) /\ ~Asks(Clr("cpu", w))
  BY <1>1, <1>2, <1>5
<1>6. pc = "reset" => \A w : ~Asks(Set("cpu", w))
  BY <1>1, <1>2
<1>7. ASSUME NEW v, NEW w
      PROVE  /\ ~(Asks(Set("cpu", v)) /\ Asks(Clr("cpu", w)))
             /\ (Asks(Set("cpu", v)) /\ Asks(Set("cpu", w))) => v = w
             /\ (Asks(Clr("cpu", v)) /\ Asks(Clr("cpu", w))) => v = w
  BY <1>1
<1> QED BY <1>3, <1>4, <1>5, <1>6, <1>7

(* A call keeps the types and the device's place.                          *)
LEMMA CallKeepsTypes == ASSUME BusInv, BusCall PROVE Types'
<1>1. BusOK(Bus') /\ own' \subseteq HeardOwnNdac
  BY BusCallIs
<1>2. CallsOK'
  BY CallMoves
<1>3. UNCHANGED <<pc, setup, job, todo, after, latch, file, drive>>
  BY DEF BusCall
<1>4. sent' = sent
  BY <1>3 DEF file
<1> QED BY <1>1, <1>2, <1>3, <1>4 DEF BusInv, Types, HeardOwnNdac

(* A call keeps what is said of the drive's and the machine's wires.       *)
LEMMA CallKeepsWires == ASSUME BusInv, BusCall PROVE WiresOK'
<1>0. pc' = pc /\ setup' = setup /\ todo' = todo /\ Types
      /\ {"atn", "dav", "eoi", "nrfd", "ndac"} = Wires
  BY DEF BusCall, BusInv, Wires
<1>1. \A w \in Wires : "drv" \in line'[w] => setup.drive /\ w \in {"nrfd", "ndac"}
  BY CallMoves DEF BusInv, WiresOK
<1>2. pc \in {"command", "command dav"} => "cpu" \notin line'["nrfd"] \cup line'["ndac"]
  BY <1>0, CallMoves, AsksAt DEF BusInv, WiresOK
<1>3. pc = "reset" => ("cpu" \in line'["ndac"] => ToRelease("ndac")')
  BY <1>0, CallMoves, AsksAt DEF BusInv, WiresOK, ToRelease
<1> QED BY <1>0, <1>1, <1>2, <1>3 DEF BusInv, WiresOK

(* A call keeps what is said of ATN.                                       *)
LEMMA CallKeepsAttention == ASSUME BusInv, BusCall PROVE AttentionOK'
<1>0. pc' = pc /\ setup' = setup /\ todo' = todo /\ Types /\ "atn" \in Wires
      /\ ~Asks(Set("cpu", "atn"))'
  BY CallMoves DEF BusCall, BusInv, Wires
<1>1. "cpu" \in line'["atn"] <=>
        ("cpu" \in line["atn"] /\ ~Asks(Clr("cpu", "atn"))) \/ Asks(Set("cpu", "atn"))
  BY <1>0, CallMoves
<1>2. ASSUME "cpu" \in line'["atn"]
      PROVE  state' \in {"In1", "In2"}
  <2>1. CASE Asks(Set("cpu", "atn"))
    BY <2>1, CallAnswered
  <2>2. CASE ~Asks(Set("cpu", "atn"))
    <3>1. "cpu" \in line["atn"] /\ ~Asks(Clr("cpu", "atn"))
      BY <1>1, <1>2, <2>2
    <3>2. state \in {"In1", "In2"} /\ state \notin Talks
      BY <3>1 DEF BusInv, AttentionOK, Talks
    <3>3. \A b : Steady(Bus, b) => b.state = state
      BY BusFields DEF Steady
    <3>4. Bus'.state = state'
      BY DEF Bus
    <3>5. CASE Asks(Set("cpu", "dav"))
      BY <3>2, <3>3, <3>4, <3>5, CallAnswered
    <3>6. CASE Asks(Clr("cpu", "dav"))
      BY <3>2, <3>6, CallAnswered
    <3>7. CASE ~Asks(Set("cpu", "dav")) /\ ~Asks(Clr("cpu", "dav"))
      BY <2>2, <3>1, <3>2, <3>3, <3>4, <3>7, CallAnswered
    <3> QED BY <3>5, <3>6, <3>7
  <2> QED BY <2>1, <2>2
<1>3. Commanding' <=> Commanding
  BY <1>0 DEF Commanding
<1>4. Commanding => "cpu" \in line'["atn"]
  BY <1>1 DEF BusInv, AttentionOK, ReleaseOK
<1>5. "cpu" \in line'["atn"] => Commanding \/ ToRelease("atn")'
  <2>1. ToRelease("atn") => ToRelease("atn")'
    BY <1>0 DEF ToRelease
  <2>2. Asks(Set("cpu", "atn")) => Commanding
    BY <1>0, AsksAt DEF Commanding
  <2> QED BY <1>1, <2>1, <2>2 DEF BusInv, AttentionOK
<1> QED BY <1>0, <1>2, <1>3, <1>4, <1>5 DEF AttentionOK

(* A call keeps what is said of DAV and the data wires.                    *)
LEMMA CallKeepsBytes == ASSUME BusInv, BusCall PROVE BytesOK'
<1>0. pc' = pc /\ todo' = todo /\ Types /\ "dav" \in Wires /\ data'["cpu"] = data["cpu"]
      /\ ~Asks(Set("cpu", "dav"))'
  BY CallMoves, BusCallIs DEF BusCall, BusInv, Wires
<1>1. "cpu" \in line'["dav"] <=>
        ("cpu" \in line["dav"] /\ ~Asks(Clr("cpu", "dav"))) \/ Asks(Set("cpu", "dav"))
  BY <1>0, CallMoves
<1>2. ASSUME "cpu" \in line'["dav"]
      PROVE  pc \in {"command dav", "send dav"} \/ ToRelease("dav")'
  <2>1. ToRelease("dav") => ToRelease("dav")'
    BY <1>0 DEF ToRelease
  <2>2. ~Asks(Clr("cpu", "dav"))
    BY <1>0, <1>1, <1>2, AsksAt
  <2> QED BY <1>1, <1>2, <2>1, <2>2 DEF BusInv, BytesOK
<1>3. ASSUME state' \in Talks
      PROVE  \/ state \in Talks /\ ~Asks(Set("cpu", "dav"))
             \/ Asks(Clr("cpu", "atn")) /\ par_status.role = "talk"
  <2>0. "In1" \notin Talks /\ "In2" \notin Talks /\ Bus'.state = state' /\ Bus.state = state
    BY DEF Talks, Bus
  <2>1. CASE Asks(Set("cpu", "atn"))
    BY <1>3, <2>0, <2>1, CallAnswered
  <2>2. CASE Asks(Clr("cpu", "atn"))
    <3>1. ~Asks(Set("cpu", "dav"))
      BY <1>0, <2>2, AsksAt
    <3> QED BY <1>3, <2>2, <3>1, CallAnswered
  <2>3. CASE Asks(Set("cpu", "dav"))
    <3>1. state \notin Talks
      BY <1>0, <2>0, <2>3, AsksAt DEF BusInv, BytesOK
    <3> QED BY <1>3, <2>0, <2>3, <3>1, CallAnswered DEF Steady
  <2>4. CASE Asks(Clr("cpu", "dav"))
    <3>1. ~Asks(Set("cpu", "dav"))
      BY <1>0, <2>4, AsksAt
    <3> QED BY <1>3, <2>0, <2>4, <3>1, CallAnswered
  <2>5. CASE \A w \in {"atn", "dav"} : ~Asks(Set("cpu", w)) /\ ~Asks(Clr("cpu", w))
    BY <1>3, <2>0, <2>5, CallAnswered DEF Steady
  <2> QED BY <2>1, <2>2, <2>3, <2>4, <2>5
<1>4. state' \in Talks => data["cpu"] = Idle /\ "cpu" \notin line'["dav"]
  <2>1. Asks(Clr("cpu", "atn")) => ~Asks(Set("cpu", "dav"))
    BY <1>0, AsksAt
  <2> QED BY <1>1, <1>3, <2>1 DEF BusInv, BytesOK, ReleaseOK
<1>5. pc \in {"send", "send dav"} => state' \notin Talks
  BY <1>3 DEF BusInv, BytesOK, ReleaseOK
<1>6. data["cpu"] # Idle => pc \in {"command dav", "send dav"}
  BY DEF BusInv, BytesOK
<1> QED BY <1>0, <1>2, <1>4, <1>5, <1>6 DEF BytesOK

(* A call keeps what is said of the release of ATN.                        *)
LEMMA CallKeepsRelease == ASSUME BusInv, BusCall PROVE ReleaseOK'
  BY CallMoves DEF ReleaseOK

(* The command that fits is taken, and the rest of them fit.               *)
LEMMA FitsTaken ==
  ASSUME NEW rest, NEW dev, NEW role, NEW next, FitsWith(rest, dev, role, next), rest # <<>>,
         NEW dev2,
         dev2 = IF Addressing(Head(rest)) THEN [role |-> Head(rest).kind, device |-> Head(rest).device]
                ELSE IF Ending(Head(rest)) THEN Nobody ELSE dev
  PROVE  FitsWith(Tail(rest), dev2, dev2.role, next)
<1> DEFINE tail == Tail(rest)
           b == Head(rest)
<1>1. rest \in Seq(CommandByte)
  BY DEF FitsWith
<1>2. /\ tail \in Seq(CommandByte) /\ Len(tail) = Len(rest) - 1 /\ b = rest[1] /\ b \in CommandByte
      /\ \A i \in 1..Len(tail) : i + 1 \in 1..Len(rest) /\ tail[i] = rest[i + 1]
      /\ 1 \in 1..Len(rest) /\ Len(rest) \in Nat
      /\ tail = <<>> <=> Len(rest) = 1
      /\ tail # <<>> => Head(tail) = rest[2] /\ 2 \in 1..Len(rest) /\ tail[Len(tail)] = rest[Len(rest)]
  <2>1. Len(rest) \in Nat /\ Len(rest) > 0 /\ b = rest[1]
    BY <1>1
  <2>2. b \in CommandByte
    BY <1>1
  <2>3. tail \in Seq(CommandByte) /\ Len(tail) = Len(rest) - 1
    BY <1>1
  <2>4. \A i \in 1..Len(tail) : i + 1 \in 1..Len(rest) /\ tail[i] = rest[i + 1]
    BY <1>1
  <2>5. tail = <<>> <=> Len(tail) = 0
    BY <2>3
  <2>6. ASSUME tail # <<>>
        PROVE  Head(tail) = rest[2] /\ 2 \in 1..Len(rest) /\ tail[Len(tail)] = rest[Len(rest)]
    <3>1. Len(tail) # 0 /\ Len(tail) \in Nat
      BY <2>3, <2>5, <2>6
    <3>2. Head(tail) = tail[1]
      BY <2>3, <2>6
    <3> HIDE DEF tail
    <3>3. 1 \in 1..Len(tail) /\ Len(tail) \in 1..Len(tail) /\ 2 \in 1..Len(rest)
      BY <2>1, <2>3, <3>1
    <3>4. tail[1] = rest[2] /\ tail[Len(tail)] = rest[Len(tail) + 1]
      BY <2>4, <3>3
    <3>5. Len(tail) + 1 = Len(rest)
      BY <2>1, <2>3
    <3> QED BY <3>2, <3>3, <3>4, <3>5
  <2> HIDE DEF tail, b
  <2> QED BY <2>1, <2>2, <2>3, <2>4, <2>5, <2>6
<1>3. dev2 = IF Addressing(b) THEN [role |-> b.kind, device |-> b.device]
             ELSE IF Ending(b) THEN Nobody ELSE dev
  OBVIOUS
<1> HIDE DEF tail, b
<1>4. Addressing(b) => dev2 # Nobody /\ dev2.role = b.kind
  BY <1>3 DEF Nobody, Addressing
<1>5. \A i \in 1..Len(rest) : rest[i].kind \in {"unlisten", "untalk"} => i = Len(rest)
  BY DEF FitsWith
<1>6. ASSUME tail # <<>>, Head(tail).kind \in {"second", "open", "close"}
      PROVE  dev2 # Nobody
  <2>1. ~Ending(b)
    BY <1>2, <1>5, <1>6 DEF Ending
  <2>2. CASE Addressing(b)
    BY <1>4, <2>2
  <2>3. CASE ~Addressing(b)
    <3>1. dev2 = dev /\ b.kind \in {"second", "open", "close"}
      BY <1>2, <1>3, <2>1, <2>3 DEF CommandByte, Addressing, Ending
    <3> QED BY <3>1 DEF FitsWith, b
  <2> QED BY <2>2, <2>3
<1>7. ASSUME NEW i \in 1..Len(tail), tail[i].kind \in {"unlisten", "untalk"}
      PROVE  i = Len(tail)
  <2>1. i + 1 = Len(rest)
    BY <1>2, <1>5, <1>7
  <2> QED BY <1>2, <2>1
<1>8. ASSUME next = "send"
      PROVE  /\ \A i \in 1..Len(tail) : tail[i].kind \in {"listen", "second", "open"}
             /\ dev2.role = "listen"
  <2>1. \A i \in 1..Len(rest) : rest[i].kind \in {"listen", "second", "open"}
    BY <1>8 DEF FitsWith
  <2>2. b.kind \in {"listen", "second", "open"} /\ ~Ending(b)
    BY <1>2, <2>1 DEF Ending
  <2>3. b.kind # "listen" => dev.role = "listen" /\ dev2 = dev
    BY <1>3, <1>8, <2>2 DEF FitsWith, Addressing, b
  <2>4. b.kind = "listen" => dev2.role = "listen"
    BY <1>4 DEF Addressing
  <2> QED BY <1>2, <2>1, <2>3, <2>4
<1>9. ASSUME next = "end"
      PROVE  /\ tail # <<>> => tail[Len(tail)].kind \in {"unlisten", "untalk"}
             /\ tail = <<>> => dev2.role = "none"
  <2>1. rest[Len(rest)].kind \in {"unlisten", "untalk"}
    BY <1>9 DEF FitsWith
  <2>2. ASSUME tail = <<>>
        PROVE  dev2.role = "none"
    <3>1. Ending(b) /\ ~Addressing(b)
      BY <1>2, <2>1, <2>2 DEF Ending, Addressing
    <3> QED BY <1>3, <3>1 DEF Nobody
  <2> QED BY <1>2, <2>1, <2>2
<1>10. FitsWith(tail, dev2, dev2.role, next)
  BY <1>2, <1>6, <1>7, <1>8, <1>9 DEF FitsWith
<1> QED BY <1>10 DEF tail

(* Nothing is taken.                                                       *)
LEMMA FitsStill ==
  ASSUME NEW rest, NEW dev, NEW role, NEW role2, NEW next, FitsWith(rest, dev, role, next),
         rest # <<>> \/ role2 = role
  PROVE  FitsWith(rest, dev, role2, next)
  BY DEF FitsWith

(* A call that brings a command byte leaves the rest of them fitting.      *)
LEMMA CallKeepsCommands == ASSUME BusInv, BusCall PROVE CommandsOK'
<1>0. pc' = pc /\ todo' = todo /\ after' = after /\ Types
      /\ ~Asks(Set("cpu", "dav"))'
  BY CallMoves DEF BusCall, BusInv
<1>1. /\ Bus'.state = state' /\ Bus'.trap = trap' /\ Bus'.par_status = par_status'
      /\ Bus.state = state /\ Bus.trap = trap /\ Bus.par_status = par_status
      /\ Bus.data = data /\ Bus.line = line
  BY DEF Bus
<1>2. ASSUME "cpu" \in line["atn"],
             \A w \in {"atn", "dav"} : ~Asks(Set("cpu", w)) /\ ~Asks(Clr("cpu", w))
      PROVE  trap' = trap /\ par_status' = par_status
  <2>1. state \notin Talks
    BY <1>2 DEF BusInv, AttentionOK, Talks
  <2> QED BY <1>1, <1>2, <2>1, CallAnswered DEF Steady
<1>3. ASSUME pc \in {"attention", "command"}
      PROVE  Fits(todo)'
  <2>0. FitsWith(todo, trap.device, par_status.role, after) /\ Commanding
    BY <1>3 DEF BusInv, CommandsOK, Fits, Commanding
  <2>1. trap'.device = trap.device /\ (todo # <<>> \/ par_status'.role = par_status.role)
    <3>1. CASE Asks(Set("cpu", "atn"))
      BY <3>1, CallAnswered DEF BusInv, AttentionOK
    <3>2. CASE ~Asks(Set("cpu", "atn"))
      <4>1. "cpu" \in line["atn"]
        BY <2>0, <3>2 DEF BusInv, AttentionOK
      <4>2. ~Asks(Clr("cpu", "atn")) /\ ~Asks(Set("cpu", "dav"))
        BY <1>0, <1>3, AsksAt
      <4>3. CASE Asks(Clr("cpu", "dav"))
        BY <4>3, CallAnswered
      <4>4. CASE ~Asks(Clr("cpu", "dav"))
        BY <1>2, <3>2, <4>1, <4>2, <4>4
      <4> QED BY <4>3, <4>4
    <3> QED BY <3>1, <3>2
  <2>2. FitsWith(todo, trap'.device, par_status'.role, after)
    BY <2>0, <2>1, FitsStill
  <2> QED BY <1>0, <2>2 DEF Fits
<1>4. ASSUME pc = "command dav"
      PROVE  todo # <<>> /\ Fits(Tail(todo))'
  <2>0. todo # <<>> /\ Commanding
        /\ \A w \in {"atn", "nrfd", "ndac"} : ~Asks(Set("cpu", w)) /\ ~Asks(Clr("cpu", w))
        /\ ~Asks(Clr("cpu", "dav"))
    BY <1>0, <1>4, AsksAt DEF BusInv, CommandsOK, Commanding
  <2>1. "cpu" \in line["atn"]
    BY <2>0 DEF BusInv, AttentionOK
  <2>2. CASE Asks(Set("cpu", "dav"))
    <3>1. FitsWith(todo, trap.device, par_status.role, after)
      BY <1>4, <2>2 DEF BusInv, CommandsOK, Fits
    <3>2. state = "In1" /\ data["cpu"] = Head(todo) /\ "cpu" \notin line["dav"]
      BY <1>4, <2>2 DEF BusInv, BytesOK
    <3>3. ~Pulled(Bus, "dav")
      <4>1. Mine(Bus) \subseteq {"ndac"} /\ line["dav"] \subseteq Driver
        BY <1>0, <1>1, <3>2 DEF Types, BusOK, Placed, MayPull, BusState, Wires
      <4>2. "emu" \notin line["dav"]
        BY <1>1, <4>1 DEF Mine, Wires
      <4>3. "drv" \notin line["dav"]
        BY DEF BusInv, WiresOK, Wires
      <4> QED BY <1>1, <3>2, <4>1, <4>2, <4>3 DEF Pulled, Driver
    <3>4. HeardCommand(Bus, Bus')
      BY <2>2, <3>2, <3>3, CallAnswered
    <3>5. Pulled(Bus, "atn")
      BY <1>1, <2>1 DEF Pulled
    <3>6. /\ trap'.device = IF Addressing(Head(todo))
                            THEN [role |-> Head(todo).kind, device |-> Head(todo).device]
                            ELSE IF Ending(Head(todo)) THEN Nobody ELSE trap.device
          /\ par_status'.role = trap'.device.role
      BY <1>1, <3>2, <3>4, <3>5 DEF HeardCommand
    <3>7. FitsWith(Tail(todo), trap'.device, trap'.device.role, after)
      BY <2>0, <3>1, <3>6, FitsTaken
    <3> QED BY <1>0, <2>0, <3>6, <3>7 DEF Fits
  <2>3. CASE ~Asks(Set("cpu", "dav"))
    <3>1. FitsWith(Tail(todo), trap.device, par_status.role, after)
      BY <1>4, <2>3 DEF BusInv, CommandsOK, Fits
    <3>2. trap' = trap /\ par_status' = par_status
      BY <1>2, <2>0, <2>1, <2>3
    <3> QED BY <1>0, <2>0, <3>1, <3>2 DEF Fits
  <2> QED BY <2>2, <2>3
<1> QED BY <1>0, <1>3, <1>4 DEF CommandsOK

(* A call keeps the invariant.                                             *)
LEMMA CallKeeps == ASSUME BusInv, BusCall PROVE BusInv'
  BY CallKeepsTypes, CallKeepsWires, CallKeepsAttention, CallKeepsBytes, CallKeepsRelease,
     CallKeepsCommands DEF BusInv

-----------------------------------------------------------------------------
(* The machine's own steps: the calls of the last one have returned.       *)
LEMMA Returned ==
  ASSUME BusInv, calls = <<>>
  PROVE  /\ \A call : ~Asks(call)
         /\ Commanding => "cpu" \in line["atn"]
         /\ "cpu" \in line["atn"] => Commanding \/ ToRelease("atn")
         /\ Pulled(Bus, "atn") <=> "cpu" \in line["atn"]
         /\ "cpu" \in line["atn"] => state \in {"In1", "In2"} /\ state \notin Talks
         /\ "cpu" \in line["dav"] => pc \in {"command dav", "send dav"} \/ ToRelease("dav")
         /\ data["cpu"] # Idle => pc \in {"command dav", "send dav"}
         /\ state \in Talks =>
              data["cpu"] = Idle /\ "cpu" \notin line["dav"] /\ pc \notin {"send", "send dav"}
<1>1. \A call : ~Asks(call)
  BY DEF Asks
<1>2. line["atn"] \subseteq Driver /\ "drv" \notin line["atn"] /\ "emu" \notin line["atn"]
  <2>1. Mine(Bus) \subseteq MayPull(state) /\ line["atn"] \subseteq Driver
    BY BusFields DEF BusInv, Types, BusOK, Placed, BusState, Wires
  <2>2. "atn" \notin MayPull(state)
    BY DEF MayPull
  <2>3. "emu" \notin line["atn"]
    BY <2>1, <2>2, BusFields DEF Mine, Wires
  <2>4. "drv" \notin line["atn"]
    BY DEF BusInv, WiresOK, Wires
  <2> QED BY <2>1, <2>3, <2>4
<1>3. Pulled(Bus, "atn") <=> "cpu" \in line["atn"]
  BY <1>2, BusFields DEF Pulled, Driver
<1> QED BY <1>1, <1>3 DEF BusInv, AttentionOK, BytesOK, Talks

(* The bus itself is as it was, but for the machine's byte.                *)
LEMMA SameBus ==
  ASSUME BusOK(Bus), UNCHANGED <<line, device>>,
         \/ data' = data
         \/ \E v \in Nat \cup {Idle} \cup CommandByte : data' = [data EXCEPT !["cpu"] = v]
  PROVE  /\ BusOK(Bus')
         /\ data' # data => data'["emu"] = data["emu"]
<1> DEFINE x == [Bus EXCEPT !.data = data']
<1>0. data \in [Driver -> Nat \cup {Idle} \cup CommandByte] /\ Bus \in BusState
  BY BusFields DEF BusOK, BusState
<1>1. data' \in [Driver -> Nat \cup {Idle} \cup CommandByte] /\ data'["emu"] = data["emu"]
  BY <1>0 DEF Driver
<1>2. x \in BusState
  BY <1>0, <1>1, BusKept
<1>3. Bus' = x
  BY DEF Bus, device
<1>4. x.line = line /\ x.data = data' /\ x.state = state /\ x.par_status = par_status /\ x.trap = trap
  BY DEF Bus
<1> HIDE DEF x
<1>5. Mine(x) = Mine(Bus)
  BY <1>4, BusFields DEF Mine
<1>6. BusOK(x)
  BY <1>1, <1>2, <1>4, <1>5, BusFields DEF BusOK, Placed
<1> QED BY <1>1, <1>3, <1>6

(* Nobody calls.                                                           *)
LEMMA NoCall ==
  ASSUME calls' = <<>>
  PROVE  CallsOK' /\ \A call : ~Asks(call)'
<1>1. <<>> \in Seq(Call) /\ Len(<<>>) = 0
  OBVIOUS
<1>2. \A i \in 1..0 : FALSE
  OBVIOUS
<1> QED BY <1>1, <1>2 DEF CallsOK, Asks

(* One call of the machine or of the drive's CPU.                          *)
LEMMA OneCall ==
  ASSUME NEW call \in Call, calls' = <<call>>,
         IF call.who = "drv" THEN setup'.drive /\ call.wire \in {"nrfd", "ndac"}
         ELSE <<pc', call>> \in CallsAt
  PROVE  CallsOK' /\ \A c : Asks(c)' <=> c = call
<1>1. <<call>> \in Seq(Call) /\ Len(<<call>>) = 1 /\ <<call>>[1] = call /\ Head(<<call>>) = call
      /\ <<call>> # <<>>
  OBVIOUS
<1>2. \A i \in 1..1 : i = 1
  OBVIOUS
<1> QED BY <1>1, <1>2 DEF CallsOK, Asks

(* The machine's call comes first; the drive's hardware follows.           *)
LEMMA AndTheDrive ==
  ASSUME NEW call \in Call, NEW more \in Seq({Set("drv", "nrfd"), Set("drv", "ndac")}),
         calls' = <<call>> \o more, more # <<>> => setup'.drive,
         call.who = "cpu", <<pc', call>> \in CallsAt
  PROVE  CallsOK' /\ \A c : Asks(c)' <=> c = call
<1> DEFINE s == <<call>> \o more
<1>1. Set("drv", "nrfd") \in Call /\ Set("drv", "ndac") \in Call
  BY DEF Set, Call, Wires
<1>2. more \in Seq(Call) /\ <<call>> \in Seq(Call)
  BY <1>1
<1>3. s \in Seq(Call) /\ Len(s) = 1 + Len(more) /\ s[1] = call /\ s # <<>> /\ Head(s) = call
  BY <1>2
<1>4. \A i \in 1..Len(s) : i # 1 => i - 1 \in 1..Len(more) /\ s[i] = more[i - 1]
  BY <1>2
<1>5. \A i \in 1..Len(more) : more[i].who = "drv" /\ more[i].wire \in {"nrfd", "ndac"} /\ more # <<>>
  BY DEF Set
<1> HIDE DEF s
<1>6. calls' = s
  BY DEF s
<1>7. ASSUME NEW i \in 1..Len(s)
      PROVE  IF s[i].who = "drv" THEN setup'.drive /\ s[i].wire \in {"nrfd", "ndac"}
             ELSE i = 1 /\ <<pc', s[i]>> \in CallsAt
  <2>1. CASE i = 1
    BY <1>3, <2>1
  <2>2. CASE i # 1
    BY <1>4, <1>5, <2>2
  <2> QED BY <2>1, <2>2
<1>8. CallsOK'
  BY <1>3, <1>6, <1>7 DEF CallsOK
<1>9. \A c : Asks(c)' <=> c = call
  BY <1>3, <1>6 DEF Asks
<1> QED BY <1>8, <1>9

(* The machine's calls and the places they are made at.                    *)
LEMMA MachineCalls ==
  /\ \A w \in Wires : /\ Set("cpu", w) \in Call /\ Set("cpu", w).who = "cpu"
                      /\ Clr("cpu", w) \in Call /\ Clr("cpu", w).who = "cpu"
  /\ \A p \in {"turn", "send", "receive", "idle", "reset"} : <<p, Clr("cpu", "atn")>> \in CallsAt
  /\ <<"attention", Set("cpu", "atn")>> \in CallsAt
  /\ \A w \in {"nrfd", "ndac"} : <<"attention", Clr("cpu", w)>> \in CallsAt
  /\ \A w \in {"nrfd", "ndac"} : <<"turn", Set("cpu", w)>> \in CallsAt
  /\ \A w \in {"nrfd", "ndac", "dav", "atn"} : <<"reset", Clr("cpu", w)>> \in CallsAt
  /\ \A p \in {"command", "send"} : <<p, Clr("cpu", "dav")>> \in CallsAt
  /\ \A p \in {"command dav", "send dav"} : <<p, Set("cpu", "dav")>> \in CallsAt
  /\ <<"receive dav", Clr("cpu", "nrfd")>> \in CallsAt
  /\ <<"receive taken", Set("cpu", "nrfd")>> \in CallsAt
  /\ <<"receive accepted", Clr("cpu", "ndac")>> \in CallsAt
  /\ \A p \in {"receive", "receive end"} : <<p, Set("cpu", "ndac")>> \in CallsAt
<1>1. \A w \in Wires : /\ Set("cpu", w) \in Call /\ Set("cpu", w).who = "cpu"
                       /\ Clr("cpu", w) \in Call /\ Clr("cpu", w).who = "cpu"
  BY DEF Set, Clr, Call
<1> QED BY <1>1 DEF CallsAt

(* What the drive's hardware does with ATN.                                *)
LEMMA DriveAndAtn ==
  ASSUME Types
  PROVE  /\ AtnFallsForDrive \in Seq({Set("drv", "nrfd"), Set("drv", "ndac")})
         /\ AtnRisesForDrive \in Seq({Set("drv", "nrfd"), Set("drv", "ndac")})
         /\ AtnFallsForDrive # <<>> \/ AtnRisesForDrive # <<>> => setup.drive
         /\ \A at \in {"atn", "leaving"} :
              /\ DriveAfterAtn(at) \in [at : PlaceOfDrive, listens : BOOLEAN]
              /\ setup.drive <=> DriveAfterAtn(at).at # "absent"
<1>1. drive \in [at : PlaceOfDrive, listens : BOOLEAN] /\ (setup.drive <=> drive.at # "absent")
  BY DEF Types
<1>2. <<>> \in Seq({Set("drv", "nrfd"), Set("drv", "ndac")})
      /\ <<Set("drv", "nrfd")>> \in Seq({Set("drv", "nrfd"), Set("drv", "ndac")})
      /\ <<Set("drv", "nrfd"), Set("drv", "ndac")>> \in Seq({Set("drv", "nrfd"), Set("drv", "ndac")})
  OBVIOUS
<1>3. ASSUME NEW at \in {"atn", "leaving"}
      PROVE  /\ DriveAfterAtn(at) \in [at : PlaceOfDrive, listens : BOOLEAN]
             /\ setup.drive <=> DriveAfterAtn(at).at # "absent"
  <2>1. [drive EXCEPT !.at = at] \in [at : PlaceOfDrive, listens : BOOLEAN]
        /\ [drive EXCEPT !.at = at].at = at /\ at # "absent"
    BY <1>1 DEF PlaceOfDrive
  <2> QED BY <1>1, <2>1 DEF DriveAfterAtn
<1> QED BY <1>1, <1>2, <1>3 DEF AtnFallsForDrive, AtnRisesForDrive

(* ATN is pulled for a new row of commands.                                *)
LEMMA Attends ==
  ASSUME BusInv, calls = <<>>,
         pc \notin {"attention", "command", "command dav", "send dav", "turn", "reset"},
         NEW first \in Seq(CommandByte), NEW next \in {"end", "send", "turn"},
         PullAtn(first, next), first # <<>>,
         Head(first).kind \in {"listen", "talk", "unlisten", "untalk"},
         \A dev, role : FitsWith(first, dev, role, next),
         setup' = setup, job'.bytes \in Seq(Nat), sent' \in Nat
  PROVE  BusInv'
<1>0. /\ calls' = <<Set("cpu", "atn")>> \o AtnFallsForDrive /\ pc' = "attention"
      /\ UNCHANGED <<line, device>> /\ data' = data
      /\ drive' = DriveAfterAtn("atn") /\ todo' = first /\ after' = next
      /\ state' = state /\ trap' = trap /\ par_status' = par_status /\ own' = own
  BY DEF PullAtn, Cpu, device
<1>1. Types /\ BusOK(Bus)
  BY DEF BusInv, Types
<1>2. CallsOK' /\ \A c : Asks(c)' <=> c = Set("cpu", "atn")
  <2>1. Set("cpu", "atn") \in Call /\ Set("cpu", "atn").who = "cpu"
        /\ <<pc', Set("cpu", "atn")>> \in CallsAt
    BY <1>0, MachineCalls DEF Wires
  <2> QED BY <1>0, <1>1, <2>1, DriveAndAtn, AndTheDrive
<1>3. BusOK(Bus')
  BY <1>0, <1>1, SameBus
<1>4. Types'
  BY <1>0, <1>1, <1>2, <1>3, DriveAndAtn DEF Types, PlaceOfMachine
<1>5. WiresOK'
  BY <1>0 DEF BusInv, WiresOK
<1>6. AttentionOK'
  BY <1>0, <1>2, Returned DEF AttentionOK, Commanding
<1>7. \A w \in Wires : Set("cpu", "atn") # Clr("cpu", w) /\ Set("cpu", "atn") # Set("cpu", "dav")
  BY Distinct DEF Wires
<1>8. data["cpu"] = Idle /\ "cpu" \notin line["dav"]
  BY Returned DEF ToRelease
<1>9. BytesOK'
  BY <1>0, <1>2, <1>7, <1>8 DEF BytesOK, Wires
<1>10. ReleaseOK'
  BY <1>2, <1>7 DEF ReleaseOK, Wires
<1>11. CommandsOK'
  BY <1>0 DEF CommandsOK, Fits
<1> QED BY <1>4, <1>5, <1>6, <1>9, <1>10, <1>11 DEF BusInv

(* ATN is released after the commands.                                     *)
LEMMA Releases ==
  ASSUME BusInv, calls = <<>>, pc \in {"command", "turn"}, "cpu" \in line["atn"],
         NEW next \in {"turn", "send", "receive", "idle"}, ReleaseAtn(next),
         next = "turn" => setup.machine # "new",
         next = "send" => todo' \in Seq(Nat) /\ par_status.role # "talk",
         par_status.role = "talk" => (Beside("ndac") # {} => Beside("nrfd") # {}),
         after' \in {"end", "send", "turn"},
         setup' = setup, job'.bytes \in Seq(Nat), sent' \in Nat
  PROVE  BusInv'
<1>0. /\ calls' = <<Clr("cpu", "atn")>> \o AtnRisesForDrive /\ pc' = next
      /\ UNCHANGED <<line, device>> /\ data' = data
      /\ drive' = DriveAfterAtn("leaving")
      /\ state' = state /\ trap' = trap /\ par_status' = par_status /\ own' = own
  BY DEF ReleaseAtn, Cpu, device
<1>1. Types /\ BusOK(Bus)
  BY DEF BusInv, Types
<1>2. CallsOK' /\ \A c : Asks(c)' <=> c = Clr("cpu", "atn")
  <2>1. Clr("cpu", "atn") \in Call /\ Clr("cpu", "atn").who = "cpu"
        /\ <<pc', Clr("cpu", "atn")>> \in CallsAt
    BY <1>0, MachineCalls DEF Wires
  <2> QED BY <1>0, <1>1, <2>1, DriveAndAtn, AndTheDrive
<1>3. BusOK(Bus')
  BY <1>0, <1>1, SameBus
<1>4. Types'
  BY <1>0, <1>1, <1>2, <1>3, DriveAndAtn DEF Types, PlaceOfMachine
<1>5. WiresOK'
  BY <1>0 DEF BusInv, WiresOK
<1>6. \A w \in Wires : Clr("cpu", "atn") # Set("cpu", w) /\ Clr("cpu", "atn") # Clr("cpu", "dav")
  BY Distinct DEF Wires
<1>7. ~Commanding'
  BY <1>0 DEF Commanding
<1>8. AttentionOK'
  BY <1>0, <1>2, <1>6, <1>7, Returned DEF AttentionOK, Wires
<1>9. data["cpu"] = Idle /\ "cpu" \notin line["dav"] /\ state \notin Talks
  BY Returned DEF ToRelease
<1>10. BytesOK'
  BY <1>0, <1>2, <1>6, <1>9 DEF BytesOK, Wires
<1>11. ReleaseOK'
  BY <1>0, <1>7, <1>9 DEF ReleaseOK, Beside
<1>12. CommandsOK'
  BY <1>0 DEF CommandsOK
<1> QED BY <1>4, <1>5, <1>8, <1>10, <1>11, <1>12 DEF BusInv

(* The machine changes NRFD or NDAC, or goes on.                           *)
LEMMA Shakes ==
  ASSUME BusInv, calls = <<>>, pc \notin {"command dav", "send dav", "reset"},
         NEW new, NEW next \in {"attention", "command", "turn", "receive", "receive dav",
                                "receive taken", "receive accepted", "receive end"},
         Cpu(new, next),
         \/ new = <<>>
         \/ \E w \in {"nrfd", "ndac"} : \E call \in {Set("cpu", w), Clr("cpu", w)} :
              new = <<call>> /\ <<next, call>> \in CallsAt,
         next \in {"attention", "command"} => Fits(todo),
         next = "command" => "cpu" \notin line["nrfd"] \cup line["ndac"],
         Commanding' <=> "cpu" \in line["atn"],
         UNCHANGED <<data, setup, todo, after, drive>>, job'.bytes \in Seq(Nat), sent' \in Nat
  PROVE  BusInv'
<1>0. /\ calls' = new /\ pc' = next
      /\ UNCHANGED <<line, device>> /\ data' = data /\ setup' = setup /\ todo' = todo
      /\ after' = after /\ drive' = drive
      /\ state' = state /\ trap' = trap /\ par_status' = par_status /\ own' = own
  BY DEF Cpu, device
<1>1. Types /\ BusOK(Bus)
  BY DEF BusInv, Types
<1>2. CallsOK' /\ \A w \in {"atn", "dav"} : ~Asks(Set("cpu", w))' /\ ~Asks(Clr("cpu", w))'
  <2>1. CASE new = <<>>
    BY <1>0, <2>1, NoCall
  <2>2. CASE new # <<>>
    <3>1. PICK w \in {"nrfd", "ndac"} : \E call \in {Set("cpu", w), Clr("cpu", w)} :
            new = <<call>> /\ <<next, call>> \in CallsAt
      BY <2>2
    <3>2. PICK call \in {Set("cpu", w), Clr("cpu", w)} : new = <<call>> /\ <<next, call>> \in CallsAt
      BY <3>1
    <3>3. call \in Call /\ call.who = "cpu"
      BY MachineCalls DEF Wires
    <3>4. CallsOK' /\ \A c : Asks(c)' <=> c = call
      BY <1>0, <3>2, <3>3, OneCall
    <3>5. \A v \in {"atn", "dav"} : call # Set("cpu", v) /\ call # Clr("cpu", v)
      BY Distinct DEF Wires
    <3> QED BY <3>4, <3>5
  <2> QED BY <2>1, <2>2
<1>3. BusOK(Bus')
  BY <1>0, <1>1, SameBus
<1>4. Types'
  BY <1>0, <1>1, <1>2, <1>3 DEF Types, PlaceOfMachine
<1>5. WiresOK'
  BY <1>0 DEF BusInv, WiresOK
<1>6. AttentionOK'
  BY <1>0, <1>2, Returned DEF AttentionOK
<1>7. data["cpu"] = Idle /\ "cpu" \notin line["dav"]
  BY Returned DEF ToRelease
<1>8. BytesOK'
  BY <1>0, <1>2, <1>7 DEF BytesOK
<1>9. ReleaseOK'
  BY <1>2 DEF ReleaseOK
<1>10. CommandsOK'
  BY <1>0 DEF CommandsOK, Fits
<1> QED BY <1>4, <1>5, <1>6, <1>8, <1>9, <1>10 DEF BusInv

(* Under ATN the machine lets go of NRFD and NDAC.                         *)
LEMMA WatchWiresKeeps == ASSUME BusInv, calls = <<>>, WatchWires PROVE BusInv'
<1>1. pc = "attention" /\ job' = job /\ sent' = sent /\ UNCHANGED <<data, setup, todo, after, drive>>
      /\ Fits(todo) /\ job.bytes \in Seq(Nat) /\ sent \in Nat
  BY DEF WatchWires, Quiet, file, BusInv, CommandsOK, Types
<1>2. Commanding
  BY <1>1 DEF Commanding
<1>3. "cpu" \in line["atn"]
  BY <1>2, Returned
<1>4. ASSUME NEW w \in {"nrfd", "ndac"}, Cpu(<<Clr("cpu", w)>>, "attention")
      PROVE  BusInv'
  <2>1. Commanding'
    BY <1>4 DEF Cpu, Commanding
  <2>2. <<"attention", Clr("cpu", w)>> \in CallsAt
    BY MachineCalls
  <2> QED BY <1>1, <1>3, <1>4, <2>1, <2>2, Shakes
<1>5. ASSUME ~Holds("nrfd"), ~Holds("ndac"), Cpu(<<>>, "command")
      PROVE  BusInv'
  <2>1. Commanding'
    BY <1>5 DEF Cpu, Commanding
  <2>2. "cpu" \notin line["nrfd"] \cup line["ndac"]
    BY <1>5 DEF Holds
  <2> QED BY <1>1, <1>3, <1>5, <2>1, <2>2, Shakes
<1> QED BY <1>4, <1>5 DEF WatchWires

(* The machine takes a byte.                                               *)
LEMMA ReceivingKeeps ==
  ASSUME BusInv, calls = <<>>, Ready \/ TakeByte \/ Accept \/ Accepted
  PROVE  BusInv'
<1>0. job.bytes \in Seq(Nat) /\ sent \in Nat
  BY DEF BusInv, Types
<1>1. pc \in {"receive", "receive dav", "receive taken", "receive accepted"}
  BY DEF Ready, TakeByte, Accept, Accepted
<1>2. "cpu" \notin line["atn"]
  BY <1>1, Returned DEF Commanding, ToRelease
<1>3. UNCHANGED <<data, setup, todo, after, drive>> /\ job' = job /\ sent' = sent
  BY DEF Ready, TakeByte, Accept, Accepted, Quiet, file
<1>4. ASSUME NEW w \in {"nrfd", "ndac"}, NEW call \in {Set("cpu", w), Clr("cpu", w)},
             NEW next \in {"receive", "receive dav", "receive taken", "receive accepted", "receive end"},
             <<next, call>> \in CallsAt, Cpu(<<call>>, next)
      PROVE  BusInv'
  <2>1. ~Commanding'
    BY <1>4 DEF Cpu, Commanding
  <2> DEFINE new == <<call>>
  <2>2. \E u \in {"nrfd", "ndac"} : \E c \in {Set("cpu", u), Clr("cpu", u)} :
          new = <<c>> /\ <<next, c>> \in CallsAt
    BY <1>4
  <2>3. Cpu(new, next)
    BY <1>4
  <2> HIDE DEF new
  <2> QED BY <1>0, <1>1, <1>2, <1>3, <1>4, <2>1, <2>2, <2>3, Shakes
<1>5. CASE Ready
  BY <1>4, <1>5, MachineCalls DEF Ready
<1>6. CASE TakeByte
  BY <1>4, <1>6, MachineCalls DEF TakeByte
<1>7. CASE Accept
  BY <1>4, <1>7, MachineCalls DEF Accept
<1>8. CASE Accepted
  <2>1. CASE latch.eoi
    BY <1>4, <1>8, <2>1, MachineCalls DEF Accepted
  <2>2. CASE ~latch.eoi
    BY <1>4, <1>8, <2>2, MachineCalls DEF Accepted
  <2> QED BY <2>1, <2>2
<1> QED BY <1>5, <1>6, <1>7, <1>8

(* The machine puts a byte on the bus, or takes it away.                   *)
LEMMA ShowsIs ==
  ASSUME Types, NEW v \in Nat \cup {Idle} \cup CommandByte, Shows(v), UNCHANGED <<line, device>>
  PROVE  BusOK(Bus') /\ data'["cpu"] = v
<1>1. data \in [Driver -> Nat \cup {Idle} \cup CommandByte] /\ BusOK(Bus)
  BY BusFields DEF Types, BusOK, BusState
<1>2. data' = [data EXCEPT !["cpu"] = v]
  BY DEF Shows
<1>3. data'["cpu"] = v
  BY <1>1, <1>2 DEF Driver
<1>4. BusOK(Bus')
  <2>1. \E u \in Nat \cup {Idle} \cup CommandByte : data' = [data EXCEPT !["cpu"] = u]
    BY <1>2
  <2> QED BY <1>1, <2>1, SameBus
<1> QED BY <1>3, <1>4

(* A command byte is shown, and DAV about to be pulled: the device listens *)
(* in In1.                                                                 *)
LEMMA SendCommandKeeps == ASSUME BusInv, calls = <<>>, SendCommand PROVE BusInv'
<1>0. /\ pc = "command" /\ todo # <<>> /\ ~Pulled(Bus, "nrfd") /\ Shows(Head(todo))
      /\ calls' = <<Set("cpu", "dav")>> /\ pc' = "command dav"
      /\ UNCHANGED <<line, device>> /\ setup' = setup /\ todo' = todo
      /\ after' = after /\ drive' = drive /\ job' = job /\ sent' = sent
      /\ state' = state /\ trap' = trap /\ par_status' = par_status /\ own' = own
  BY DEF SendCommand, Cpu, device, Quiet, file
<1>1. Types /\ Fits(todo) /\ Commanding /\ Commanding'
  BY <1>0 DEF BusInv, CommandsOK, Commanding
<1>2. "cpu" \in line["atn"] /\ "cpu" \notin line["dav"] /\ state \in {"In1", "In2"} /\ state \notin Talks
  BY <1>0, <1>1, Returned DEF ToRelease
<1>3. state = "In1"
  <2>1. state = "In2" => "emu" \in line["nrfd"]
    BY <1>1, BusFields DEF Types, BusOK, Placed, Mine
  <2> QED BY <1>0, <1>2, <2>1, BusFields DEF Pulled
<1>4. Head(todo) \in CommandByte
  <2>1. todo \in Seq(CommandByte)
    BY <1>1 DEF Fits, FitsWith
  <2> QED BY <1>0, <2>1, HeadAndTail
<1>5. BusOK(Bus') /\ data'["cpu"] = Head(todo)
  BY <1>0, <1>1, <1>4, ShowsIs
<1>6. CallsOK' /\ \A c : Asks(c)' <=> c = Set("cpu", "dav")
  BY <1>0, MachineCalls, OneCall DEF Wires
<1>7. /\ \A w \in Wires : Set("cpu", "dav") # Clr("cpu", w)
      /\ Set("cpu", "dav") # Set("cpu", "atn")
  BY Distinct DEF Wires
<1>8. Types'
  BY <1>0, <1>1, <1>5, <1>6 DEF Types, PlaceOfMachine
<1>9. WiresOK'
  BY <1>0 DEF BusInv, WiresOK
<1>10. AttentionOK'
  BY <1>0, <1>1, <1>2, <1>6, <1>7 DEF AttentionOK
<1>11. BytesOK'
  BY <1>0, <1>2, <1>3, <1>5 DEF BytesOK
<1>12. ReleaseOK'
  BY <1>6, <1>7 DEF ReleaseOK, Wires
<1>13. CommandsOK'
  BY <1>0, <1>1, <1>6 DEF CommandsOK, Fits
<1> QED BY <1>8, <1>9, <1>10, <1>11, <1>12, <1>13 DEF BusInv

(* A byte of data is shown.                                                *)
LEMMA SendByteKeeps == ASSUME BusInv, calls = <<>>, SendByte PROVE BusInv'
<1>0. /\ pc = "send" /\ todo # <<>> /\ Shows(Head(todo))
      /\ calls' = <<Set("cpu", "dav")>> /\ pc' = "send dav"
      /\ UNCHANGED <<line, device>> /\ setup' = setup /\ todo' = todo
      /\ after' = after /\ drive' = drive /\ job' = job /\ sent' = sent
      /\ state' = state /\ trap' = trap /\ par_status' = par_status /\ own' = own
  BY DEF SendByte, Cpu, device, Quiet, file
<1>1. Types /\ todo \in Seq(Nat) /\ ~Commanding'
  BY <1>0 DEF BusInv, Types, Commanding
<1>2. "cpu" \notin line["atn"] /\ "cpu" \notin line["dav"] /\ state \notin Talks
  BY <1>0, Returned DEF ToRelease, Commanding
<1>3. Head(todo) \in Nat
  BY <1>0, <1>1, HeadAndTail
<1>4. BusOK(Bus') /\ data'["cpu"] = Head(todo)
  BY <1>0, <1>1, <1>3, ShowsIs
<1>5. CallsOK' /\ \A c : Asks(c)' <=> c = Set("cpu", "dav")
  BY <1>0, MachineCalls, OneCall DEF Wires
<1>6. /\ \A w \in Wires : Set("cpu", "dav") # Clr("cpu", w)
      /\ Set("cpu", "dav") # Set("cpu", "atn")
  BY Distinct DEF Wires
<1>7. Types'
  BY <1>0, <1>1, <1>4, <1>5 DEF Types, PlaceOfMachine
<1>8. WiresOK'
  BY <1>0 DEF BusInv, WiresOK
<1>9. AttentionOK'
  BY <1>0, <1>1, <1>2, <1>5, <1>6 DEF AttentionOK
<1>10. BytesOK'
  BY <1>0, <1>2, <1>3, <1>4 DEF BytesOK
<1>11. ReleaseOK'
  BY <1>5, <1>6 DEF ReleaseOK, Wires
<1>12. CommandsOK'
  BY <1>0 DEF CommandsOK
<1> QED BY <1>7, <1>8, <1>9, <1>10, <1>11, <1>12 DEF BusInv

(* The byte is acknowledged: the machine takes it away and goes on.        *)
LEMMA TakenKeeps ==
  ASSUME BusInv, calls = <<>>, CommandTaken \/ ByteTaken
  PROVE  BusInv'
<1>0. /\ todo' = Tail(todo) /\ Shows(Idle) /\ calls' = <<Clr("cpu", "dav")>>
      /\ \/ pc = "command dav" /\ pc' = "command" /\ sent' = sent
         \/ pc = "send dav" /\ pc' = "send" /\ sent' \in {sent, sent + 1}
      /\ UNCHANGED <<line, device>> /\ setup' = setup
      /\ after' = after /\ drive' = drive /\ job' = job
      /\ state' = state /\ trap' = trap /\ par_status' = par_status /\ own' = own
  BY DEF CommandTaken, ByteTaken, Cpu, device, Quiet, file
<1>1. Types /\ sent' \in Nat
  <2>1. Types /\ sent \in Nat
    BY DEF BusInv, Types
  <2>2. sent' = sent \/ sent' = sent + 1
    BY <1>0
  <2>3. sent' \in Nat
    BY <2>1, <2>2
  <2> QED BY <2>1, <2>3
<1>2. BusOK(Bus') /\ data'["cpu"] = Idle
  BY <1>0, <1>1, ShowsIs
<1>3. CallsOK' /\ \A c : Asks(c)' <=> c = Clr("cpu", "dav")
  BY <1>0, MachineCalls, OneCall DEF Wires
<1>4. /\ \A w \in Wires : Clr("cpu", "dav") # Set("cpu", w)
      /\ Clr("cpu", "dav") # Clr("cpu", "atn")
  BY Distinct DEF Wires
<1>5. Commanding' <=> Commanding
  BY <1>0 DEF Commanding
<1>6. pc = "send dav" => todo' \in Seq(Nat)
  <2>1. pc = "send dav" => todo \in Seq(Nat) /\ todo # <<>>
    BY <1>1 DEF Types
  <2> QED BY <1>0, <2>1, HeadAndTail
<1>7. Types'
  BY <1>0, <1>1, <1>2, <1>3, <1>6 DEF Types, PlaceOfMachine
<1>8. WiresOK'
  BY <1>0 DEF BusInv, WiresOK
<1>9. AttentionOK'
  BY <1>0, <1>3, <1>4, <1>5, Returned DEF AttentionOK, Wires, ToRelease
<1>10. BytesOK'
  BY <1>0, <1>2, <1>3, <1>4, Returned DEF BytesOK, Wires, ToRelease
<1>11. ReleaseOK'
  BY <1>3, <1>4 DEF ReleaseOK
<1>12. CommandsOK'
  BY <1>0, Returned DEF BusInv, CommandsOK, Fits
<1> QED BY <1>7, <1>8, <1>9, <1>10, <1>11, <1>12 DEF BusInv

(* The commands are over.                                                  *)
LEMMA AfterCommands ==
  ASSUME BusInv, calls = <<>>, pc = "command", todo = <<>>
  PROVE  /\ Types /\ "cpu" \in line["atn"] /\ "cpu" \notin line["nrfd"] \cup line["ndac"]
         /\ after = "send" => par_status.role = "listen"
         /\ after = "end" => par_status.role = "none"
         /\ (Beside("ndac") # {} => Beside("nrfd") # {}) \/ setup.drive
<1>1. Types /\ Fits(todo) /\ "cpu" \in line["atn"]
  BY Returned DEF BusInv, CommandsOK, Commanding
<1>2. "cpu" \notin line["nrfd"] \cup line["ndac"]
  BY DEF BusInv, WiresOK
<1>3. line["ndac"] \subseteq Driver
  BY <1>1, BusFields DEF Types, BusOK, BusState, Wires
<1>4. setup.drive \/ "drv" \notin line["ndac"]
  BY DEF BusInv, WiresOK, Wires
<1>5. Beside("ndac") = {} \/ setup.drive
  BY <1>2, <1>3, <1>4 DEF Beside, Driver
<1> QED BY <1>1, <1>2, <1>5 DEF Fits, FitsWith

(* The commands are over, and with them the job: nobody talks.             *)
LEMMA EndJobKeeps == ASSUME BusInv, calls = <<>>, EndJob PROVE BusInv'
<1>1. pc = "command" /\ todo = <<>> /\ after = "end" /\ ReleaseAtn("idle") /\ Rest /\ setup' = setup
      /\ sent' = sent
  BY DEF EndJob, file
<1>2. job'.bytes = <<>> /\ after' = "end" /\ <<>> \in Seq(Nat)
  BY <1>1 DEF Rest, NoJob
<1>3. Types /\ "cpu" \in line["atn"] /\ par_status.role = "none" /\ sent \in Nat
  BY <1>1, AfterCommands DEF Types
<1> QED BY <1>1, <1>2, <1>3, Releases

(* The commands are over, and the device listens.                          *)
LEMMA StartSendingKeeps == ASSUME BusInv, calls = <<>>, StartSending PROVE BusInv'
<1>1. pc = "command" /\ todo = <<>> /\ after = "send" /\ ReleaseAtn("send") /\ todo' = job.bytes
      /\ setup' = setup /\ job' = job /\ after' = after /\ sent' = sent
  BY DEF StartSending, file
<1>2. Types /\ "cpu" \in line["atn"] /\ par_status.role = "listen" /\ sent \in Nat
      /\ job.bytes \in Seq(Nat)
  BY <1>1, AfterCommands DEF Types
<1> QED BY <1>1, <1>2, Releases

(* The commands are over, and the device is to talk.                       *)
LEMMA StartListeningKeeps == ASSUME BusInv, calls = <<>>, StartListening PROVE BusInv'
<1>1. pc = "command" /\ todo = <<>> /\ after = "turn"
      /\ setup' = setup /\ job' = job /\ after' = after /\ sent' = sent /\ todo' = todo
  BY DEF StartListening, file
<1>2. Types /\ "cpu" \in line["atn"] /\ sent \in Nat /\ job.bytes \in Seq(Nat)
      /\ ((Beside("ndac") # {} => Beside("nrfd") # {}) \/ setup.drive)
  BY <1>1, AfterCommands DEF Types
<1>3. CASE setup.machine = "new"
  <2>1. Cpu(<<>>, "turn") /\ data' = data /\ drive' = drive
    BY <1>3 DEF StartListening
  <2>2. Commanding'
    BY <1>1, <1>3, <2>1 DEF Cpu, Commanding
  <2> QED BY <1>1, <1>2, <2>1, <2>2, Shakes
<1>4. CASE setup.machine # "new"
  <2>1. ReleaseAtn("turn")
    BY <1>4 DEF StartListening
  <2>2. ~setup.drive
    BY <1>2, <1>4 DEF Types
  <2> QED BY <1>1, <1>2, <1>4, <2>1, <2>2, Releases
<1> QED BY <1>3, <1>4

(* The machine turns round before or after it releases ATN.                *)
LEMMA TurnKeeps == ASSUME BusInv, calls = <<>>, Turn PROVE BusInv'
<1>1. pc = "turn" /\ setup' = setup /\ job' = job /\ after' = after /\ sent' = sent /\ todo' = todo
      /\ Types /\ sent \in Nat /\ job.bytes \in Seq(Nat) /\ after \in {"end", "send", "turn"}
  BY DEF Turn, file, BusInv, Types
<1>2. "cpu" \in line["atn"] <=> setup.machine = "new"
  BY <1>1, Returned DEF Commanding, ToRelease
<1>3. ASSUME NEW w \in ToPull, Cpu(<<Set("cpu", w)>>, "turn"), UNCHANGED <<data, drive>>
      PROVE  BusInv'
  <2>1. w \in {"nrfd", "ndac"}
    BY <1>1 DEF ToPull, Types, Setup
  <2>2. Commanding' <=> "cpu" \in line["atn"]
    BY <1>1, <1>2, <1>3 DEF Cpu, Commanding
  <2>3. <<"turn", Set("cpu", w)>> \in CallsAt
    BY <2>1, MachineCalls
  <2> QED BY <1>1, <1>3, <2>1, <2>2, <2>3, Shakes
<1>4. ASSUME ToPull = {}, Pulled(Bus, "atn"), ReleaseAtn("receive")
      PROVE  BusInv'
  <2>1. "cpu" \in line["atn"] /\ setup.machine = "new"
    BY <1>2, <1>4, Returned
  <2>2. "cpu" \in line["nrfd"]
    BY <1>4, <2>1 DEF ToPull, Holds
  <2>3. Beside("nrfd") # {}
    BY <2>2 DEF Beside
  <2> QED BY <1>1, <1>4, <2>1, <2>3, Releases
<1>5. ASSUME ~Pulled(Bus, "atn"), Cpu(<<>>, "receive"), UNCHANGED <<data, drive>>
      PROVE  BusInv'
  <2>1. "cpu" \notin line["atn"]
    BY <1>5, Returned
  <2>2. ~Commanding'
    BY <1>5 DEF Cpu, Commanding
  <2> QED BY <1>1, <1>5, <2>1, <2>2, Shakes
<1> QED BY <1>3, <1>4, <1>5 DEF Turn

(* The commands of a job, and those that break one off.                    *)
LEMMA OneCommandFits ==
  ASSUME NEW kind \in {"unlisten", "untalk"}, NEW dev, NEW role
  PROVE  LET first == <<[kind |-> kind]>> IN
         /\ FitsWith(first, dev, role, "end")
         /\ first \in Seq(CommandByte) /\ first # <<>> /\ Head(first).kind = kind
<1> DEFINE b == [kind |-> kind]
           first == <<b>>
<1>1. b \in CommandByte /\ b.kind = kind
  BY DEF CommandByte
<1> HIDE DEF b
<1>2. first \in Seq(CommandByte) /\ Len(first) = 1 /\ first[1] = b /\ Head(first) = b /\ first # <<>>
  BY <1>1
<1>3. \A i \in 1..1 : i = 1
  OBVIOUS
<1> HIDE DEF first
<1>4. FitsWith(first, dev, role, "end")
  BY <1>1, <1>2, <1>3 DEF FitsWith
<1> QED BY <1>1, <1>2, <1>4 DEF first, b

(* The commands of a job fit whatever the device knows before them.        *)
LEMMA CommandsFit ==
  ASSUME NEW kind \in {"open", "close", "read", "write"}, NEW d \in Device, NEW dev, NEW role
  PROVE  LET first == Commands(kind, d) IN
         /\ FitsWith(first, dev, role,
              CASE kind = "read" -> "turn" [] kind = "close" -> "end" [] OTHER -> "send")
         /\ first \in Seq(CommandByte) /\ first # <<>> /\ Head(first).kind \in {"listen", "talk"}
<1> DEFINE who == [kind |-> IF kind = "read" THEN "talk" ELSE "listen", device |-> d]
           k == IF kind \in {"open", "close"} THEN kind ELSE "second"
           b == [kind |-> k]
           c == [kind |-> "unlisten"]
           first == Commands(kind, d)
<1>1. /\ who \in CommandByte /\ who.kind = IF kind = "read" THEN "talk" ELSE "listen"
      /\ b \in CommandByte /\ b.kind = k /\ c \in CommandByte /\ c.kind = "unlisten"
  BY DEF CommandByte
<1>2. first = IF kind = "close" THEN <<who, b, c>> ELSE <<who, b>>
  BY DEF Commands
<1> HIDE DEF who, b, c, first
<1>3. CASE kind = "close"
  <2>1. first \in Seq(CommandByte) /\ Len(first) = 3 /\ first[1] = who /\ first[2] = b /\ first[3] = c
        /\ Head(first) = who /\ first # <<>>
    BY <1>1, <1>2, <1>3
  <2>2. \A i \in 1..3 : i \in {1, 2, 3}
    OBVIOUS
  <2>3. FitsWith(first, dev, role, "end")
    BY <1>1, <1>3, <2>1, <2>2 DEF FitsWith
  <2> QED BY <1>1, <1>3, <2>1, <2>3 DEF first
<1>4. CASE kind # "close"
  <2>1. first \in Seq(CommandByte) /\ Len(first) = 2 /\ first[1] = who /\ first[2] = b
        /\ Head(first) = who /\ first # <<>>
    BY <1>1, <1>2, <1>4
  <2>2. \A i \in 1..2 : i \in {1, 2}
    OBVIOUS
  <2>3. FitsWith(first, dev, role, IF kind = "read" THEN "turn" ELSE "send")
    BY <1>1, <1>4, <2>1, <2>2 DEF FitsWith
  <2> QED BY <1>1, <1>4, <2>1, <2>3 DEF first
<1> QED BY <1>3, <1>4

(* The machine breaks off: UNLISTEN and UNTALK fit at any time.            *)
LEMMA BreaksKeep ==
  ASSUME BusInv, calls = <<>>, StopSending \/ NotPresent \/ StopReceiving \/ Timeout
  PROVE  BusInv'
<1>1. PICK kind \in {"unlisten", "untalk"} : PullAtn(<<[kind |-> kind]>>, "end")
  BY DEF StopSending, NotPresent, StopReceiving, Timeout
<1>2. pc \in {"send", "receive", "receive dav", "receive taken", "receive end"}
      /\ setup' = setup /\ job' = job /\ sent' = sent
  BY DEF StopSending, NotPresent, StopReceiving, Timeout, file
<1>3. job.bytes \in Seq(Nat) /\ sent \in Nat
  BY DEF BusInv, Types
<1> DEFINE first == <<[kind |-> kind]>>
<1>4. /\ \A dev, role : FitsWith(first, dev, role, "end")
      /\ first \in Seq(CommandByte) /\ first # <<>> /\ Head(first).kind = kind
      /\ PullAtn(first, "end")
  BY <1>1, OneCommandFits
<1> HIDE DEF first
<1> QED BY <1>2, <1>3, <1>4, Attends

(* A job begins.                                                           *)
LEMMA StartKeeps ==
  ASSUME BusInv, calls = <<>>, NEW kind \in {"open", "close", "read", "write"}, NEW d \in Device,
         Start(kind, d)
  PROVE  BusInv'
<1> DEFINE first == Commands(kind, d)
           next == CASE kind = "read" -> "turn" [] kind = "close" -> "end" [] OTHER -> "send"
<1>1. pc = "idle" /\ setup' = setup /\ PullAtn(first, next)
  BY DEF Start
<1>2. sent' \in Nat
  <2>1. sent \in Nat
    BY DEF BusInv, Types
  <2> QED BY <2>1 DEF Start, Forget, file
<1>3. job'.bytes \in Seq(Nat)
  <2>1. PICK bytes \in Bytes(kind) : job' = [kind |-> kind, device |-> d, bytes |-> bytes]
    BY DEF Start
  <2>2. sent \in Nat /\ FileName \in Seq(Nat)
    BY FileAssumption DEF BusInv, Types
  <2>3. bytes \in Seq(Nat)
    <3>1. CASE kind = "open"
      <4>1. <<1>> \in Seq(Nat)
        OBVIOUS
      <4> QED BY <2>2, <3>1, <4>1 DEF Bytes
    <3>2. CASE kind = "write"
      <4>1. PICK n \in 1..MaxBytes - sent : bytes = [i \in 1..n |-> sent + i]
        BY <3>2 DEF Bytes
      <4>2. n \in Nat /\ \A i \in 1..n : sent + i \in Nat
        BY <2>2, MaxBytesAssumption
      <4>3. bytes \in [1..n -> Nat]
        BY <4>1, <4>2
      <4> QED BY <4>2, <4>3
    <3>3. CASE kind \notin {"open", "write"}
      <4>1. bytes = <<>> /\ <<>> \in Seq(Nat)
        BY <3>3 DEF Bytes
      <4> QED BY <4>1
    <3> QED BY <3>1, <3>2, <3>3
  <2> QED BY <2>1, <2>3
<1>4. /\ \A dev, role : FitsWith(first, dev, role, next)
      /\ first \in Seq(CommandByte) /\ first # <<>> /\ Head(first).kind \in {"listen", "talk"}
      /\ next \in {"end", "send", "turn"}
  BY CommandsFit
<1> HIDE DEF first, next
<1> QED BY <1>1, <1>2, <1>3, <1>4, Attends

(* A reset of the machine, and what it releases.                           *)
LEMMA ResetKeeps == ASSUME BusInv, calls = <<>>, Reset PROVE BusInv'
<1>0. /\ setup.resets > 0 /\ Shows(Idle) /\ calls' = <<>> /\ pc' = "reset"
      /\ todo' = <<"ndac", "dav", "atn", "nrfd">> /\ Forget /\ Rest
      /\ setup' = [setup EXCEPT !.resets = @ - 1]
      /\ UNCHANGED <<line, device>> /\ drive' = drive
      /\ state' = state /\ trap' = trap /\ par_status' = par_status /\ own' = own
  BY DEF Reset, device
<1>1. Types /\ ~setup.drive
  <2>1. Types
    BY DEF BusInv
  <2>2. setup.drive => setup.resets = 0
    BY <2>1 DEF Types
  <2> QED BY <1>0, <2>1, <2>2
<1>2. setup' \in Setup /\ setup'.drive = setup.drive /\ setup'.machine = setup.machine
  <2>1. setup \in Setup
    BY <1>1 DEF Types
  <2>2. setup.resets \in Nat
    BY <2>1 DEF Setup
  <2>3. setup.resets - 1 \in Nat
    BY <1>0, <2>2
  <2>4. setup' \in Setup
    BY <1>0, <2>1, <2>3 DEF Setup
  <2> QED BY <1>0, <2>1, <2>4 DEF Setup
<1>3. BusOK(Bus') /\ data'["cpu"] = Idle
  BY <1>0, <1>1, ShowsIs
<1>4. CallsOK' /\ \A call : ~Asks(call)'
  BY <1>0, NoCall
<1>5. \A w \in {"ndac", "dav", "atn", "nrfd"} : ToRelease(w)'
  <2>1. Len(todo') = 4 /\ todo'[1] = "ndac" /\ todo'[2] = "dav" /\ todo'[3] = "atn" /\ todo'[4] = "nrfd"
    BY <1>0
  <2>2. \A i \in {1, 2, 3, 4} : i \in 1..4
    OBVIOUS
  <2> QED BY <1>0, <2>1, <2>2 DEF ToRelease
<1>6. job'.bytes = <<>> /\ <<>> \in Seq(Nat) /\ after' = "end" /\ sent' = 0
  BY <1>0 DEF Rest, Forget, NoJob
<1>7. Types'
  BY <1>0, <1>1, <1>2, <1>3, <1>4, <1>6 DEF Types, PlaceOfMachine
<1>8. WiresOK'
  BY <1>0, <1>1, <1>2, <1>5 DEF BusInv, WiresOK
<1>9. AttentionOK'
  BY <1>0, <1>4, <1>5, Returned DEF AttentionOK, Commanding
<1>10. BytesOK'
  BY <1>0, <1>3, <1>4, <1>5, Returned DEF BytesOK
<1>11. ReleaseOK'
  BY <1>4 DEF ReleaseOK
<1>12. CommandsOK'
  BY <1>0 DEF CommandsOK
<1> QED BY <1>7, <1>8, <1>9, <1>10, <1>11, <1>12 DEF BusInv

(* What is still to be released once the first of it is.                   *)
LEMMA ReleaseOrder ==
  ASSUME NEW s \in {<<"ndac", "dav", "atn", "nrfd">>, <<"dav", "atn", "nrfd">>, <<"atn", "nrfd">>,
                    <<"nrfd">>, <<>>},
         s # <<>>
  PROVE  /\ Tail(s) \in {<<"dav", "atn", "nrfd">>, <<"atn", "nrfd">>, <<"nrfd">>, <<>>}
         /\ Head(s) \in {"ndac", "dav", "atn", "nrfd"}
         /\ \A w : (\E i \in 1..Len(s) : s[i] = w) =>
                      w = Head(s) \/ \E i \in 1..Len(Tail(s)) : Tail(s)[i] = w
         /\ Head(s) = "atn" => ~\E i \in 1..Len(s) : s[i] \in {"ndac", "dav"}
<1>1. CASE s = <<"ndac", "dav", "atn", "nrfd">>
  <2>1. Tail(s) = <<"dav", "atn", "nrfd">> /\ Head(s) = "ndac"
    BY <1>1
  <2> QED BY <1>1, <2>1
<1>2. CASE s = <<"dav", "atn", "nrfd">>
  <2>1. Tail(s) = <<"atn", "nrfd">> /\ Head(s) = "dav"
    BY <1>2
  <2> QED BY <1>2, <2>1
<1>3. CASE s = <<"atn", "nrfd">>
  <2>1. Tail(s) = <<"nrfd">> /\ Head(s) = "atn"
    BY <1>3
  <2> QED BY <1>3, <2>1
<1>4. CASE s = <<"nrfd">>
  <2>1. Tail(s) = <<>> /\ Head(s) = "nrfd"
    BY <1>4
  <2> QED BY <1>4, <2>1
<1> QED BY <1>1, <1>2, <1>3, <1>4

(* A reset machine releases NDAC and DAV before ATN, so that no talker     *)
(* meets them.                                                             *)
LEMMA ReleaseKeeps == ASSUME BusInv, calls = <<>>, Release PROVE BusInv'
<1>0. /\ pc = "reset" /\ setup' = setup /\ job' = job /\ after' = after /\ sent' = sent
      /\ UNCHANGED <<line, device>> /\ data' = data
      /\ state' = state /\ trap' = trap /\ par_status' = par_status /\ own' = own
  BY DEF Release, Cpu, ReleaseAtn, device, file
<1>1. Types /\ ~setup.drive /\ drive.at = "absent"
  BY <1>0 DEF BusInv, WiresOK, Types
<1>2. AtnRisesForDrive = <<>> /\ DriveAfterAtn("leaving") = drive
  BY <1>1 DEF AtnRisesForDrive, DriveAfterAtn
<1>3. drive' = drive
  BY <1>2 DEF Release, ReleaseAtn
<1>4. IF todo = <<>> THEN calls' = <<>> /\ pc' = "idle" /\ todo' = todo
      ELSE calls' = <<Clr("cpu", Head(todo))>> /\ pc' = "reset" /\ todo' = Tail(todo)
  <2>1. \A call : <<call>> \o <<>> = <<call>>
    OBVIOUS
  <2> QED BY <1>2, <2>1 DEF Release, ReleaseAtn, Cpu
<1>5. BusOK(Bus')
  BY <1>0, <1>1, SameBus DEF Types
<1>6. data["cpu"] = Idle
  BY <1>0, Returned
<1>7. /\ "cpu" \in line["ndac"] => ToRelease("ndac")
      /\ "cpu" \in line["dav"] => ToRelease("dav")
      /\ "cpu" \in line["atn"] => ToRelease("atn") /\ state \in {"In1", "In2"}
  BY <1>0, Returned DEF BusInv, WiresOK, Commanding
<1>8. CASE todo = <<>>
  <2>1. CallsOK' /\ \A call : ~Asks(call)'
    BY <1>4, <1>8, NoCall
  <2>2. \A w : ~ToRelease(w)
    BY <1>8 DEF ToRelease
  <2>3. Types'
    BY <1>0, <1>1, <1>3, <1>4, <1>5, <1>8, <2>1 DEF Types, PlaceOfMachine
  <2>4. WiresOK'
    BY <1>0, <1>4, <1>8 DEF BusInv, WiresOK
  <2>5. AttentionOK'
    BY <1>0, <1>4, <1>7, <1>8, <2>1, <2>2 DEF AttentionOK, Commanding
  <2>6. BytesOK'
    BY <1>0, <1>4, <1>6, <1>7, <1>8, <2>1, <2>2 DEF BytesOK
  <2>7. ReleaseOK'
    BY <2>1 DEF ReleaseOK
  <2>8. CommandsOK'
    BY <1>4, <1>8 DEF CommandsOK
  <2> QED BY <2>3, <2>4, <2>5, <2>6, <2>7, <2>8 DEF BusInv
<1>9. CASE todo # <<>>
  <2> DEFINE h == Head(todo)
  <2>0. /\ todo' = Tail(todo)
        /\ todo \in {<<"ndac", "dav", "atn", "nrfd">>, <<"dav", "atn", "nrfd">>,
                     <<"atn", "nrfd">>, <<"nrfd">>, <<>>}
    BY <1>0, <1>4, <1>9 DEF BusInv, WiresOK
  <2>r. /\ \A w : ToRelease(w) <=> \E i \in 1..Len(todo) : todo[i] = w
        /\ \A w : ToRelease(w)' <=> \E i \in 1..Len(todo') : todo'[i] = w
    BY <1>0, <1>4, <1>9 DEF ToRelease
  <2>1. /\ calls' = <<Clr("cpu", h)>> /\ pc' = "reset" /\ todo' = Tail(todo)
        /\ h \in {"ndac", "dav", "atn", "nrfd"}
        /\ todo' \in {<<"dav", "atn", "nrfd">>, <<"atn", "nrfd">>, <<"nrfd">>, <<>>}
    BY <1>0, <1>4, <1>9, ReleaseOrder DEF BusInv, WiresOK
  <2>2. \A w : ToRelease(w) => w = h \/ ToRelease(w)'
    <3>1. \A w : (\E i \in 1..Len(todo) : todo[i] = w) =>
                     w = Head(todo) \/ \E i \in 1..Len(Tail(todo)) : Tail(todo)[i] = w
      BY <1>9, <2>0, ReleaseOrder
    <3> HIDE DEF h
    <3>2. h = Head(todo)
      BY DEF h
    <3> QED BY <2>0, <2>r, <3>1, <3>2
  <2>3. h = "atn" => ~ToRelease("ndac") /\ ~ToRelease("dav")
    <3>1. Head(todo) = "atn" => ~\E i \in 1..Len(todo) : todo[i] \in {"ndac", "dav"}
      BY <1>9, <2>0, ReleaseOrder
    <3> QED BY <2>r, <3>1
  <2> HIDE DEF h
  <2>4. CallsOK' /\ \A c : Asks(c)' <=> c = Clr("cpu", h)
    BY <2>1, MachineCalls, OneCall DEF Wires
  <2>5. \A w \in Wires : /\ ~Asks(Set("cpu", w))'
                         /\ Asks(Clr("cpu", w))' <=> w = h
    BY <2>1, <2>4, Distinct DEF Wires
  <2>6. Types'
    BY <1>0, <1>1, <1>3, <1>5, <2>1, <2>4 DEF Types, PlaceOfMachine
  <2>7. WiresOK'
    BY <1>0, <1>1, <1>7, <2>1, <2>2, <2>5 DEF BusInv, WiresOK, Wires
  <2>8. AttentionOK'
    BY <1>0, <1>7, <2>1, <2>2, <2>5 DEF AttentionOK, Commanding, Wires
  <2>9. BytesOK'
    BY <1>0, <1>6, <1>7, <2>1, <2>2, <2>5, Returned DEF BytesOK, Wires
  <2>10. ReleaseOK'
    <3>1. CASE h # "atn"
      BY <2>5, <3>1 DEF ReleaseOK, Wires
    <3>2. CASE h = "atn"
      <4>1. "cpu" \notin line["ndac"] /\ "cpu" \notin line["dav"]
        BY <1>7, <2>3, <3>2
      <4>2. "drv" \notin line["ndac"] /\ line["ndac"] \subseteq Driver
        BY <1>1, BusFields DEF BusInv, WiresOK, Wires, Types, BusOK, BusState
      <4>3. Beside("ndac")' = {}
        BY <1>0, <4>1, <4>2 DEF Beside, Driver
      <4>4. ~Commanding'
        BY <2>1 DEF Commanding
      <4> QED BY <1>0, <1>6, <2>1, <4>1, <4>3, <4>4 DEF ReleaseOK
    <3> QED BY <3>1, <3>2
  <2>11. CommandsOK'
    BY <2>1 DEF CommandsOK
  <2> QED BY <2>6, <2>7, <2>8, <2>9, <2>10, <2>11 DEF BusInv
<1> QED BY <1>8, <1>9

(* The drive's CPU pulls and releases NRFD and NDAC only.                  *)
LEMMA DriveKeeps == ASSUME BusInv, DriveStep PROVE BusInv'
<1>0. /\ calls = <<>> /\ UNCHANGED <<line, device>> /\ data' = data
      /\ pc' = pc /\ setup' = setup /\ job' = job /\ after' = after /\ sent' = sent /\ todo' = todo
      /\ state' = state /\ trap' = trap /\ par_status' = par_status /\ own' = own
  BY DEF DriveStep, DriveAnswers, DriveBusy, DriveTakes, DriveAgain, DriveLeaves, Drv, device, wires,
         file
<1>1. Types /\ drive \in [at : PlaceOfDrive, listens : BOOLEAN]
  BY DEF BusInv, Types
<1>2. PICK w \in {"nrfd", "ndac"} :
        calls' = <<Set("drv", w)>> \/ calls' = <<Clr("drv", w)>>
  BY DEF DriveStep, DriveAnswers, DriveBusy, DriveTakes, DriveAgain, DriveLeaves, Drv
<1>3. drive.at # "absent" /\ drive' \in [at : PlaceOfDrive, listens : BOOLEAN] /\ drive'.at # "absent"
  <2>1. CASE DriveAnswers
    BY <1>1, <2>1 DEF DriveAnswers, PlaceOfDrive
  <2>2. CASE DriveBusy
    <3>1. Heard \in BOOLEAN
      BY <1>1 DEF Heard
    <3> QED BY <1>1, <2>2, <3>1 DEF DriveBusy, PlaceOfDrive
  <2>3. CASE DriveTakes
    BY <1>1, <2>3 DEF DriveTakes, PlaceOfDrive
  <2>4. CASE DriveAgain
    BY <1>1, <2>4 DEF DriveAgain, PlaceOfDrive
  <2>5. CASE DriveLeaves
    <3>1. drive.at = "leaving" /\ \E at \in {"again", "leaving", "idle"} : drive' = [drive EXCEPT !.at = at]
      BY <2>5 DEF DriveLeaves
    <3> QED BY <1>1, <3>1 DEF PlaceOfDrive
  <2> QED BY <2>1, <2>2, <2>3, <2>4, <2>5 DEF DriveStep
<1>4. setup.drive
  BY <1>1, <1>3 DEF Types
<1>5. CallsOK' /\ \A u : ~Asks(Set("cpu", u))' /\ ~Asks(Clr("cpu", u))'
  <2>1. PICK call \in {Set("drv", w), Clr("drv", w)} : calls' = <<call>>
    BY <1>2
  <2>2. call \in Call /\ call.who = "drv" /\ call.wire \in {"nrfd", "ndac"}
    <3>1. \A u \in {"nrfd", "ndac"} :
            /\ Set("drv", u) \in Call /\ Set("drv", u).who = "drv" /\ Set("drv", u).wire = u
            /\ Clr("drv", u) \in Call /\ Clr("drv", u).who = "drv" /\ Clr("drv", u).wire = u
      BY DEF Call, Set, Clr, Wires
    <3> QED BY <3>1
  <2>3. CallsOK' /\ \A c : Asks(c)' <=> c = call
    BY <1>0, <1>4, <2>1, <2>2, OneCall
  <2>4. \A u : Set("cpu", u) # call /\ Clr("cpu", u) # call
    BY <2>2 DEF Set, Clr
  <2> QED BY <2>3, <2>4
<1>6. BusOK(Bus')
  BY <1>0, <1>1, SameBus DEF Types
<1>7. Types'
  BY <1>0, <1>1, <1>3, <1>4, <1>5, <1>6 DEF Types
<1>8. WiresOK'
  BY <1>0, Returned DEF BusInv, WiresOK, ToRelease
<1>9. AttentionOK'
  BY <1>0, <1>5, Returned DEF AttentionOK, Commanding, ToRelease
<1>10. BytesOK'
  BY <1>0, <1>5, Returned DEF BytesOK, ToRelease
<1>11. ReleaseOK'
  BY <1>5 DEF ReleaseOK
<1>12. CommandsOK'
  BY <1>0, <1>5, Returned DEF BusInv, CommandsOK, Fits
<1> QED BY <1>7, <1>8, <1>9, <1>10, <1>11, <1>12 DEF BusInv

(* A step of the loops that only watch the wires.                          *)
LEMMA StutterKeeps == ASSUME BusInv, UNCHANGED vars PROVE BusInv'
<1>1. UNCHANGED <<line, data, state, par_status, trap, own, calls, pc, setup, job, todo, after, sent,
                  drive>>
  BY DEF vars, wires, device, file
<1>2. Bus' = Bus
  BY <1>1 DEF Bus
<1>3. Types'
  BY <1>1, <1>2 DEF BusInv, Types, CallsOK
<1>4. WiresOK' /\ AttentionOK'
  BY <1>1 DEF BusInv, WiresOK, AttentionOK, Asks, ToRelease, Commanding
<1>5. BytesOK' /\ ReleaseOK'
  BY <1>1 DEF BusInv, BytesOK, ReleaseOK, Asks, ToRelease, Commanding, Beside
<1>6. CommandsOK'
  BY <1>1 DEF BusInv, CommandsOK, Asks, Fits
<1> QED BY <1>3, <1>4, <1>5, <1>6 DEF BusInv

(* The invariant holds at first.                                           *)
LEMMA InitKeeps == ASSUME DrivesBesideNew, Init PROVE BusInv
<1>1. /\ line = [w \in Wires |-> {}] /\ data = [d \in Driver |-> Idle] /\ state = "WaitATN"
      /\ par_status = Silent /\ trap = InitTrap /\ own = {} /\ calls = <<>> /\ pc = "idle"
      /\ setup \in Setups /\ job = NoJob /\ todo = <<>> /\ after = "end" /\ sent = 0
      /\ drive = [at |-> IF setup.drive THEN "idle" ELSE "absent", listens |-> FALSE]
  BY DEF Init
<1>2. <<>> \in Seq(Nat) /\ <<>> \in Seq(Call) /\ Len(<<>>) = 0
  OBVIOUS
<1>3. InitTrap \in TrapState /\ InitTrap.device = Nobody /\ InitTrap.secondary = "none"
  <2>1. ClosedChannel \in Channel
    BY <1>2 DEF ClosedChannel, Channel
  <2>2. [d \in Virtual \cup Absent |-> ClosedChannel] \in [Virtual \cup Absent -> Channel]
    BY <2>1
  <2> QED BY <1>2, <2>2 DEF InitTrap, TrapState
<1>4. Nobody.role = "none" /\ Silent.role = "none" /\ Silent \in Status
  BY DEF Nobody, Silent, Status
<1>5. Bus \in BusState
  <2>1. line \in [Wires -> SUBSET Driver]
    BY <1>1
  <2>2. data \in [Driver -> Nat \cup {Idle} \cup CommandByte]
    BY <1>1
  <2> QED BY <1>1, <1>3, <1>4, <2>1, <2>2 DEF Bus, BusState, DeviceState
<1>6. \A w \in Wires : line[w] = {}
  BY <1>1
<1>7. \A d \in Driver : data[d] = Idle
  BY <1>1
<1>8. BusOK(Bus)
  <2>1. Mine(Bus) = {}
    BY <1>6, BusFields DEF Mine
  <2>2. Placed(Bus)
    BY <1>1, <1>7, <2>1, BusFields DEF Placed, Driver
  <2> QED BY <1>1, <1>3, <1>4, <1>5, <2>2, BusFields DEF BusOK, TrapOK, Talks
<1>9. setup \in Setup /\ (setup.drive => setup.machine = "new" /\ setup.resets = 0)
  BY <1>1, SetupsAssumption DEF DrivesBesideNew
<1>10. \A i \in 1..0 : FALSE
  OBVIOUS
<1>11. CallsOK /\ \A call : ~Asks(call)
  BY <1>1, <1>2, <1>10 DEF CallsOK, Asks
<1>12. Types
  <2>1. /\ drive \in [at : PlaceOfDrive, listens : BOOLEAN]
        /\ (setup.drive <=> drive.at # "absent")
    BY <1>1, <1>9 DEF PlaceOfDrive, Setup
  <2>2. job.bytes \in Seq(Nat)
    BY <1>1, <1>2 DEF NoJob
  <2> QED BY <1>1, <1>8, <1>9, <1>11, <2>1, <2>2 DEF Types, PlaceOfMachine
<1>13. WiresOK /\ AttentionOK
  BY <1>1, <1>6, <1>11 DEF WiresOK, AttentionOK, Commanding, Wires
<1>14. BytesOK /\ ReleaseOK
  BY <1>1, <1>6, <1>7, <1>11 DEF BytesOK, ReleaseOK, Wires, Driver, Talks
<1>15. CommandsOK
  BY <1>1 DEF CommandsOK
<1> QED BY <1>12, <1>13, <1>14, <1>15 DEF BusInv

(* Every step of machine, drive and device keeps the invariant.            *)
LEMMA NextKeeps == ASSUME BusInv, [Next]_vars PROVE BusInv'
<1>1. CASE BusCall
  BY <1>1, CallKeeps
<1>2. CASE Proceed
  <2>1. calls = <<>> /\ Routine
    BY <1>2 DEF Proceed
  <2>2. CASE WatchWires
    BY <2>1, <2>2, WatchWiresKeeps
  <2>3. CASE SendCommand
    BY <2>1, <2>3, SendCommandKeeps
  <2>4. CASE CommandTaken \/ ByteTaken
    BY <2>1, <2>4, TakenKeeps
  <2>5. CASE EndJob
    BY <2>1, <2>5, EndJobKeeps
  <2>6. CASE StartSending
    BY <2>1, <2>6, StartSendingKeeps
  <2>7. CASE SendByte
    BY <2>1, <2>7, SendByteKeeps
  <2>8. CASE StartListening
    BY <2>1, <2>8, StartListeningKeeps
  <2>9. CASE Turn
    BY <2>1, <2>9, TurnKeeps
  <2>10. CASE Ready \/ TakeByte \/ Accept \/ Accepted
    BY <2>1, <2>10, ReceivingKeeps
  <2>11. CASE NotPresent \/ Timeout
    BY <2>1, <2>11, BreaksKeep
  <2>12. CASE Release
    BY <2>1, <2>12, ReleaseKeeps
  <2> QED BY <2>1, <2>2, <2>3, <2>4, <2>5, <2>6, <2>7, <2>8, <2>9, <2>10, <2>11, <2>12 DEF Routine
<1>3. CASE DriveStep
  BY <1>3, DriveKeeps
<1>4. ASSUME calls = <<>>, NEW kind \in {"open", "close", "read", "write"}, NEW d \in Device,
             Start(kind, d)
      PROVE  BusInv'
  BY <1>4, StartKeeps
<1>5. CASE calls = <<>> /\ (StopSending \/ StopReceiving)
  BY <1>5, BreaksKeep
<1>6. CASE calls = <<>> /\ Reset
  BY <1>6, ResetKeeps
<1>7. CASE Poll \/ UNCHANGED vars
  BY <1>7, StutterKeeps DEF Poll
<1> QED BY <1>1, <1>2, <1>3, <1>4, <1>5, <1>6, <1>7 DEF Next

-----------------------------------------------------------------------------
(* In every state of the protocol the device pulls only the wires that are *)
(* its own there, the machine holds ATN exactly while it commands, and a   *)
(* talker turns round only in front of a machine that is ready for it.     *)
THEOREM BusInvariant == ASSUME DrivesBesideNew PROVE Spec => []BusInv
<1>1. Init => BusInv
  BY InitKeeps
<1>2. BusInv /\ [Next]_vars => BusInv'
  BY NextKeeps
<1> QED BY <1>1, <1>2, PTL DEF Spec

(* Wires, state, status and trap layer stay in their domains, a channel of *)
(* parallel-trap.c in one of its three places.                             *)
THEOREM TypeCorrect == ASSUME DrivesBesideNew PROVE Spec => []TypeOK
<1>1. BusInv => TypeOK
  <2> SUFFICES ASSUME BusInv PROVE TypeOK
    OBVIOUS
  <2>1. Types /\ Bus \in BusState
    BY DEF BusInv, Types, BusOK
  <2>2. /\ line \in [Wires -> SUBSET Driver] /\ state \in DeviceState
        /\ par_status \in Status /\ trap \in TrapState
    BY <2>1, BusFields DEF BusState
  <2>3. trap.name \in Seq(Nat) /\ trap.channel \in [Virtual \cup Absent -> Channel]
    BY <2>2 DEF TrapState
  <2>4. \A d \in DOMAIN trap.channel : trap.channel[d].isopen \in 0..2
    BY <2>3 DEF Channel
  <2>5. drive.at \in PlaceOfDrive /\ pc \in PlaceOfMachine
    BY <2>1 DEF Types
  <2> QED BY <2>2, <2>3, <2>4, <2>5 DEF TypeOK, DeviceState, Status, PlaceOfDrive, PlaceOfMachine
<1> QED BY <1>1, BusInvariant, PTL

(* Whatever machine and drive do, the only handler that the device's own   *)
(* changes reach is the one of NDAC in OldPet, whose work is undone: the   *)
(* unfinished "ignoreown" of parallel.c does no harm.                      *)
THEOREM HearsNothing == ASSUME DrivesBesideNew PROVE Spec => []DoesNotHearItself
<1>1. BusInv => DoesNotHearItself
  BY DEF BusInv, Types, DoesNotHearItself
<1> QED BY <1>1, BusInvariant, PTL

(* When one of machine and device drives the data wires or DAV, the other  *)
(* drives neither, however ATN and the handshake of the machine and a      *)
(* drive interleave.                                                       *)
THEOREM NoTwoTalkers == ASSUME DrivesBesideNew PROVE Spec => []NoContention
<1>1. BusInv => NoContention
  <2> SUFFICES ASSUME BusInv PROVE NoContention
    OBVIOUS
  <2>1. /\ Placed(Bus) /\ BytesOK
    BY DEF BusInv, Types, BusOK
  <2>2. data["emu"] # Idle => state \in Talks
    BY <2>1, BusFields DEF Placed, Talks
  <2>3. "emu" \in line["dav"] => state \in Talks
    <3>1. "emu" \in line["dav"] => "dav" \in MayPull(state)
      BY <2>1, BusFields DEF Placed, Mine, Wires
    <3> QED BY <3>1 DEF MayPull, Talks
  <2>4. state \in Talks => data["cpu"] = Idle /\ "cpu" \notin line["dav"]
    BY <2>1 DEF BytesOK
  <2> QED BY <2>2, <2>3, <2>4 DEF NoContention, Drives
<1> QED BY <1>1, BusInvariant, PTL

(* A device that is not addressed, or has been told to talk and waits for  *)
(* an old PET, pulls nothing and has no byte on the data wires.            *)
THEOREM LetsGoOfBus == ASSUME DrivesBesideNew PROVE Spec => []OffTheBus
<1>1. BusInv => OffTheBus
  <2> SUFFICES ASSUME BusInv, state \in {"WaitATN", "OldPet"}
               PROVE  data["emu"] = Idle /\ \A w \in Wires : "emu" \notin line[w]
    BY DEF OffTheBus
  <2>1. Placed(Bus)
    BY DEF BusInv, Types, BusOK
  <2>2. MayPull(state) = {}
    BY DEF MayPull
  <2> QED BY <2>1, <2>2, BusFields DEF Placed, Mine
<1> QED BY <1>1, BusInvariant, PTL
=============================================================================
