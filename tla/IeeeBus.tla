------------------------------- MODULE IeeeBus -------------------------------
(***************************************************************************)
(* The IEEE-488 bus of the PET and CBM-II with a device that VICE answers  *)
(* for itself.  The device has no CPU: a change of a wire calls a handler  *)
(* of its state table, which answers at once by pulling and releasing      *)
(* wires, and these changes call handlers again.  Beside it on the wires   *)
(* are the machine, which runs the bus, and a drive with its own CPU that  *)
(* answers in its own time.                                                *)
(***************************************************************************)
EXTENDS ParallelTrap

CONSTANTS
  Idle,          \* nothing on the data wires
  Setups,        \* the machine, a drive with a CPU or none, how many resets
  MaxBytes       \* bound: bytes written to a file

Setup == [machine : {"new", "old", "cbm610"}, drive : BOOLEAN, resets : Nat]

ASSUME SetupsAssumption == Setups \subseteq Setup
ASSUME MaxBytesAssumption == MaxBytes \in Nat

(* What a command byte says: who is meant, or what is to be done.          *)
CommandByte ==
  [kind : {"listen", "talk"}, device : Device]
    \cup [kind : {"second", "open", "close", "unlisten", "untalk"}]

ASSUME IdleAssumption == Idle \notin Nat /\ Idle \notin CommandByte

Wires == {"atn", "dav", "eoi", "nrfd", "ndac"}

Driver == {"cpu", "emu", "drv"}

VARIABLES
  line,         \* who pulls each wire (parallel_atn, parallel_dav, ...)
  data,         \* what each of them puts on the data wires
  state,        \* of the device's state table
  par_status,   \* what the trap layer said of the last byte
  trap,         \* the devices (module ParallelTrap)
  own,          \* the handlers the device called itself in this step
  calls,        \* calls of the bus functions that machine or drive are making
  pc,           \* machine: where in the protocol it is
  setup,        \* what there is, and the resets still to come
  job,          \* machine: what it does, with which device
  todo,         \* machine: the commands still to send
  after,        \* machine: what follows the commands
  latch,        \* machine: the byte it has taken and not acknowledged
  opened,       \* machine: it opened the file
  sent,         \* machine: bytes of the open file that were acknowledged
  received,     \* machine: bytes read of the open file
  ended,        \* machine: the last of them came with EOI
  leftover,     \* history: the name a reset found in the device and left there
  drive         \* drive: what its CPU is at, and whether it listens

wires == <<line, data>>
device == <<state, par_status, trap, own>>
file == <<opened, sent, received, ended>>
vars == <<wires, device, calls, pc, setup, job, todo, after, latch, file, leftover, drive>>

-----------------------------------------------------------------------------
(* The device.  `b' is the bus while a handler runs.                       *)
Bus == [line |-> line, data |-> data, state |-> state, par_status |-> par_status,
        trap |-> trap, own |-> {}]

Pulled(b, w) == b.line[w] # {}

(* The entries of the state table that do something.                       *)
Active ==
  ({"WaitATN", "In1", "In2", "OldPet", "Out1", "Out1a", "Out2"} \X {<<"atn", "low">>})
  \cup ({"In1", "In2"} \X {<<"atn", "high">>})
  \cup {<<"In1", <<"dav", "low">>>>, <<"In2", <<"dav", "high">>>>,
        <<"OldPet", <<"ndac", "low">>>>, <<"OldPet", <<"nrfd", "low">>>>,
        <<"Out1", <<"nrfd", "high">>>>, <<"Out1a", <<"ndac", "high">>>>,
        <<"Out1a", <<"nrfd", "low">>>>, <<"Out2", <<"ndac", "high">>>>}

Low(w) == <<w, "low">>

High(w) == <<w, "high">>

(* The device pulls or releases a wire of its own.  A wire that changes by *)
(* that calls a handler as any other does, in the state that the handler   *)
(* that changes it has not left yet.  `own' notes the entries of the table *)
(* that are met in this way: DoesNotHearItself says that there is one,     *)
(* in WATN_atnlo, where the call is made.                                  *)
OwnTrans(b, c) ==
  IF <<b.state, c>> \in Active THEN [b EXCEPT !.own = @ \cup {<<b.state, c>>}] ELSE b

Pull(b, w) ==
  LET p == [b EXCEPT !.line[w] = @ \cup {"emu"}] IN
  IF Pulled(b, w) THEN p ELSE OwnTrans(p, Low(w))

Free(b, w) ==
  LET p == [b EXCEPT !.line[w] = @ \ {"emu"}] IN
  IF b.line[w] = {"emu"} THEN OwnTrans(p, High(w)) ELSE p

Puts(b, byte) == [b EXCEPT !.data["emu"] = byte]

Go(b, s) == [b EXCEPT !.state = s]

(* The trap layer has dealt with a byte.                                   *)
Took(b, r) == [b EXCEPT !.trap = r.t, !.par_status = r.status]

Silent == [role |-> "none", low |-> {}]

(* Variant: the bus is let go, but for EOI.                                *)
ResetBus_HoldsEoi(b) ==
  [Puts(Free(Free(Free(b, "dav"), "nrfd"), "ndac"), Idle) EXCEPT !.par_status = Silent]

ResetBus(b) ==
  [Puts(Free(Free(Free(Free(b, "dav"), "eoi"), "nrfd"), "ndac"), Idle)
     EXCEPT !.par_status = Silent]

(* The next byte goes onto the bus, and stays with the device until the    *)
(* listener has accepted it.                                               *)
Out1_nrfdhi(b) ==
  LET r == parallel_trap_receivebyte(b.trap, TRUE)
      talks == Puts(Took(b, r), r.byte) IN
  Go(Pull(IF "eof" \in r.status.low THEN Pull(talks, "eoi") ELSE Free(talks, "eoi"), "dav"),
     "Out1a")

OPet_ndaclo(b) ==
  IF Pulled(b, "nrfd") THEN Go(b, "Out1") ELSE Out1_nrfdhi(b)

(* The device pulls NDAC, which in OldPet it takes for the machine's.      *)
PullNdac(b) ==
  LET p == Pull(b, "ndac") IN
  IF <<"OldPet", Low("ndac")>> \in p.own THEN OPet_ndaclo(p) ELSE p

(* Variant: a talker that is interrupted leaves its byte on the bus.       *)
WATN_atnlo_KeepsByte(b) == Go(Free(Free(Free(PullNdac(b), "dav"), "eoi"), "nrfd"), "In1")

WATN_atnlo(b) ==
  Go(Free(Puts(Free(Free(PullNdac(b), "dav"), "eoi"), Idle), "nrfd"), "In1")

(* The data wires carry what both put there; NoContention says that one of *)
(* them is idle.                                                           *)
Byte(b) == IF b.data["cpu"] # Idle THEN b.data["cpu"] ELSE b.data["emu"]

In1_davlo(b) ==
  LET Heard(busy) == IF Pulled(b, "atn") THEN parallel_trap_attention(busy.trap, Byte(b))
                     ELSE parallel_trap_sendbyte(busy.trap, Byte(b))
      Taken(busy) == Took(busy, Heard(busy)) IN
  Go(Taken(Free(Pull(b, "nrfd"), "ndac")), "In2")

In2_atnhi(b) == Go(ResetBus(b), "WaitATN")

(* Variants: NDAC is not pulled for the next byte; NRFD stays pulled.      *)
In2_davhi_NoNdac(b) == Go(Free(b, "nrfd"), "In1")

In2_davhi_HoldsNrfd(b) == Go(Pull(b, "ndac"), "In1")

In2_davhi(b) == Go(Free(Pull(b, "ndac"), "nrfd"), "In1")

Out1a_ndachi(b) == Go(ResetBus(b), "WaitATN")

Out2_ndachi(b) ==
  LET On(x) == IF x.par_status.low = {} THEN Go(x, "Out1") ELSE Go(ResetBus(x), "WaitATN")
      Taken(quiet) == Took(quiet, parallel_trap_receivebyte(quiet.trap, FALSE)) IN
  On(Taken(Puts(Free(Free(b, "dav"), "eoi"), Idle)))

(* Variant: the device turns round with its own wires still pulled.        *)
In1_atnhi_NoReset(b) ==
  CASE b.par_status.low = {} /\ b.par_status.role = "listen" -> Go(b, "In1")
    [] b.par_status.low = {} /\ b.par_status.role = "talk" ->
         IF Pulled(b, "ndac") THEN OPet_ndaclo(b) ELSE Go(b, "OldPet")
    [] OTHER -> Go(ResetBus(b), "WaitATN")

(* The commands are over: listen on, turn round to talk, or let go.        *)
In1_atnhi(b) ==
  LET r == ResetBus(b) IN
  CASE b.par_status.low = {} /\ b.par_status.role = "listen" -> Go(b, "In1")
    [] b.par_status.low = {} /\ b.par_status.role = "talk" ->
         IF Pulled(r, "ndac") THEN OPet_ndaclo(r) ELSE Go(r, "OldPet")
    [] OTHER -> Go(r, "WaitATN")

DoTrans(b, c) ==
  LET At(s, x) == b.state = s /\ c = x IN
  CASE c = Low("atn")             -> WATN_atnlo(b)
    [] At("In1", High("atn"))     -> In1_atnhi(b)
    [] At("In1", Low("dav"))      -> In1_davlo(b)
    [] At("In2", High("atn"))     -> In2_atnhi(b)
    [] At("In2", High("dav"))     -> In2_davhi(b)
    [] At("OldPet", Low("ndac"))  -> OPet_ndaclo(b)
    [] At("OldPet", Low("nrfd"))  -> Out1_nrfdhi(b)
    [] At("Out1", High("nrfd"))   -> Out1_nrfdhi(b)
    [] At("Out1a", High("ndac"))  -> Out1a_ndachi(b)
    [] At("Out1a", Low("nrfd"))   -> Go(b, "Out2")
    [] At("Out2", High("ndac"))   -> Out2_ndachi(b)
    [] OTHER                      -> b

(* Somebody else pulls or releases a wire: the device sees it only if the  *)
(* wire changes.                                                           *)
SetOrClr(b, call) ==
  LET w == call.wire
      pulls == IF call.low THEN b.line[w] \cup {call.who} ELSE b.line[w] \ {call.who}
      changed == [b EXCEPT !.line[w] = pulls] IN
  IF (b.line[w] = {}) = (pulls = {}) THEN changed
  ELSE DoTrans(changed, <<w, IF call.low THEN "low" ELSE "high">>)

Set(who, w) == [who |-> who, wire |-> w, low |-> TRUE]

Clr(who, w) == [who |-> who, wire |-> w, low |-> FALSE]

(* One call of a bus function: the wire, and all that the device does.     *)
(* Machine and drive go on when the calls they make have returned.         *)
BusCall ==
  /\ calls # <<>>
  /\ calls' = Tail(calls)
  /\ LET b == SetOrClr(Bus, Head(calls)) IN
       /\ line' = b.line
       /\ data' = b.data
       /\ state' = b.state
       /\ par_status' = b.par_status
       /\ trap' = b.trap
       /\ own' = b.own
       /\ leftover' = IF b.trap.name = <<>> THEN <<>> ELSE leftover
  /\ UNCHANGED <<pc, setup, job, todo, after, latch, file, drive>>

-----------------------------------------------------------------------------
(* The drive with its own CPU, external.  Its hardware pulls NRFD and NDAC *)
(* when ATN falls, and NRFD when it rises, until its CPU comes round.      *)
AtnFallsForDrive == IF drive.at = "absent" THEN <<>> ELSE <<Set("drv", "nrfd"), Set("drv", "ndac")>>

AtnRisesForDrive == IF drive.at \in {"absent", "idle"} THEN <<>> ELSE <<Set("drv", "nrfd")>>

DriveAfterAtn(at) == IF drive.at = "absent" \/ (at = "leaving" /\ drive.at = "idle")
                     THEN drive ELSE [drive EXCEPT !.at = at]

Drv(new) ==
  /\ calls' = new
  /\ UNCHANGED <<wires, device, pc, setup, job, todo, after, latch, file, leftover>>

DriveAnswers ==
  /\ drive.at = "atn"
  /\ Pulled(Bus, "atn")
  /\ Drv(<<Clr("drv", "nrfd")>>)
  /\ drive' = [drive EXCEPT !.at = "ready"]

(* It takes a byte; under ATN it learns whether it is to listen.           *)
Heard ==
  LET b == data["cpu"] IN
  IF ~Pulled(Bus, "atn") \/ b = Idle THEN drive.listens
  ELSE IF b.kind = "listen" /\ b.device \in Real THEN TRUE
  ELSE drive.listens /\ b.kind # "unlisten"

DriveBusy ==
  /\ drive.at = "ready"
  /\ Pulled(Bus, "dav")
  /\ Pulled(Bus, "atn") \/ drive.listens
  /\ Drv(<<Set("drv", "nrfd")>>)
  /\ drive' = [at |-> "busy", listens |-> Heard]

DriveTakes ==
  /\ drive.at = "busy"
  /\ Drv(<<Clr("drv", "ndac")>>)
  /\ drive' = [drive EXCEPT !.at = "taken"]

DriveAgain ==
  \/ /\ drive.at = "taken" /\ ~Pulled(Bus, "dav")
     /\ Drv(<<Set("drv", "ndac")>>)
     /\ drive' = [drive EXCEPT !.at = "again"]
  \/ /\ drive.at = "again"
     /\ Drv(<<Clr("drv", "nrfd")>>)
     /\ drive' = [drive EXCEPT !.at = "ready"]

DriveLeaves ==
  /\ drive.at = "leaving"
  /\ IF drive.listens
     THEN Drv(<<Set("drv", "ndac")>>) /\ drive' = [drive EXCEPT !.at = "again"]
     ELSE \E w \in {"nrfd", "ndac"} :
            /\ "drv" \in line[w]
            /\ Drv(<<Clr("drv", w)>>)
            /\ drive' = [drive EXCEPT !.at =
                 IF \E x \in {"nrfd", "ndac"} \ {w} : "drv" \in line[x] THEN "leaving" ELSE "idle"]

DriveStep ==
  calls = <<>> /\ (DriveAnswers \/ DriveBusy \/ DriveTakes \/ DriveAgain \/ DriveLeaves)

-----------------------------------------------------------------------------
(* The machine, external: its bus routines change one wire at a time.      *)
Holds(w) == "cpu" \in line[w]

Cpu(new, next) ==
  /\ calls' = new
  /\ pc' = next
  /\ UNCHANGED <<line, device, leftover>>

Shows(byte) == data' = [data EXCEPT !["cpu"] = byte]

NoJob == [kind |-> "none", device |-> 0, bytes |-> <<>>]

NoByte == [byte |-> 0, eoi |-> FALSE]

Quiet == UNCHANGED <<setup, job, latch, drive>>

Forget == opened' = FALSE /\ sent' = 0 /\ received' = <<>> /\ ended' = FALSE

Rest == job' = NoJob /\ after' = "end" /\ latch' = NoByte

OnFile == job.device \in Virtual /\ opened

PullAtn(first, next) ==
  /\ Cpu(<<Set("cpu", "atn")>> \o AtnFallsForDrive, "attention")
  /\ drive' = DriveAfterAtn("atn")
  /\ todo' = first
  /\ after' = next
  /\ UNCHANGED data

ReleaseAtn(next) ==
  /\ Cpu(<<Clr("cpu", "atn")>> \o AtnRisesForDrive, next)
  /\ drive' = DriveAfterAtn("leaving")
  /\ UNCHANGED data

Bytes(kind) ==
  CASE kind = "open"  -> {FileName, <<1>>}
    [] kind = "write" -> {[i \in 1..n |-> sent + i] : n \in 1..MaxBytes - sent}
    [] OTHER          -> {<<>>}

Commands(kind, d) ==
  LET who == [kind |-> IF kind = "read" THEN "talk" ELSE "listen", device |-> d] IN
  CASE kind \in {"read", "write"} -> <<who, [kind |-> "second"]>>
    [] kind = "open"  -> <<who, [kind |-> "open"]>>
    [] kind = "close" -> <<who, [kind |-> "close"], [kind |-> "unlisten"]>>

(* A file is opened to be read or to be written, and a machine writes only *)
(* to a file it has opened.  Of what is not emulated here one job is       *)
(* enough; the drive with a CPU only listens.                              *)
Jobs ==
  (IF sent = 0 THEN {"read"} ELSE {}) \cup (IF opened /\ received = <<>> THEN {"write"} ELSE {})
  \cup {"open", "close"}

Start(kind, d) ==
  /\ pc = "idle"
  /\ kind \in IF d \in Virtual THEN Jobs ELSE {"write"}
  /\ \E bytes \in Bytes(kind) : job' = [kind |-> kind, device |-> d, bytes |-> bytes]
  /\ PullAtn(Commands(kind, d),
             CASE kind = "read" -> "turn" [] kind = "close" -> "end" [] OTHER -> "send")
  /\ IF kind \in {"open", "close"} /\ d \in Virtual THEN Forget ELSE UNCHANGED file
  /\ UNCHANGED <<setup, latch>>

(* Under ATN the machine lets go of the wires it must watch.               *)
WatchWires ==
  /\ pc = "attention"
  /\ \/ \E w \in {"nrfd", "ndac"} : Holds(w) /\ Cpu(<<Clr("cpu", w)>>, "attention")
     \/ ~Holds("nrfd") /\ ~Holds("ndac") /\ Cpu(<<>>, "command")
  /\ UNCHANGED <<data, todo, after, file>> /\ Quiet

SendCommand ==
  /\ pc = "command" /\ todo # <<>>
  /\ ~Pulled(Bus, "nrfd")
  /\ Shows(Head(todo))
  /\ Cpu(<<Set("cpu", "dav")>>, "command dav")
  /\ UNCHANGED <<todo, after, file>> /\ Quiet

CommandTaken ==
  /\ pc = "command dav" /\ ~Pulled(Bus, "ndac")
  /\ Shows(Idle)
  /\ Cpu(<<Clr("cpu", "dav")>>, "command")
  /\ todo' = Tail(todo)
  /\ UNCHANGED <<after, file>> /\ Quiet

(* The machine asks for the error channel after an OPEN, not modelled: it  *)
(* knows whether it has a file.                                            *)
EndJob ==
  /\ pc = "command" /\ todo = <<>> /\ after = "end"
  /\ ReleaseAtn("idle")
  /\ IF job.kind = "open" /\ job.device \in Virtual
     THEN opened' = trap.channel[job.device].open /\ UNCHANGED <<sent, received, ended>>
     ELSE UNCHANGED file
  /\ Rest
  /\ UNCHANGED <<setup, todo>>

(* Data to the device, as long as somebody holds NRFD or NDAC.             *)
StartSending ==
  /\ pc = "command" /\ todo = <<>> /\ after = "send"
  /\ ReleaseAtn("send")
  /\ todo' = job.bytes
  /\ UNCHANGED <<setup, job, after, latch, file>>

SendByte ==
  /\ pc = "send" /\ todo # <<>>
  /\ Pulled(Bus, "ndac") /\ ~Pulled(Bus, "nrfd")
  /\ Shows(Head(todo))
  /\ Cpu(<<Set("cpu", "dav")>>, "send dav")
  /\ UNCHANGED <<todo, after, file>> /\ Quiet

ByteTaken ==
  /\ pc = "send dav" /\ ~Pulled(Bus, "ndac")
  /\ Shows(Idle)
  /\ Cpu(<<Clr("cpu", "dav")>>, "send")
  /\ todo' = Tail(todo)
  /\ sent' = IF job.kind = "write" /\ OnFile THEN sent + 1 ELSE sent
  /\ UNCHANGED <<after, opened, received, ended>> /\ Quiet

StopSending ==
  /\ pc = "send"
  /\ \/ todo = <<>>
     \/ job.kind = "write" /\ ~Pulled(Bus, "nrfd")
  /\ PullAtn(<<[kind |-> "unlisten"]>>, "end")
  /\ UNCHANGED <<setup, job, latch, file>>

NotPresent ==
  /\ pc = "send" /\ todo # <<>>
  /\ ~Pulled(Bus, "ndac") /\ ~Pulled(Bus, "nrfd")
  /\ PullAtn(<<[kind |-> "unlisten"]>>, "end")
  /\ UNCHANGED <<setup, job, latch, file>>

(* The machine turns round to listen: it pulls NRFD and NDAC before it     *)
(* releases ATN, or the old PET NDAC alone and afterwards, or the CBM 610  *)
(* NRFD first.                                                             *)
StartListening ==
  /\ pc = "command" /\ todo = <<>> /\ after = "turn"
  /\ IF setup.machine = "new" THEN Cpu(<<>>, "turn") /\ UNCHANGED <<data, drive>> ELSE ReleaseAtn("turn")
  /\ UNCHANGED <<setup, job, todo, after, latch, file>>

ToPull ==
  LET rest == {w \in {"nrfd", "ndac"} : ~Holds(w)} IN
  CASE setup.machine = "new" -> rest
    [] setup.machine = "old" -> rest \cap {"ndac"}
    [] setup.machine = "cbm610" -> IF "nrfd" \in rest THEN {"nrfd"} ELSE rest

Turn ==
  /\ pc = "turn"
  /\ \/ \E w \in ToPull : Cpu(<<Set("cpu", w)>>, "turn") /\ UNCHANGED <<data, drive>>
     \/ ToPull = {} /\ Pulled(Bus, "atn") /\ ReleaseAtn("receive")
     \/ ToPull = {} /\ ~Pulled(Bus, "atn") /\ Cpu(<<>>, "receive") /\ UNCHANGED <<data, drive>>
  /\ UNCHANGED <<setup, job, todo, after, latch, file>>

(* Data from the device.                                                   *)
Ready ==
  /\ pc = "receive"
  /\ Cpu(<<Clr("cpu", "nrfd")>>, "receive dav")
  /\ UNCHANGED <<data, todo, after, file>> /\ Quiet

TakeByte ==
  /\ pc = "receive dav" /\ Pulled(Bus, "dav")
  /\ Cpu(<<Set("cpu", "nrfd")>>, "receive taken")
  /\ latch' = [byte |-> data["emu"], eoi |-> Pulled(Bus, "eoi")]
  /\ UNCHANGED <<data, setup, job, todo, after, file, drive>>

Accept ==
  /\ pc = "receive taken"
  /\ Cpu(<<Clr("cpu", "ndac")>>, "receive accepted")
  /\ UNCHANGED <<data, todo, after, file>> /\ Quiet

Accepted ==
  /\ pc = "receive accepted" /\ ~Pulled(Bus, "dav")
  /\ Cpu(<<Set("cpu", "ndac")>>, IF latch.eoi THEN "receive end" ELSE "receive")
  /\ IF OnFile
     THEN received' = Append(received, latch.byte) /\ ended' = latch.eoi /\ UNCHANGED <<opened, sent>>
     ELSE UNCHANGED file
  /\ UNCHANGED <<data, todo, after>> /\ Quiet

(* The machine stops where it likes, or when it has waited too long for a  *)
(* byte that nobody holds up.                                              *)
StopReceiving ==
  /\ pc \in {"receive", "receive dav", "receive taken", "receive end"}
  /\ PullAtn(<<[kind |-> "untalk"]>>, "end")
  /\ UNCHANGED <<setup, job, latch, file>>

Timeout ==
  /\ pc = "receive dav" /\ ~Pulled(Bus, "dav") /\ ~Pulled(Bus, "nrfd")
  /\ PullAtn(<<[kind |-> "untalk"]>>, "end")
  /\ UNCHANGED <<setup, job, latch, file>>

(* A reset of the machine releases its wires one after the other, and the  *)
(* device is not told.                                                     *)
Reset ==
  /\ setup.resets > 0 /\ pc \notin {"idle", "reset"}
  /\ Shows(Idle)
  /\ calls' = <<>>
  /\ pc' = "reset"
  /\ todo' = <<"ndac", "dav", "atn", "nrfd">>
  /\ leftover' = trap.name
  /\ Forget
  /\ Rest
  /\ setup' = [setup EXCEPT !.resets = @ - 1]
  /\ UNCHANGED <<line, device, drive>>

Release ==
  /\ pc = "reset"
  /\ IF todo = <<>>
     THEN Cpu(<<>>, "idle") /\ UNCHANGED <<todo, data, drive>>
     ELSE /\ todo' = Tail(todo)
          /\ IF Head(todo) = "atn" /\ Pulled(Bus, "atn")
             THEN ReleaseAtn("reset")
             ELSE Cpu(<<Clr("cpu", Head(todo))>>, "reset") /\ UNCHANGED <<data, drive>>
  /\ UNCHANGED <<setup, job, after, latch, file>>

(* The machine's routines watch the wires in loops that run on whatever    *)
(* they see.                                                               *)
Poll == pc # "idle" /\ UNCHANGED vars

-----------------------------------------------------------------------------
Init ==
  /\ line = [w \in Wires |-> {}]
  /\ data = [d \in Driver |-> Idle]
  /\ state = "WaitATN"
  /\ par_status = Silent
  /\ trap = InitTrap
  /\ own = {}
  /\ calls = <<>>
  /\ pc = "idle"
  /\ setup \in Setups
  /\ job = NoJob
  /\ todo = <<>>
  /\ after = "end"
  /\ latch = NoByte
  /\ opened = FALSE /\ sent = 0 /\ received = <<>> /\ ended = FALSE
  /\ leftover = <<>>
  /\ drive = [at |-> IF setup.drive THEN "idle" ELSE "absent", listens |-> FALSE]

Routine ==
  \/ WatchWires \/ SendCommand \/ CommandTaken \/ EndJob
  \/ StartSending \/ SendByte \/ ByteTaken \/ NotPresent
  \/ StartListening \/ Turn \/ Ready \/ TakeByte \/ Accept \/ Accepted \/ Timeout
  \/ Release

Proceed == calls = <<>> /\ Routine

Next ==
  \/ BusCall
  \/ Proceed
  \/ DriveStep
  \/ /\ calls = <<>>
     /\ \/ \E kind \in {"open", "close", "read", "write"}, d \in Device : Start(kind, d)
        \/ StopSending
        \/ StopReceiving
        \/ Reset
        \/ Poll

Spec == Init /\ [][Next]_vars

(* Calls return; the machine's routines and the drive's CPU run on; a      *)
(* machine that has sent or read all there is says so.                     *)
CallReturns == calls # <<>> /\ calls' = Tail(calls)

Done ==
  /\ calls = <<>>
  /\ (todo = <<>> /\ StopSending) \/ (pc = "receive end" /\ StopReceiving)

Fairness == WF_calls(CallReturns) /\ WF_vars(Proceed) /\ WF_vars(Done) /\ WF_vars(DriveStep)

FairSpec == Spec /\ Fairness

-----------------------------------------------------------------------------
TypeOK ==
  /\ line \in [Wires -> SUBSET Driver]
  /\ state \in {"WaitATN", "In1", "In2", "OldPet", "Out1", "Out1a", "Out2"}
  /\ par_status \in [role : {"none", "listen", "talk"}, low : SUBSET {"eof", "error"}]
  /\ trap.name \in Seq(Nat)
  /\ \A d \in DOMAIN trap.channel : trap.channel[d].isopen \in 0..2
  /\ pc \in {"idle", "attention", "command", "command dav", "send", "send dav", "turn",
             "receive", "receive dav", "receive taken", "receive accepted",
             "receive end", "reset"}
  /\ drive.at \in {"absent", "idle", "atn", "ready", "busy", "taken", "again", "leaving"}

(* The device does not hear itself.  Its handlers change wires, and these  *)
(* changes call its handlers, in the state they are about to leave         *)
(* (parallel.c: "ignoreown should ignore the transition only when it is    *)
(* initiated by the virtual IEEE488 device itself. This is not yet         *)
(* implemented").  Only one such change finds a handler: NDAC, pulled when *)
(* ATN falls before the machine has turned round, and what that does is    *)
(* undone at once.                                                         *)
DoesNotHearItself == own \subseteq {<<"OldPet", Low("ndac")>>}

(* No two talkers: when one of machine and device puts a byte on the data  *)
(* wires or pulls DAV, the other does neither.                             *)
Drives(who) == data[who] # Idle \/ who \in line["dav"]

NoContention == ~(Drives("cpu") /\ Drives("emu"))

(* A device that is not addressed is off the bus: it pulls no wire and has *)
(* no byte on the data wires, so that a drive and the machine can talk.    *)
OffTheBus ==
  state \in {"WaitATN", "OldPet"} =>
    data["emu"] = Idle /\ \A w \in Wires : "emu" \notin line[w]

(* After a TALK the device sends nothing until the machine has pulled NDAC *)
(* (parallel.c, of OldPet: "The PET 3032 doesn't set NRFD and NDAC low     *)
(* before releasing ATN after a TALK command, wait for a NDAC low first!").*)
WaitsForNdac == state = "Out1a" => Holds("ndac")

(* What the bus carries is what the programs see: bytes arrive once, in    *)
(* order and unharmed in both directions, EOI comes with the last one and  *)
(* no other, and this through any break of a transfer by ATN at any wire.  *)
Stream == INSTANCE ByteStream WITH
  Length <- FileLength,
  stored <- IF opened THEN trap.channel[CHOOSE d \in Virtual : TRUE].stored ELSE <<>>

IsStream == Stream!Spec

(* Nobody waits in vain: a machine gives up on a device only when there is *)
(* none with that number, or it has no byte to give.                       *)
NoFalseAlarm ==
  [][/\ NotPresent => ~OnFile /\ (job.kind = "open" => job.device \notin Virtual)
     /\ Timeout => ~(OnFile /\ Len(received) < FileLength)]_vars

(* What the device has room for of a name.                                 *)
Cut(name) == IF Len(name) <= NameLength THEN name ELSE SubSeq(name, 1, NameLength)

(* The name that is used, or thrown away, is the one the machine has sent  *)
(* for this OPEN: nothing of an OPEN that failed, or of a job that was     *)
(* broken off by ATN, is before it, in it or after it.  A reset alone      *)
(* leaves something, since nothing in parallel-trap.c notes it: what it    *)
(* cut off of a name is before the name of the next OPEN, or is the name   *)
(* that is used, if another command than an OPEN comes first.              *)
NameIntact ==
  [][trap.name # <<>> /\ trap'.name = <<>> =>
       trap.name = IF job.kind = "open" THEN Cut(leftover \o job.bytes) ELSE leftover]_vars

(* Whatever the device and the drives do, the machine ends what it began.  *)
EveryJobEnds == pc # "idle" ~> pc = "idle"
=============================================================================
