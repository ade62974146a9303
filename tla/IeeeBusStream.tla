---------------------------- MODULE IeeeBusStream ----------------------------
(***************************************************************************)
(* Proofs about the data that crosses the bus of IeeeBus: the name that    *)
(* opens a file reaches the device as it was sent, the bytes that are      *)
(* written and read are a stream (ByteStream), and a machine gives up on a *)
(* device only when it is right.  The invariant has a part for each of     *)
(* these: the name in the shared buffer, on the wires and still to be sent *)
(* (NameInv); the drive beside the device (DriveInv); the machine's own    *)
(* wires while it reads (HoldsOK); the file behind the channel (FileInv);  *)
(* the talker's handshake, and the byte that is under way (TalkInv).       *)
(***************************************************************************)
EXTENDS IeeeBusProofs, SequenceTheorems

-----------------------------------------------------------------------------
(* What the device does to the bus, exactly, when somebody else changes a  *)
(* wire: an entry of its table, or nothing.                                *)
Reply(b, c, x) ==
  /\ c = Low("atn") => x.state = "In1" /\ "ndac" \in Mine(x) /\ AtMostAsks(b, x)
  /\ c = High("atn") /\ b.state = "In1" => TurnsRound(b, x)
  /\ c = High("atn") /\ b.state = "In2" => x.state = "WaitATN" /\ x.trap = b.trap
  /\ c = Low("dav") /\ b.state = "In1" => x.state = "In2" /\ Heeds(b, x)
  /\ c = High("dav") /\ b.state = "In2" =>
       /\ x.state = "In1" /\ x.trap = b.trap /\ x.par_status = b.par_status /\ "ndac" \in Mine(x)
  /\ c = Low("ndac") /\ b.state = "OldPet" =>
       IF Pulled(b, "nrfd") THEN x.state = "Out1" /\ x.trap = b.trap ELSE Sends(b, x)
  /\ <<b.state, c>> \in {<<"OldPet", Low("nrfd")>>, <<"Out1", High("nrfd")>>} => Sends(b, x)
  /\ c = High("ndac") /\ b.state = "Out1a" => x.state = "WaitATN" /\ x.trap = b.trap
  /\ c = Low("nrfd") /\ b.state = "Out1a" =>
       x.state = "Out2" /\ x.trap = b.trap /\ x.data = b.data /\ Mine(x) = Mine(b)
  /\ c = High("ndac") /\ b.state = "Out2" => GoesOn(b, x)
  /\ <<b.state, c>> \notin Active => Still(b, x)

(* The handler of the table answers so.                                    *)
LEMMA DoTransReplies ==
  ASSUME NEW b, BusOK(b), b.own = {}, NEW w \in Wires, NEW dir \in {"low", "high"},
         Expected(b, <<w, dir>>)
  PROVE  Reply(b, <<w, dir>>, DoTrans(b, <<w, dir>>))
<1> DEFINE c == <<w, dir>>
           x == DoTrans(b, c)
<1>0. b.state \in DeviceState
  BY TalkerAddressed
<1>1. Still(b, b)
  BY DEF Still
<1>2. CASE c = Low("atn")
  <2>1. x = WATN_atnlo(b)
    BY <1>2 DEF DoTrans, Low, High
  <2>2. x.state = "In1" /\ "ndac" \in Mine(x) /\ AtMostAsks(b, x)
    BY <2>1, WATN_atnloIs
  <2>3. <<b.state, c>> \in Active
    BY <1>0, <1>2 DEF Active, DeviceState, Low
  <2> HIDE DEF x
  <2> QED BY <1>2, <2>2, <2>3 DEF Reply, Low, High, x
<1>3. CASE c = High("atn")
  <2>1. x = CASE b.state = "In1" -> In1_atnhi(b) [] b.state = "In2" -> In2_atnhi(b) [] OTHER -> b
    BY <1>3 DEF DoTrans, Low, High
  <2> HIDE DEF x
  <2>2. b.state = "In1" => TurnsRound(b, x)
    <3> SUFFICES ASSUME b.state = "In1" PROVE TurnsRound(b, x)
      OBVIOUS
    <3>1. x = In1_atnhi(b)
      BY <2>1
    <3>2. MayTurn(b)
      BY <1>3 DEF Expected
    <3> QED BY <3>1, <3>2, In1_atnhiIs DEF MayTurn
  <2>3. b.state = "In2" => x.state = "WaitATN" /\ x.trap = b.trap
    BY <2>1, LetsGo DEF In2_atnhi
  <2>4. b.state \notin {"In1", "In2"} => x = b
    BY <2>1
  <2>5. b.state \in {"In1", "In2"} => <<b.state, c>> \in Active
    BY <1>3 DEF Active, High
  <2> QED BY <1>1, <1>3, <2>2, <2>3, <2>4, <2>5 DEF Reply, Low, High, x
<1>4. CASE c = Low("dav")
  <2>1. x = IF b.state = "In1" THEN In1_davlo(b) ELSE b
    BY <1>4 DEF DoTrans, Low, High
  <2> HIDE DEF x
  <2>2. b.state = "In1" => x.state = "In2" /\ Heeds(b, x)
    <3> SUFFICES ASSUME b.state = "In1" PROVE x.state = "In2" /\ Heeds(b, x)
      OBVIOUS
    <3>1. x = In1_davlo(b)
      BY <2>1
    <3>2. Understood(b)
      BY <1>4 DEF Expected
    <3> QED BY <3>1, <3>2, In1_davloIs DEF Understood
  <2>3. b.state # "In1" => x = b
    BY <2>1
  <2>4. b.state = "In1" => <<b.state, c>> \in Active
    BY <1>4 DEF Active, Low
  <2> QED BY <1>1, <1>4, <2>2, <2>3, <2>4 DEF Reply, Low, High, x
<1>5. CASE c = High("dav")
  <2>1. x = IF b.state = "In2" THEN In2_davhi(b) ELSE b
    BY <1>5 DEF DoTrans, Low, High
  <2> HIDE DEF x
  <2>2. b.state = "In2" =>
          x.state = "In1" /\ x.trap = b.trap /\ x.par_status = b.par_status /\ "ndac" \in Mine(x)
    BY <2>1, In2_davhiIs
  <2>3. b.state # "In2" => x = b
    BY <2>1
  <2>4. b.state = "In2" => <<b.state, c>> \in Active
    BY <1>5 DEF Active, High
  <2> QED BY <1>1, <1>5, <2>2, <2>3, <2>4 DEF Reply, Low, High, x
<1>6. CASE w \in {"nrfd", "ndac", "eoi"}
  <2>0. c # Low("atn") /\ c # High("atn") /\ c # Low("dav") /\ c # High("dav")
    BY <1>6 DEF Low, High
  <2>1. x = CASE b.state = "OldPet" /\ c = Low("ndac") -> OPet_ndaclo(b)
              [] b.state \in {"OldPet"} /\ c = Low("nrfd") -> Out1_nrfdhi(b)
              [] b.state = "Out1" /\ c = High("nrfd") -> Out1_nrfdhi(b)
              [] b.state = "Out1a" /\ c = High("ndac") -> Out1a_ndachi(b)
              [] b.state = "Out1a" /\ c = Low("nrfd") -> Go(b, "Out2")
              [] b.state = "Out2" /\ c = High("ndac") -> Out2_ndachi(b)
              [] OTHER -> b
    BY <2>0 DEF DoTrans, Low, High
  <2>2. Low("ndac") # Low("nrfd") /\ High("ndac") # High("nrfd") /\ Low("ndac") # High("ndac")
        /\ Low("nrfd") # High("nrfd") /\ Low("ndac") # High("nrfd") /\ High("ndac") # Low("nrfd")
    BY DEF Low, High
  <2> HIDE DEF x, c
  <2>3. b.state = "OldPet" /\ c = Low("ndac") =>
          IF Pulled(b, "nrfd") THEN x.state = "Out1" /\ x.trap = b.trap ELSE Sends(b, x)
    <3> SUFFICES ASSUME b.state = "OldPet", c = Low("ndac")
                 PROVE  IF Pulled(b, "nrfd") THEN x.state = "Out1" /\ x.trap = b.trap ELSE Sends(b, x)
      OBVIOUS
    <3>1. x = OPet_ndaclo(b)
      BY <2>1, <2>2
    <3> QED BY <3>1, TalksIs
  <2>4. (b.state = "OldPet" /\ c = Low("nrfd")) \/ (b.state = "Out1" /\ c = High("nrfd")) => Sends(b, x)
    <3> SUFFICES ASSUME (b.state = "OldPet" /\ c = Low("nrfd")) \/ (b.state = "Out1" /\ c = High("nrfd"))
                 PROVE  Sends(b, x)
      OBVIOUS
    <3>1. x = Out1_nrfdhi(b)
      BY <2>1, <2>2
    <3> QED BY <3>1, TalksIs
  <2>5. b.state = "Out1a" /\ c = High("ndac") => x.state = "WaitATN" /\ x.trap = b.trap
    <3> SUFFICES ASSUME b.state = "Out1a", c = High("ndac")
                 PROVE  x.state = "WaitATN" /\ x.trap = b.trap
      OBVIOUS
    <3>1. x = Go(ResetBus(b), "WaitATN")
      BY <2>1, <2>2 DEF Out1a_ndachi
    <3> QED BY <3>1, LetsGo
  <2>6. b.state = "Out1a" /\ c = Low("nrfd") =>
          x.state = "Out2" /\ x.trap = b.trap /\ x.data = b.data /\ Mine(x) = Mine(b)
    <3> SUFFICES ASSUME b.state = "Out1a", c = Low("nrfd")
                 PROVE  x.state = "Out2" /\ x.trap = b.trap /\ x.data = b.data /\ Mine(x) = Mine(b)
      OBVIOUS
    <3>1. x = Go(b, "Out2")
      BY <2>1, <2>2
    <3> QED BY <3>1, Out1a_nrfdloIs
  <2>7. b.state = "Out2" /\ c = High("ndac") => GoesOn(b, x)
    <3> SUFFICES ASSUME b.state = "Out2", c = High("ndac") PROVE GoesOn(b, x)
      OBVIOUS
    <3>1. x = Out2_ndachi(b)
      BY <2>1
    <3> QED BY <3>1, Out2_ndachiIs
  <2>8. <<b.state, c>> \notin Active => Still(b, x)
    <3> SUFFICES ASSUME <<b.state, c>> \notin Active PROVE Still(b, x)
      OBVIOUS
    <3>1. <<b.state, c>> \notin
            {<<"OldPet", Low("ndac")>>, <<"OldPet", Low("nrfd")>>, <<"Out1", High("nrfd")>>,
             <<"Out1a", High("ndac")>>, <<"Out1a", Low("nrfd")>>, <<"Out2", High("ndac")>>}
      BY DEF Active, Low, High
    <3>2. x = b
      BY <2>1, <3>1
    <3> QED BY <1>1, <3>2
  <2> QED BY <2>0, <2>3, <2>4, <2>5, <2>6, <2>7, <2>8 DEF Reply, x, c
<1>7. c \in {Low("atn"), High("atn"), Low("dav"), High("dav")} \/ w \in {"nrfd", "ndac", "eoi"}
  BY DEF Wires, Low, High
<1> QED BY <1>2, <1>3, <1>4, <1>5, <1>6, <1>7

(* What a call does: nothing, unless its wire changes.                     *)
LEMMA CallReplies ==
  ASSUME BusInv, BusCall
  PROVE  LET c == Head(calls) IN
         /\ ~Falls(Bus, c) => Still(Bus, Bus')
         /\ Falls(Bus, c) => Reply(Changed(Bus, c), Change(c), Bus')
<1> DEFINE c == Head(calls)
           b == Changed(Bus, c)
           x == SetOrClr(Bus, c)
<1>0. c \in Call /\ BusOK(Bus) /\ Bus.own = {} /\ Expected(b, Change(c))
  BY FirstCall, ExpectedByDevice, BusFields DEF BusInv, Types, BusCall
<1>1. BusOK(b) /\ b.own = {} /\ Mine(b) = Mine(Bus) /\ b.data = data /\ Steady(Bus, b)
  <2>1. /\ BusOK(b) /\ b.data = data /\ b.own = {} /\ Steady(Bus, b)
        /\ \A u \in Wires : b.line[u] = IF u = c.wire THEN Pulls(Bus, c) ELSE line[u]
    BY <1>0, ChangedIs, BusFields
  <2>2. c.who # "emu"
    BY <1>0 DEF Call
  <2>3. Mine(b) = Mine(Bus)
    <3> HIDE DEF b, c
    <3> QED BY <2>1, <2>2, BusFields DEF Mine, Pulls
  <2> QED BY <2>1, <2>3
<1>2. x = IF Falls(Bus, c) THEN DoTrans(b, Change(c)) ELSE b
  BY DEF SetOrClr, Changed, Pulls, Falls, Change
<1>3. /\ Bus'.line = x.line /\ Bus'.data = x.data /\ Bus'.state = x.state
      /\ Bus'.par_status = x.par_status /\ Bus'.trap = x.trap
  BY DEF BusCall, Bus
<1>4. ASSUME Falls(Bus, c) PROVE Reply(b, Change(c), x)
  <2>1. c.wire \in Wires /\ (IF c.low THEN "low" ELSE "high") \in {"low", "high"}
    BY <1>0 DEF Call
  <2>2. Change(c) = <<c.wire, IF c.low THEN "low" ELSE "high">>
    BY DEF Change
  <2>3. x = DoTrans(b, Change(c))
    BY <1>2, <1>4
  <2> HIDE DEF b, x, c
  <2> QED BY <1>0, <1>1, <2>1, <2>2, <2>3, DoTransReplies
<1> HIDE DEF b, x, c
<1>5. Mine(Bus') = Mine(x)
  BY <1>3 DEF Mine
<1>6. Falls(Bus, c) => Reply(b, Change(c), Bus')
  BY <1>3, <1>4, <1>5 DEF Reply, Still, TurnsRound, Heeds, AtMostAsks, Sends, GoesOn
<1>7. ~Falls(Bus, c) => Still(Bus, Bus')
  BY <1>1, <1>2, <1>3, <1>5, BusFields DEF Still, Steady
<1> QED BY <1>6, <1>7 DEF b, c

-----------------------------------------------------------------------------
(* The device that VICE answers for, and what the trap layer does to the   *)
(* channel of its file and to the name.                                    *)
V == CHOOSE d \in Virtual : TRUE

(* One emulated device is attached: the jobs of the model that open, read  *)
(* and close are about one.                                                *)
OneDevice == Virtual = {V}

C == trap.channel[V]

(* There is one such device.                                               *)
LEMMA TheDevice ==
  ASSUME OneDevice
  PROVE  /\ V \in Virtual /\ V \in Device /\ V \notin Real /\ V \in Virtual \cup Absent /\ V \in Device \ Real
         /\ V # 0 /\ InUse(V)
         /\ \A d \in Virtual : d = V
  BY DevicesDiffer DEF OneDevice, Device, InUse

(* A change of the addressee's channel, seen from the device's.            *)
LEMMA WithAt ==
  ASSUME OneDevice, NEW t \in TrapState, NEW c, t.device.device \in Virtual \cup Absent
  PROVE  /\ With(t, c).channel[V] = IF t.device.device = V THEN c ELSE t.channel[V]
         /\ t.channel[V] \in Channel
<1>1. With(t, c).channel = [t.channel EXCEPT ![t.device.device] = c]
  BY DEF With, TrapState
<1> QED BY <1>1, TheDevice DEF TrapState

(* The file gives its next byte, if it has one.                            *)
LEMMA GetfAt ==
  ASSUME NEW c \in Channel
  PROVE  LET g == getf(c) IN
         /\ g \in Channel /\ g.isopen = c.isopen /\ g.open = c.open /\ g.stored = c.stored
         /\ c.open /\ c.pos < FileLength =>
              /\ g.pos = c.pos + 1 /\ g.lastbyte = c.pos + 1
              /\ g.lastst = IF c.pos + 1 = FileLength THEN {"eof"} ELSE {}
         /\ ~(c.open /\ c.pos < FileLength) => g.pos = c.pos /\ g.lastst = Failure
<1>1. getf(c) \in Channel
  BY GetfIs
<1>2. CASE c.open /\ c.pos < FileLength
  <2> DEFINE st == IF c.pos + 1 = FileLength THEN {"eof"} ELSE {}
  <2>1. getf(c) = [c EXCEPT !.pos = c.pos + 1, !.lastbyte = c.pos + 1, !.lastst = st]
    BY <1>2 DEF getf
  <2> HIDE DEF st
  <2>2. /\ getf(c).isopen = c.isopen /\ getf(c).open = c.open /\ getf(c).stored = c.stored
        /\ getf(c).pos = c.pos + 1 /\ getf(c).lastbyte = c.pos + 1 /\ getf(c).lastst = st
    BY <2>1 DEF Channel
  <2> QED BY <1>1, <1>2, <2>2 DEF st
<1>3. CASE ~(c.open /\ c.pos < FileLength)
  <2>1. getf(c) = [c EXCEPT !.lastbyte = 0, !.lastst = Failure]
    BY <1>3 DEF getf
  <2>2. /\ getf(c).isopen = c.isopen /\ getf(c).open = c.open /\ getf(c).stored = c.stored
        /\ getf(c).pos = c.pos /\ getf(c).lastst = Failure
    BY <2>1 DEF Channel
  <2> QED BY <1>1, <1>3, <2>2
<1> QED BY <1>2, <1>3

(* A byte is fetched, unless one is still there.                           *)
LEMMA FetchedAt ==
  ASSUME NEW c \in Channel, NEW fake \in BOOLEAN
  PROVE  LET g == Fetched(c, fake) IN
         /\ g \in Channel /\ g.isopen = c.isopen /\ g.open = c.open /\ g.stored = c.stored
         /\ g.lastok = fake
         /\ c.lastok => g.pos = c.pos /\ g.lastbyte = c.lastbyte /\ g.lastst = c.lastst
         /\ ~c.lastok /\ c.open /\ c.pos < FileLength =>
              /\ g.pos = c.pos + 1 /\ g.lastbyte = c.pos + 1
              /\ g.lastst = IF c.pos + 1 = FileLength THEN {"eof"} ELSE {}
         /\ ~c.lastok /\ ~(c.open /\ c.pos < FileLength) => g.pos = c.pos /\ g.lastst = Failure
<1> DEFINE f == IF c.lastok THEN c ELSE getf(c)
<1>1. /\ f \in Channel /\ f.isopen = c.isopen /\ f.open = c.open /\ f.stored = c.stored
      /\ c.lastok => f.pos = c.pos /\ f.lastbyte = c.lastbyte /\ f.lastst = c.lastst
      /\ ~c.lastok /\ c.open /\ c.pos < FileLength =>
           /\ f.pos = c.pos + 1 /\ f.lastbyte = c.pos + 1
           /\ f.lastst = IF c.pos + 1 = FileLength THEN {"eof"} ELSE {}
      /\ ~c.lastok /\ ~(c.open /\ c.pos < FileLength) => f.pos = c.pos /\ f.lastst = Failure
  <2>1. CASE c.lastok
    BY <2>1
  <2>2. CASE ~c.lastok
    <3>1. f = getf(c)
      BY <2>2
    <3> HIDE DEF f
    <3> QED BY <2>2, <3>1, GetfAt
  <2> QED BY <2>1, <2>2
<1>2. Fetched(c, fake) = [f EXCEPT !.lastok = fake]
  BY DEF Fetched
<1> HIDE DEF f
<1> DEFINE g == [f EXCEPT !.lastok = fake]
<1>3. g \in Channel
  BY <1>1, ChannelKept
<1>4. /\ g.isopen = f.isopen /\ g.open = f.open /\ g.stored = f.stored /\ g.lastok = fake
      /\ g.pos = f.pos /\ g.lastbyte = f.lastbyte /\ g.lastst = f.lastst
  BY <1>1 DEF Channel
<1> HIDE DEF g
<1> QED BY <1>1, <1>2, <1>3, <1>4 DEF g

(* A byte is fetched from the device or from another.                      *)
LEMMA ReceivebyteAt ==
  ASSUME OneDevice, NEW t, TrapOK(t), t.device # Nobody, NEW fake \in BOOLEAN
  PROVE  LET r == parallel_trap_receivebyte(t, fake)
             g == Fetched(t.channel[V], fake) IN
         /\ r.t.name = t.name /\ r.t.secondary = t.secondary /\ r.t.device = t.device
         /\ t.channel[V] \in Channel
         /\ t.device.device # V => r.t.channel[V] = t.channel[V]
         /\ t.device.device = V =>
              /\ r.t.channel[V] = g /\ r.byte = g.lastbyte
              /\ r.status = [role |-> t.device.role, low |-> g.lastst]
<1>0. t \in TrapState /\ t.device.device \in Device /\ t.channel[V] \in Channel
  BY Addressee, TheDevice DEF TrapOK, TrapState
<1>1. CASE t.device.device \in Real
  <2>1. parallel_trap_receivebyte(t, fake).t = t
    BY <1>1 DEF parallel_trap_receivebyte
  <2> QED BY <1>0, <1>1, <2>1, TheDevice
<1>2. CASE t.device.device \notin Real
  <2> DEFINE c == Fetched(t.channel[t.device.device], fake)
  <2>1. t.device.device \in Virtual \cup Absent /\ t.channel[t.device.device] \in Channel
    BY <1>0, <1>2, Addressee
  <2>2. c \in Channel
    BY <2>1, FetchedAt
  <2>3. parallel_trap_receivebyte(t, fake)
          = [t |-> With(t, c), byte |-> c.lastbyte,
             status |-> [role |-> t.device.role, low |-> c.lastst]]
    BY <1>2 DEF parallel_trap_receivebyte
  <2>4. t.device.device = V => c = Fetched(t.channel[V], fake)
    OBVIOUS
  <2> HIDE DEF c
  <2>5. With(t, c).device = t.device /\ With(t, c).secondary = t.secondary /\ With(t, c).name = t.name
    BY <1>0, <2>1, <2>2, WithIs
  <2>6. With(t, c).channel[V] = IF t.device.device = V THEN c ELSE t.channel[V]
    BY <1>0, <2>1, WithAt
  <2> QED BY <1>0, <2>3, <2>4, <2>5, <2>6
<1> QED BY <1>1, <1>2

(* A data byte goes into the name or into the file.                        *)
LEMMA SendbyteAt ==
  ASSUME OneDevice, NEW t, TrapOK(t), NEW byte \in Nat
  PROVE  LET r == parallel_trap_sendbyte(t, byte)
             c == t.channel[V]
             n == r.t.channel[V] IN
         /\ r.t.secondary = t.secondary /\ r.t.device = t.device /\ c \in Channel /\ n \in Channel
         /\ t.device.device # V => r.t.name = t.name /\ n = c
         /\ t.device.device = V /\ c.isopen = 1 =>
              /\ r.t.name = IF Len(t.name) < NameLength THEN Append(t.name, byte) ELSE t.name
              /\ n = c
         /\ t.device.device = V /\ c.isopen # 1 =>
              /\ r.t.name = t.name
              /\ n = IF c.open THEN [c EXCEPT !.stored = Append(c.stored, byte)] ELSE c
<1> DEFINE d == t.device.device
           r == parallel_trap_sendbyte(t, byte)
<1>0. t \in TrapState /\ t.channel[V] \in Channel
  BY TheDevice DEF TrapOK, TrapState
<1>1. CASE d # V
  <2>1. r.t = t
    <3>1. d \notin Virtual
      BY <1>1, TheDevice
    <3> QED BY <3>1 DEF parallel_trap_sendbyte
  <2> HIDE DEF r
  <2> QED BY <1>0, <1>1, <2>1 DEF r
<1>2. CASE d = V /\ t.channel[V].isopen = 1
  <2> DEFINE n == IF Len(t.name) < NameLength THEN Append(t.name, byte) ELSE t.name
  <2>1. r.t = [t EXCEPT !.name = n]
    <3>1. d \in Virtual /\ d \notin Real /\ t.channel[d].isopen = 1
      BY <1>2, TheDevice
    <3> QED BY <3>1 DEF parallel_trap_sendbyte
  <2> HIDE DEF n
  <2>2. [t EXCEPT !.name = n].name = n /\ [t EXCEPT !.name = n].channel = t.channel
        /\ [t EXCEPT !.name = n].secondary = t.secondary /\ [t EXCEPT !.name = n].device = t.device
    BY <1>0 DEF TrapState
  <2> HIDE DEF r
  <2> QED BY <1>0, <1>2, <2>1, <2>2 DEF r, n
<1>3. CASE d = V /\ t.channel[V].isopen # 1
  <2> DEFINE c == t.channel[V]
             n == IF c.open THEN [c EXCEPT !.stored = Append(c.stored, byte)] ELSE c
  <2>1. r.t = With(t, n)
    <3>1. d \in Virtual /\ d \notin Real /\ t.channel[d].isopen # 1
      BY <1>3, TheDevice
    <3>2. r.t = With(t, putf(t.channel[d], byte).c)
      BY <3>1 DEF parallel_trap_sendbyte
    <3>3. putf(t.channel[d], byte).c = n
      BY <1>3 DEF putf
    <3> QED BY <3>2, <3>3
  <2>2. n \in Channel
    <3>1. Append(c.stored, byte) \in Seq(Nat)
      BY <1>0 DEF Channel
    <3> HIDE DEF c
    <3> QED BY <1>0, <3>1, ChannelKept DEF c
  <2> HIDE DEF n, r
  <2>3. d \in Virtual \cup Absent
    BY <1>3, TheDevice
  <2>4. With(t, n).device = t.device /\ With(t, n).secondary = t.secondary /\ With(t, n).name = t.name
        /\ With(t, n).channel[V] = n
    BY <1>0, <1>3, <2>2, <2>3, WithIs, WithAt
  <2> QED BY <1>0, <1>3, <2>1, <2>2, <2>4 DEF r, n
<1> QED BY <1>1, <1>2, <1>3

(* A command byte is carried out, and then the addressee is told of.       *)
LEMMA AnswerAt ==
  ASSUME NEW t, TrapOK(t), NEW b \in CommandByte,
         b.kind \in {"second", "open", "close"} => t.device # Nobody
  PROVE  LET r == parallel_trap_attention(t, b)
             c == Command(t, b) IN
         /\ r.t.name = c.t.name /\ r.t.channel = c.t.channel
         /\ ~Ending(b) => r.t = c.t
         /\ Ending(b) => r.t.secondary = "none"
         /\ r.status.low = c.st \cup Missing(c.t)
<1> DEFINE c == Command(t, b)
           over == IF Ending(b) THEN [c.t EXCEPT !.device = Nobody, !.secondary = "none"] ELSE c.t
           low == c.st \cup Missing(c.t)
<1>1. c.t \in TrapState
  BY CommandIs DEF TrapOK
<1>2. parallel_trap_attention(t, b)
        = [t |-> over, status |-> [role |-> over.device.role, low |-> low]]
  BY DEF parallel_trap_attention, Ending
<1>3. /\ over.name = c.t.name /\ over.channel = c.t.channel
      /\ Ending(b) => over.secondary = "none"
  <2> HIDE DEF c
  <2> QED BY <1>1 DEF TrapState
<1>4. ~Ending(b) => over = c.t
  OBVIOUS
<1> HIDE DEF over, low, c
<1>5. parallel_trap_attention(t, b).t = over /\ parallel_trap_attention(t, b).status.low = low
  BY <1>2
<1> QED BY <1>3, <1>4, <1>5 DEF low, c

(* A device is addressed.                                                  *)
LEMMA ListenOrTalkAt ==
  ASSUME NEW t, TrapOK(t), NEW b \in CommandByte, Addressing(b)
  PROVE  LET r == parallel_trap_attention(t, b) IN
         /\ r.t.name = t.name /\ r.t.channel = t.channel /\ r.t.secondary = t.secondary
         /\ InUse(b.device) => r.status.low = {}
<1> DEFINE v == [role |-> b.kind, device |-> b.device]
           x == [t EXCEPT !.device = v]
<1>0. t \in TrapState
  BY DEF TrapOK
<1>1. Command(t, b) = [t |-> x, st |-> {}]
  BY DEF Command, Addressed, Addressing
<1>2. x.name = t.name /\ x.channel = t.channel /\ x.secondary = t.secondary /\ x.device = v
  BY <1>0 DEF TrapState
<1>3. v # Nobody /\ v.device = b.device
  BY DEF Addressing, Nobody
<1>4. InUse(b.device) => Missing(x) = {}
  BY <1>2, <1>3 DEF Missing
<1>5. ~Ending(b) /\ b.kind \notin {"second", "open", "close"}
  BY DEF Addressing, Ending
<1> HIDE DEF x
<1>6. Command(t, b).t = x /\ Command(t, b).st = {}
  BY <1>1
<1> QED BY <1>2, <1>4, <1>5, <1>6, AnswerAt

(* What a command asks of the channel.                                     *)
LEMMA AskedAt ==
  ASSUME NEW t, TrapOK(t), t.device # Nobody, NEW kind \in {"second", "open", "close"}
  PROVE  LET a == [t EXCEPT !.secondary = kind] IN
         /\ TrapOK(a) /\ a.device = t.device /\ a.name = t.name /\ a.channel = t.channel
         /\ a.secondary = kind
<1>1. t \in TrapState
  BY DEF TrapOK
<1>2. [t EXCEPT !.secondary = kind] \in TrapState
  BY <1>1, TrapKept
<1> QED BY <1>1, <1>2 DEF TrapOK, TrapState

(* OPEN: the bytes that follow are the name.                               *)
LEMMA OpenAt ==
  ASSUME OneDevice, NEW t, TrapOK(t), NEW b \in CommandByte, b.kind = "open", t.device.device = V,
         t.device # Nobody
  PROVE  LET r == parallel_trap_attention(t, b) IN
         /\ r.t.name = t.name /\ r.t.secondary = "open" /\ r.status.low = {}
         /\ r.t.channel[V] = [t.channel[V] EXCEPT !.isopen = 1]
<1> DEFINE a == [t EXCEPT !.secondary = "open"]
           f == [a.channel EXCEPT ![V] = [a.channel[V] EXCEPT !.isopen = 1]]
           x == [a EXCEPT !.channel = f]
<1>1. TrapOK(a) /\ a.device = t.device /\ a.name = t.name /\ a.channel = t.channel /\ a.secondary = "open"
  BY AskedAt
<1>2. Command(t, b) = [t |-> NameFollows(a), st |-> {}]
  BY DEF Command
<1> HIDE DEF a
<1>3. NameFollows(a) = x
  <2>1. a.device.device = V /\ a.device.device \notin Real
    BY <1>1, TheDevice
  <2> QED BY <1>1, <2>1 DEF NameFollows, TrapOK, TrapState
<1>4. f[V] = [a.channel[V] EXCEPT !.isopen = 1]
  BY <1>1, TheDevice DEF TrapOK, TrapState
<1> HIDE DEF f
<1>5. x.name = a.name /\ x.secondary = a.secondary /\ x.device = a.device /\ x.channel = f
  BY <1>1 DEF TrapOK, TrapState
<1> HIDE DEF x
<1>6. Command(t, b).t = x /\ Command(t, b).st = {}
  BY <1>2, <1>3
<1>7. Missing(x) = {} /\ ~Ending(b)
  BY <1>1, <1>5, TheDevice DEF Missing, Ending
<1> QED BY <1>1, <1>4, <1>5, <1>6, <1>7, AnswerAt

(* CLOSE: the channel is closed.                                           *)
LEMMA CloseAt ==
  ASSUME OneDevice, NEW t, TrapOK(t), NEW b \in CommandByte, b.kind = "close", t.device.device = V,
         t.device # Nobody
  PROVE  LET r == parallel_trap_attention(t, b)
             c == t.channel[V]
             n == r.t.channel[V] IN
         /\ r.t.name = t.name /\ r.t.secondary = "close"
         /\ n \in Channel /\ n.isopen = 0 /\ ~n.open /\ ~n.lastok /\ n.pos = c.pos
<1> DEFINE a == [t EXCEPT !.secondary = "close"]
           c == t.channel[V]
           f == [c EXCEPT !.lastok = FALSE]
           w == With(a, f)
           e == [f EXCEPT !.open = FALSE]
           n == [e EXCEPT !.isopen = 0]
           x == With(w, n)
<1>1. TrapOK(a) /\ a.device = t.device /\ a.name = t.name /\ a.channel = t.channel
      /\ a.secondary = "close" /\ a \in TrapState /\ c \in Channel
  BY AskedAt, TheDevice DEF TrapOK, TrapState
<1>2. Command(t, b) = parallelcommand(a)
  BY DEF Command
<1> HIDE DEF a, c
<1>3. a.device.device = V /\ a.device.device \notin Real /\ a.device.device \in Virtual \cup Absent
  BY <1>1, TheDevice
<1>4. f \in Channel /\ f.isopen = c.isopen /\ f.pos = c.pos /\ f.lastok = FALSE
  BY <1>1, ChannelKept DEF Channel
<1>5. parallelcommand(a) = CloseFile(w)
  <2>1. a.channel[a.device.device] = c
    BY <1>1, <1>3 DEF c
  <2> QED BY <1>1, <1>3, <2>1 DEF parallelcommand
<1> HIDE DEF f
<1>6. w \in TrapState /\ w.device = a.device /\ w.secondary = a.secondary /\ w.name = a.name
      /\ w.channel[V] = f
  BY <1>1, <1>3, <1>4, WithIs, WithAt
<1> HIDE DEF w
<1>7. CloseFile(w) = [t |-> x, st |-> {}]
  BY <1>1, <1>3, <1>6 DEF CloseFile, closef
<1>8. e \in Channel /\ e.open = FALSE /\ e.pos = f.pos /\ e.lastok = f.lastok
  BY <1>4, ChannelKept DEF Channel
<1> HIDE DEF e
<1>9. n \in Channel /\ n.isopen = 0 /\ n.open = e.open /\ n.pos = e.pos /\ n.lastok = e.lastok
  BY <1>8, ChannelSet DEF Channel
<1> HIDE DEF n
<1>10. x.device = w.device /\ x.secondary = w.secondary /\ x.name = w.name /\ x.channel[V] = n
  BY <1>3, <1>6, <1>9, WithIs, WithAt
<1> HIDE DEF x
<1>11. Command(t, b).t = x /\ ~Ending(b)
  BY <1>2, <1>5, <1>7 DEF Ending
<1> QED BY <1>1, <1>4, <1>6, <1>8, <1>9, <1>10, <1>11, AnswerAt DEF c

(* The end of an OPEN: the file is opened, if it is there, and the name    *)
(* forgotten.                                                              *)
LEMMA NamedAt ==
  ASSUME OneDevice, NEW t, TrapOK(t), NEW b \in CommandByte, b.kind = "unlisten",
         t.secondary = "open", t.device.device = V, t.channel[V].isopen # 0, t.name # <<>>
  PROVE  LET r == parallel_trap_attention(t, b)
             c == t.channel[V]
             n == r.t.channel[V] IN
         /\ r.t.name = <<>> /\ n \in Channel /\ ~n.lastok
         /\ n.isopen = IF n.open THEN 2 ELSE 0
         /\ n.open => n.pos = 0 /\ n.stored = <<>>
         /\ ~n.open => n.pos = c.pos
<1> DEFINE c == t.channel[V]
           f == [c EXCEPT !.lastok = FALSE]
           w == With(t, f)
           e == [f EXCEPT !.open = FALSE]
           there == w.name = FileName
           o == IF there THEN [e EXCEPT !.open = TRUE, !.pos = 0, !.stored = <<>>] ELSE e
           n == [o EXCEPT !.isopen = IF there THEN 2 ELSE 0]
           x == With(w, n)
           y == [x EXCEPT !.name = <<>>]
<1>1. t \in TrapState /\ c \in Channel
  BY TheDevice DEF TrapOK, TrapState
<1>2. Command(t, b) = parallelcommand(t)
  BY DEF Command
<1>3. t.device.device \notin Real /\ t.device.device \in Virtual \cup Absent /\ t.device.device \in Virtual
  BY TheDevice
<1> HIDE DEF c
<1>4. f \in Channel /\ f.isopen = c.isopen /\ f.pos = c.pos /\ f.lastok = FALSE
  BY <1>1, ChannelKept DEF Channel
<1>5. parallelcommand(t) = OpenFile(w)
  BY <1>3 DEF parallelcommand, c
<1> HIDE DEF f
<1>6. w \in TrapState /\ w.device = t.device /\ w.name = t.name /\ w.channel[V] = f
  BY <1>1, <1>3, <1>4, WithIs, WithAt
<1> HIDE DEF w
<1>7. e \in Channel /\ e.open = FALSE /\ e.pos = f.pos /\ e.lastok = f.lastok
  BY <1>4, ChannelKept DEF Channel
<1>8. openf(w.device.device, closef(w.channel[w.device.device]), w.name)
        = [st |-> IF there THEN {} ELSE Failure, c |-> o]
  <2>1. w.device.device = V /\ V \in Virtual
    BY <1>3, <1>6
  <2>2. closef(w.channel[w.device.device]) = e
    BY <1>6, <2>1 DEF closef
  <2>3. e.open = FALSE /\ [e EXCEPT !.open = FALSE] = e
    BY <1>7 DEF Channel
  <2> HIDE DEF e
  <2> QED BY <2>1, <2>2, <2>3 DEF openf
<1>9. OpenFile(w) = [t |-> y, st |-> IF there THEN {} ELSE Failure]
  <2> DEFINE st == IF there THEN {} ELSE Failure
             v == openf(w.device.device, closef(w.channel[w.device.device]), w.name)
  <2>1. w.channel[w.device.device].isopen # 0 /\ w.name # <<>>
    BY <1>4, <1>6 DEF c
  <2>2. st = {} <=> there
    BY DEF Failure
  <2>3. v.st = st /\ v.c = o
    <3> HIDE DEF o, st
    <3> QED BY <1>8 DEF st
  <2>4. OpenFile(w) = [t |-> [With(w, [v.c EXCEPT !.isopen = IF v.st = {} THEN 2 ELSE 0])
                               EXCEPT !.name = <<>>], st |-> v.st]
    BY <2>1 DEF OpenFile
  <2> HIDE DEF v, st, o, there
  <2>5. [v.c EXCEPT !.isopen = IF v.st = {} THEN 2 ELSE 0] = n
    BY <2>2, <2>3
  <2>6. OpenFile(w) = [t |-> y, st |-> st]
    BY <2>3, <2>4, <2>5
  <2> QED BY <2>6 DEF st
<1> HIDE DEF e
<1>10. /\ o \in Channel /\ o.open = there /\ o.lastok = FALSE
       /\ there => o.pos = 0 /\ o.stored = <<>>
       /\ ~there => o.pos = c.pos
  <2>1. CASE ~there
    BY <1>4, <1>7, <2>1
  <2>2. CASE there
    <3> DEFINE p == [e EXCEPT !.open = TRUE]
               q == [p EXCEPT !.pos = 0]
               s == [q EXCEPT !.stored = <<>>]
    <3>1. p \in Channel /\ p.open = TRUE /\ p.lastok = e.lastok
      BY <1>7, ChannelKept DEF Channel
    <3> HIDE DEF p
    <3>2. q \in Channel /\ q.open = TRUE /\ q.lastok = e.lastok /\ q.pos = 0
      BY <3>1, ChannelKept DEF Channel
    <3> HIDE DEF q
    <3>3. s \in Channel /\ s.open = TRUE /\ s.lastok = e.lastok /\ s.pos = 0 /\ s.stored = <<>>
      <4>1. s \in Channel
        BY <3>2, ChannelSet
      <4>2. s.open = q.open /\ s.lastok = q.lastok /\ s.pos = q.pos
        BY <3>2 DEF Channel
      <4>3. s.stored = <<>>
        BY <3>2 DEF Channel
      <4> QED BY <3>2, <4>1, <4>2, <4>3
    <3>4. s = [e EXCEPT !.open = TRUE, !.pos = 0, !.stored = <<>>]
      BY <1>7 DEF s, q, p, Channel
    <3> HIDE DEF s
    <3>5. o = s
      BY <2>2, <3>4
    <3> HIDE DEF o, there
    <3> QED BY <1>4, <1>7, <2>2, <3>3, <3>5
  <2> QED BY <2>1, <2>2
<1> HIDE DEF o
<1>11. /\ n \in Channel /\ n.isopen = (IF there THEN 2 ELSE 0) /\ n.open = o.open
       /\ n.pos = o.pos /\ n.lastok = o.lastok /\ n.stored = o.stored
  <2> HIDE DEF there
  <2> QED BY <1>10, ChannelSet DEF Channel
<1> HIDE DEF n
<1>12. x \in TrapState /\ x.channel[V] = n
  BY <1>3, <1>6, <1>11, WithIs, WithAt
<1> HIDE DEF x
<1>13. y.name = <<>> /\ y.channel = x.channel
  BY <1>12 DEF TrapState
<1> HIDE DEF y
<1>14. Command(t, b).t = y
  BY <1>2, <1>5, <1>9
<1>15. /\ parallel_trap_attention(t, b).t.name = Command(t, b).t.name
       /\ parallel_trap_attention(t, b).t.channel = Command(t, b).t.channel
  BY AnswerAt
<1> HIDE DEF there
<1> QED BY <1>10, <1>11, <1>12, <1>13, <1>14, <1>15 DEF c

(* A channel that nobody opened is opened without a name; no file has none. *)
LEMMA NamelessAt ==
  ASSUME OneDevice, NEW t, TrapOK(t), t.device.device \in Virtual \cup Absent
  PROVE  LET n == OpenNameless(t)
             c == t.channel[V] IN
         /\ n.t.secondary = t.secondary /\ n.t.device = t.device
         /\ t.channel[t.device.device].isopen # 0 => n.t = t /\ n.st = {}
         /\ t.channel[t.device.device].isopen = 0 =>
              /\ n.t.name = <<>> /\ n.st = Failure
              /\ t.device.device # V => n.t.channel[V] = c
              /\ t.device.device = V =>
                   /\ n.t.channel[V] \in Channel /\ n.t.channel[V].isopen = 2 /\ ~n.t.channel[V].open
                   /\ n.t.channel[V].pos = c.pos /\ n.t.channel[V].lastok = c.lastok
                   /\ n.t.channel[V].lastst = c.lastst /\ n.t.channel[V].lastbyte = c.lastbyte
<1> DEFINE d == t.device.device
           c == t.channel[d]
           e == [c EXCEPT !.open = FALSE]
           f == [e EXCEPT !.isopen = 2]
           w == With(t, f)
           x == [w EXCEPT !.name = <<>>]
<1>1. t \in TrapState /\ c \in Channel
  BY DEF TrapOK, TrapState
<1>2. OpenNameless(t) = IF c.isopen # 0 THEN [t |-> t, st |-> {}] ELSE [t |-> x, st |-> Failure]
  <2>1. <<>> # FileName
    BY FileAssumption
  <2> DEFINE o == openf(d, c, <<>>)
  <2>2. OpenNameless(t) = IF c.isopen # 0 THEN [t |-> t, st |-> {}]
                          ELSE [t |-> [With(t, [o.c EXCEPT !.isopen = 2]) EXCEPT !.name = <<>>], st |-> o.st]
    BY DEF OpenNameless
  <2> HIDE DEF c, d
  <2>3. o = [st |-> Failure, c |-> e]
    BY <2>1 DEF openf
  <2> HIDE DEF o, e
  <2>4. o.c = e /\ o.st = Failure
    BY <2>3
  <2> QED BY <2>2, <2>4
<1>3. CASE c.isopen # 0
  BY <1>2, <1>3
<1>4. CASE c.isopen = 0
  <2>1. OpenNameless(t).t = x /\ OpenNameless(t).st = Failure
    BY <1>2, <1>4
  <2> HIDE DEF c
  <2>2. e \in Channel /\ e.open = FALSE /\ e.pos = c.pos /\ e.lastok = c.lastok
        /\ e.lastst = c.lastst /\ e.lastbyte = c.lastbyte
    BY <1>1, ChannelKept DEF Channel
  <2> HIDE DEF e
  <2>3. f \in Channel /\ f.open = FALSE /\ f.pos = c.pos /\ f.lastok = c.lastok
        /\ f.lastst = c.lastst /\ f.lastbyte = c.lastbyte /\ f.isopen = 2
    BY <2>2, ChannelSet DEF Channel
  <2> HIDE DEF f
  <2>4. w \in TrapState /\ w.device = t.device /\ w.secondary = t.secondary
        /\ w.channel[V] = IF d = V THEN f ELSE t.channel[V]
    BY <1>1, <2>3, WithIs, WithAt
  <2> HIDE DEF w
  <2>5. x.device = w.device /\ x.secondary = w.secondary /\ x.channel = w.channel /\ x.name = <<>>
    BY <2>4 DEF TrapState
  <2> HIDE DEF x
  <2>6. d = V => c = t.channel[V]
    BY DEF c
  <2> QED BY <1>4, <2>1, <2>3, <2>4, <2>5, <2>6 DEF c, d
<1> QED BY <1>3, <1>4

(* The secondary address of a read or a write.                             *)
LEMMA SecondAt ==
  ASSUME OneDevice, NEW t, TrapOK(t), NEW b \in CommandByte, b.kind = "second", t.device # Nobody
  PROVE  LET r == parallel_trap_attention(t, b)
             c == t.channel[V]
             n == r.t.channel[V] IN
         /\ r.t.secondary = "second" /\ c \in Channel
         /\ t.device.device # V => n = c /\ r.t.name \in {t.name, <<>>}
         /\ t.device.device = V /\ c.isopen # 0 =>
              /\ r.t.name = t.name
              /\ IF t.device.role = "talk"
                 THEN n = Fetched(c, TRUE) /\ r.status.low = n.lastst \ {"eof"}
                 ELSE n = c /\ r.status.low = {}
         /\ t.device.device = V /\ c.isopen = 0 =>
              /\ r.t.name = <<>> /\ n \in Channel /\ n.isopen = 2 /\ ~n.open /\ n.pos = c.pos
              /\ n.lastok = c.lastok /\ n.lastst = c.lastst /\ n.lastbyte = c.lastbyte
<1> DEFINE a == [t EXCEPT !.secondary = "second"]
           d == t.device.device
           r == parallel_trap_attention(t, b)
           m == Command(t, b)
<1>1. TrapOK(a) /\ a.device = t.device /\ a.name = t.name /\ a.channel = t.channel /\ a.secondary = "second"
  BY AskedAt
<1>2. m = parallelcommand(a)
  BY DEF Command
<1> HIDE DEF a
<1>3. t \in TrapState /\ t.channel[V] \in Channel /\ d \in Device
  BY Addressee, TheDevice DEF TrapOK, TrapState
<1>4. r.t = m.t /\ r.status.low = m.st \cup Missing(m.t)
  <2>1. ~Ending(b)
    BY DEF Ending
  <2> QED BY <2>1, AnswerAt
<1>5. m.t.device = t.device
  <2>1. ~Addressing(b)
    BY DEF Addressing
  <2> QED BY <2>1, CommandIs
<1>6. d = V => Missing(m.t) = {}
  BY <1>5, TheDevice DEF Missing
<1> HIDE DEF r, m
<1>7. CASE d \in Real
  <2>1. m.t = a
    BY <1>1, <1>2, <1>7 DEF parallelcommand
  <2>2. d # V
    BY <1>7, TheDevice
  <2> QED BY <1>1, <1>3, <1>4, <2>1, <2>2 DEF r
<1>8. CASE d \notin Real
  <2> DEFINE o == OpenNameless(a)
             g == parallel_trap_receivebyte(o.t, TRUE)
  <2>1. d \in Virtual \cup Absent /\ a.device.device = d
    BY <1>1, <1>3, <1>8, Addressee
  <2>2. m = IF o.st = {} /\ a.device.role = "talk"
            THEN [t |-> g.t, st |-> g.status.low \ {"eof"}] ELSE o
    BY <1>1, <1>2, <1>8 DEF parallelcommand, OpenChannel
  <2>3. /\ o.t.secondary = "second" /\ o.t.device = t.device
        /\ t.channel[d].isopen # 0 => o.t = a /\ o.st = {}
        /\ t.channel[d].isopen = 0 =>
              /\ o.t.name = <<>> /\ o.st = Failure
              /\ d # V => o.t.channel[V] = t.channel[V]
              /\ d = V =>
                   /\ o.t.channel[V] \in Channel /\ o.t.channel[V].isopen = 2 /\ ~o.t.channel[V].open
                   /\ o.t.channel[V].pos = t.channel[V].pos /\ o.t.channel[V].lastok = t.channel[V].lastok
                   /\ o.t.channel[V].lastst = t.channel[V].lastst
                   /\ o.t.channel[V].lastbyte = t.channel[V].lastbyte
    BY <1>1, <2>1, NamelessAt
  <2>4. Failure # {}
    BY DEF Failure
  <2> HIDE DEF o
  <2>5. CASE t.channel[d].isopen = 0
    <3>1. m = o
      BY <2>2, <2>3, <2>4, <2>5
    <3> QED BY <1>3, <1>4, <2>3, <2>5, <3>1 DEF r
  <2>6. CASE t.channel[d].isopen # 0 /\ t.device.role # "talk"
    <3>1. m = o /\ o.t = a /\ o.st = {}
      BY <1>1, <2>2, <2>3, <2>6
    <3>2. d = V => r.status.low = {}
      BY <1>4, <1>6, <3>1
    <3> QED BY <1>1, <1>3, <1>4, <2>6, <3>1, <3>2 DEF r
  <2>7. CASE t.channel[d].isopen # 0 /\ t.device.role = "talk"
    <3>1. o.t = a /\ o.st = {}
      BY <2>3, <2>7
    <3>2. m.t = g.t /\ m.st = g.status.low \ {"eof"}
      BY <1>1, <2>2, <2>7, <3>1
    <3> HIDE DEF g
    <3>3. g = parallel_trap_receivebyte(a, TRUE)
      BY <3>1 DEF g
    <3> DEFINE f == Fetched(a.channel[V], TRUE)
    <3>4. /\ g.t.name = a.name /\ g.t.secondary = a.secondary
          /\ d # V => g.t.channel[V] = a.channel[V]
          /\ d = V => g.t.channel[V] = f /\ g.status.low = f.lastst
      <4>1. a.device # Nobody /\ d = a.device.device
        BY <1>1
      <4> DEFINE rb == parallel_trap_receivebyte(a, TRUE)
      <4>2. /\ rb.t.name = a.name /\ rb.t.secondary = a.secondary
            /\ a.device.device # V => rb.t.channel[V] = a.channel[V]
            /\ a.device.device = V =>
                 /\ rb.t.channel[V] = Fetched(a.channel[V], TRUE)
                 /\ rb.status = [role |-> a.device.role, low |-> Fetched(a.channel[V], TRUE).lastst]
        <5> HIDE DEF d
        <5> QED BY <1>1, <4>1, ReceivebyteAt
      <4>3. g = rb
        BY <3>3
      <4>4. /\ rb.t.name = a.name /\ rb.t.secondary = a.secondary
            /\ d # V => rb.t.channel[V] = a.channel[V]
            /\ d = V => rb.t.channel[V] = f /\ rb.status.low = f.lastst
        <5> HIDE DEF rb, f, d
        <5>1. d = V => rb.t.channel[V] = f /\ rb.status = [role |-> a.device.role, low |-> f.lastst]
          BY <4>1, <4>2 DEF f
        <5>2. d = V => rb.status.low = f.lastst
          BY <5>1
        <5>3. d # V => rb.t.channel[V] = a.channel[V]
          BY <4>1, <4>2
        <5> QED BY <4>2, <5>1, <5>2, <5>3
      <4> HIDE DEF rb, f, d
      <4> QED BY <4>3, <4>4
    <3>5. d = V => r.status.low = f.lastst \ {"eof"}
      BY <1>4, <1>6, <3>2, <3>4
    <3> QED BY <1>1, <1>3, <1>4, <2>7, <3>2, <3>4, <3>5 DEF r
  <2> QED BY <2>5, <2>6, <2>7
<1> QED BY <1>7, <1>8

(* UNLISTEN and UNTALK that end anything but an OPEN leave the channels    *)
(* alone.                                                                  *)
LEMMA EndsAt ==
  ASSUME NEW t, TrapOK(t), NEW b \in CommandByte, Ending(b), t.secondary # "open" \/ b.kind = "untalk"
  PROVE  LET r == parallel_trap_attention(t, b) IN
         r.t.name = t.name /\ r.t.channel = t.channel
<1>1. Command(t, b) = [t |-> t, st |-> {}]
  BY DEF Command, Ending
<1>2. b.kind \notin {"second", "open", "close"}
  BY DEF Ending
<1>3. Command(t, b).t = t
  BY <1>1
<1> QED BY <1>2, <1>3, AnswerAt

-----------------------------------------------------------------------------
(* What a call leaves of the trap layer, unless a byte is taken.           *)
Untouched(t, u) ==
  /\ u.name = t.name /\ u.device = t.device /\ u.secondary = t.secondary
  /\ u.channel[V].isopen = t.channel[V].isopen /\ u.channel[V].open = t.channel[V].open

(* To fetch a byte is to leave name and addressee alone.                   *)
LEMMA ReceivesUntouched ==
  ASSUME OneDevice, NEW t, TrapOK(t), t.device # Nobody, NEW fake \in BOOLEAN
  PROVE  Untouched(t, parallel_trap_receivebyte(t, fake).t)
<1> DEFINE r == parallel_trap_receivebyte(t, fake)
           c == t.channel[V]
<1>1. /\ r.t.name = t.name /\ r.t.secondary = t.secondary /\ r.t.device = t.device /\ c \in Channel
      /\ r.t.channel[V] = c \/ r.t.channel[V] = Fetched(c, fake)
  BY ReceivebyteAt
<1> HIDE DEF r, c
<1>2. Fetched(c, fake).isopen = c.isopen /\ Fetched(c, fake).open = c.open
  BY <1>1, FetchedAt
<1> QED BY <1>1, <1>2 DEF Untouched, r, c

(* The bus as the handler of a call finds it.                              *)
LEMMA FoundByHandler ==
  ASSUME BusInv, calls # <<>>
  PROVE  LET c == Head(calls)
             b == Changed(Bus, c) IN
         /\ c \in Call /\ b.state = state /\ b.trap = trap /\ b.par_status = par_status /\ b.data = data
         /\ Mine(b) = Mine(Bus)
         /\ \A u \in Wires : b.line[u] = IF u = c.wire THEN Pulls(Bus, c) ELSE line[u]
<1> DEFINE c == Head(calls)
           b == Changed(Bus, c)
<1>0. c \in Call /\ BusOK(Bus)
  BY FirstCall DEF BusInv, Types
<1>1. /\ b.data = data /\ Steady(Bus, b)
      /\ \A u \in Wires : b.line[u] = IF u = c.wire THEN Pulls(Bus, c) ELSE line[u]
  BY <1>0, ChangedIs, BusFields
<1>2. c.who # "emu"
  BY <1>0 DEF Call
<1>3. Mine(b) = Mine(Bus)
  <2> HIDE DEF b, c
  <2> QED BY <1>1, <1>2, BusFields DEF Mine, Pulls
<1> HIDE DEF b, c
<1>4. b.state = state /\ b.trap = trap /\ b.par_status = par_status
  BY <1>1, BusFields DEF Steady
<1> QED BY <1>0, <1>1, <1>3, <1>4 DEF b, c

(* Nobody but the machine pulls ATN, and nobody but the machine and a      *)
(* talker DAV.                                                             *)
LEMMA Pullers ==
  ASSUME BusInv
  PROVE  /\ line["atn"] \subseteq {"cpu"}
         /\ state \in {"In1", "In2"} => line["dav"] \subseteq {"cpu"}
         /\ \A w \in Wires : w \in Mine(Bus) <=> "emu" \in line[w]
<1>1. BusOK(Bus) /\ WiresOK
  BY DEF BusInv, Types
<1>2. line["atn"] \subseteq Driver /\ line["dav"] \subseteq Driver
  BY <1>1, BusFields DEF BusOK, BusState, Wires
<1>3. "drv" \notin line["atn"] /\ "drv" \notin line["dav"]
  BY <1>1 DEF WiresOK, Wires
<1>4. \A w \in Wires : w \in Mine(Bus) <=> "emu" \in line[w]
  BY BusFields DEF Mine
<1>5. "emu" \notin line["atn"]
  BY <1>1, <1>4, BusFields DEF BusOK, Placed, MayPull, Wires
<1>6. state \in {"In1", "In2"} => "emu" \notin line["dav"]
  BY <1>1, <1>4, BusFields DEF BusOK, Placed, MayPull, Wires
<1> QED BY <1>2, <1>3, <1>4, <1>5, <1>6 DEF Driver

(* What the device makes of a call: it takes a byte when DAV falls in      *)
(* front of it, and leaves the name and the channel alone otherwise.       *)
LEMMA CallTells ==
  ASSUME BusInv, OneDevice, BusCall
  PROVE  /\ Asks(Set("cpu", "dav")) /\ state = "In1" => state' = "In2" /\ Heeds(Bus, Bus')
         /\ ~(Asks(Set("cpu", "dav")) /\ state = "In1") => Untouched(trap, trap')
         /\ Asks(Set("cpu", "atn")) /\ "cpu" \notin line["atn"] => state' = "In1"
         /\ Asks(Clr("cpu", "atn")) /\ state = "In1" /\ par_status = [role |-> "listen", low |-> {}] =>
              Still(Bus, Bus')
         /\ Asks(Clr("cpu", "dav")) =>
              /\ par_status' = par_status
              /\ state \in {"In1", "In2"} /\ (state = "In2" <=> "cpu" \in line["dav"]) => state' = "In1"
         /\ state' = "In1" => "emu" \in line'["ndac"] \/ (state = "In1" /\ Still(Bus, Bus'))
         /\ (\A w \in {"atn", "dav"} : ~Asks(Set("cpu", w)) /\ ~Asks(Clr("cpu", w)))
              /\ state \in {"In1", "In2"} => Still(Bus, Bus')
<1> DEFINE c == Head(calls)
           b == Changed(Bus, c)
           x == Bus'
<1>0. calls # <<>> /\ Types /\ BusOK(Bus)
  BY DEF BusCall, BusInv, Types
<1>1. /\ c \in Call /\ b.state = state /\ b.trap = trap /\ b.par_status = par_status /\ b.data = data
      /\ Mine(b) = Mine(Bus)
      /\ \A u \in Wires : b.line[u] = IF u = c.wire THEN Pulls(Bus, c) ELSE line[u]
  BY <1>0, FoundByHandler
<1>2. /\ ~Falls(Bus, c) => Still(Bus, x)
      /\ Falls(Bus, c) => Reply(b, Change(c), x)
  BY CallReplies
<1>3. x.line = line' /\ x.state = state' /\ x.trap = trap' /\ x.par_status = par_status' /\ x.data = data'
  BY DEF Bus
<1>4. state \in Talks => trap.device # Nobody
  BY <1>0, TalkerAddressed, BusFields
<1>5. /\ c.who = "cpu" => c = IF c.low THEN Set("cpu", c.wire) ELSE Clr("cpu", c.wire)
      /\ c.who = "cpu" => c.wire # "eoi"
      /\ c.who = "drv" => c.wire \in {"nrfd", "ndac"}
      /\ \A call : Asks(call) <=> c = call
  BY <1>0, FirstCall, CallsOfWire DEF Asks
<1>6. TrapOK(trap) /\ Mine(x) = {w \in Wires : "emu" \in line'[w]}
  BY <1>0, <1>3, BusFields DEF BusOK, Mine
<1>7. /\ Still(b, x) <=> Still(Bus, x)
      /\ Still(Bus, x) => Untouched(trap, trap')
  BY <1>1, <1>3, BusFields DEF Still, Untouched
<1>8. /\ x.trap = b.trap => Untouched(trap, trap')
      /\ b.state \in Talks =>
           \A fake \in BOOLEAN : x.trap = parallel_trap_receivebyte(b.trap, fake).t => Untouched(trap, trap')
  BY <1>1, <1>3, <1>4, <1>6, ReceivesUntouched DEF Untouched
<1>9. state \in DeviceState
  BY <1>0, TalkerAddressed, BusFields
<1> HIDE DEF b
<1>10. CASE c.wire = "atn" /\ c.low
  <2>1. Change(c) = Low("atn") /\ c = Set("cpu", "atn")
    BY <1>1, <1>5, <1>10 DEF Change, Low, Call
  <2>2. "cpu" \notin line["atn"] => Falls(Bus, c)
    BY <1>10, <2>1, Pullers, BusFields DEF Falls, Pulls, Set
  <2>3. Falls(Bus, c) => x.state = "In1" /\ "ndac" \in Mine(x) /\ AtMostAsks(b, x)
    BY <1>2, <2>1 DEF Reply
  <2>4. Falls(Bus, c) => Untouched(trap, trap')
    BY <1>1, <1>8, <2>3 DEF AtMostAsks, Talks
  <2>5. \A w \in {"atn", "dav"} : c # Clr("cpu", w)
    BY <2>1, Distinct DEF Wires
  <2>6. c # Set("cpu", "dav")
    BY <2>1, Distinct DEF Wires
  <2> QED BY <1>2, <1>3, <1>5, <1>6, <1>7, <2>1, <2>2, <2>3, <2>4, <2>5, <2>6, BusFields DEF Still, Wires
<1>11. CASE c.wire = "atn" /\ ~c.low
  <2>1. Change(c) = High("atn") /\ c = Clr("cpu", "atn")
    BY <1>1, <1>5, <1>11 DEF Change, High, Call
  <2>2. \A w \in Wires : c # Set("cpu", w) /\ (w # "atn" => c # Clr("cpu", w))
    BY <2>1, Distinct DEF Wires
  <2>3. CASE ~Falls(Bus, c)
    BY <1>2, <1>3, <1>5, <1>7, <2>1, <2>2, <2>3, BusFields DEF Still, Wires
  <2>4. CASE Falls(Bus, c) /\ state = "In1"
    <3>1. TurnsRound(b, x)
      BY <1>1, <1>2, <2>1, <2>4 DEF Reply
    <3>2. x.trap = b.trap /\ (Still(b, x) \/ x.state # "In1")
      BY <3>1 DEF TurnsRound
    <3>3. par_status = [role |-> "listen", low |-> {}] => Still(b, x)
      BY <1>1, <3>1 DEF TurnsRound
    <3> QED BY <1>3, <1>5, <1>7, <1>8, <2>1, <2>2, <2>4, <3>2, <3>3 DEF Wires
  <2>5. CASE Falls(Bus, c) /\ state = "In2"
    <3>1. x.state = "WaitATN" /\ x.trap = b.trap
      BY <1>1, <1>2, <2>1, <2>5 DEF Reply
    <3> QED BY <1>3, <1>5, <1>8, <2>1, <2>2, <2>5, <3>1 DEF Wires
  <2>6. CASE Falls(Bus, c) /\ state \notin {"In1", "In2"}
    <3>1. <<state, High("atn")>> \notin Active
      BY <2>6 DEF Active, High, Low
    <3>2. Still(b, x)
      BY <1>1, <1>2, <2>1, <2>6, <3>1 DEF Reply
    <3> QED BY <1>3, <1>5, <1>7, <2>1, <2>2, <2>6, <3>2, BusFields DEF Wires, Still
  <2> QED BY <2>3, <2>4, <2>5, <2>6
<1>12. CASE c.wire = "dav" /\ c.low
  <2>1. Change(c) = Low("dav") /\ c = Set("cpu", "dav")
    BY <1>1, <1>5, <1>12 DEF Change, Low, Call
  <2>2. \A w \in Wires : c # Clr("cpu", w) /\ (w # "dav" => c # Set("cpu", w))
    BY <2>1, Distinct DEF Wires
  <2>3. CASE state = "In1"
    <3>1. "cpu" \notin line["dav"] /\ line["dav"] \subseteq {"cpu"}
      BY <1>5, <2>1, <2>3, Pullers DEF BusInv, BytesOK
    <3>2. Falls(Bus, c)
      BY <2>1, <3>1, BusFields DEF Falls, Pulls, Set
    <3>3. x.state = "In2" /\ Heeds(b, x)
      BY <1>1, <1>2, <2>1, <2>3, <3>2 DEF Reply
    <3>4. Pulled(b, "atn") <=> Pulled(Bus, "atn")
      BY <1>1, <1>12, BusFields DEF Pulled, Wires
    <3>5. Heeds(Bus, x)
      BY <1>1, <3>3, <3>4, BusFields DEF Heeds
    <3> QED BY <1>3, <1>5, <2>1, <2>2, <2>3, <3>3, <3>5 DEF Wires
  <2>4. CASE state # "In1"
    <3>1. <<state, Low("dav")>> \notin Active
      BY <2>4 DEF Active, High, Low
    <3>2. Still(Bus, x)
      BY <1>1, <1>2, <1>7, <2>1, <2>4, <3>1 DEF Reply
    <3> QED BY <1>3, <1>5, <1>7, <2>1, <2>2, <2>4, <3>2, BusFields DEF Wires, Still
  <2> QED BY <2>3, <2>4
<1>13. CASE c.wire = "dav" /\ ~c.low
  <2>1. Change(c) = High("dav") /\ c = Clr("cpu", "dav")
    BY <1>1, <1>5, <1>13 DEF Change, High, Call
  <2>2. \A w \in Wires : c # Set("cpu", w) /\ (w # "dav" => c # Clr("cpu", w))
    BY <2>1, Distinct DEF Wires
  <2>3. CASE state = "In2" /\ Falls(Bus, c)
    <3>1. x.state = "In1" /\ x.trap = b.trap /\ x.par_status = b.par_status /\ "ndac" \in Mine(x)
      BY <1>1, <1>2, <2>1, <2>3 DEF Reply
    <3> QED BY <1>1, <1>3, <1>5, <1>6, <1>8, <2>1, <2>2, <2>3, <3>1 DEF Wires
  <2>4. CASE state # "In2" \/ ~Falls(Bus, c)
    <3>1. <<state, High("dav")>> \notin Active \/ state = "In2"
      BY <2>4 DEF Active, High, Low
    <3>2. Still(Bus, x)
      BY <1>1, <1>2, <1>7, <2>1, <2>4, <3>1 DEF Reply
    <3>3. state = "In2" => "cpu" \notin line["dav"]
      BY <2>1, <2>4, Pullers, BusFields DEF Falls, Pulls, Clr
    <3> QED BY <1>3, <1>5, <1>7, <2>1, <2>2, <2>4, <3>2, <3>3, BusFields DEF Wires, Still
  <2> QED BY <2>3, <2>4
<1>14. CASE c.wire \in {"nrfd", "ndac"}
  <2>1. \A w \in {"atn", "dav"} : c # Set("cpu", w) /\ c # Clr("cpu", w)
    BY <1>14 DEF Set, Clr
  <2>2. CASE ~Falls(Bus, c)
    BY <1>2, <1>3, <1>5, <1>7, <2>1, <2>2, BusFields DEF Still
  <2>3. CASE Falls(Bus, c) /\ <<state, Change(c)>> \notin Active
    <3>1. Still(Bus, x)
      BY <1>1, <1>2, <1>7, <2>3 DEF Reply
    <3> QED BY <1>3, <1>5, <1>7, <2>1, <3>1, BusFields DEF Still
  <2>4. CASE Falls(Bus, c) /\ <<state, Change(c)>> \in Active
    <3>1. <<state, Change(c)>> \in
            {<<"OldPet", Low("ndac")>>, <<"OldPet", Low("nrfd")>>, <<"Out1", High("nrfd")>>,
             <<"Out1a", High("ndac")>>, <<"Out1a", Low("nrfd")>>, <<"Out2", High("ndac")>>}
      BY <1>14, <2>4 DEF Active, Change, Low, High
    <3>2. Reply(b, Change(c), x)
      BY <1>2, <2>4
    <3>3. state \in Talks /\ x.state # "In1"
          /\ (x.trap = b.trap \/ \E fake \in BOOLEAN : x.trap = parallel_trap_receivebyte(b.trap, fake).t)
      <4>1. CASE <<state, Change(c)>> = <<"OldPet", Low("ndac")>>
        <5>1. state = "OldPet" /\ Change(c) = Low("ndac")
          BY <4>1
        <5>2. IF Pulled(b, "nrfd") THEN x.state = "Out1" /\ x.trap = b.trap ELSE Sends(b, x)
          BY <1>1, <3>2, <5>1 DEF Reply
        <5> QED BY <5>1, <5>2 DEF Sends, Talks
      <4>2. CASE <<state, Change(c)>> \in {<<"OldPet", Low("nrfd")>>, <<"Out1", High("nrfd")>>}
        <5>1. Sends(b, x) /\ state \in {"OldPet", "Out1"}
          BY <1>1, <3>2, <4>2 DEF Reply
        <5> QED BY <5>1 DEF Sends, Talks
      <4>3. CASE <<state, Change(c)>> = <<"Out1a", High("ndac")>>
        BY <1>1, <3>2, <4>3 DEF Reply, Talks
      <4>4. CASE <<state, Change(c)>> = <<"Out1a", Low("nrfd")>>
        BY <1>1, <3>2, <4>4 DEF Reply, Talks
      <4>5. CASE <<state, Change(c)>> = <<"Out2", High("ndac")>>
        <5>1. state = "Out2" /\ GoesOn(b, x)
          BY <1>1, <3>2, <4>5 DEF Reply
        <5> QED BY <5>1 DEF GoesOn, Talks
      <4> QED BY <3>1, <4>1, <4>2, <4>3, <4>4, <4>5
    <3>4. Untouched(trap, trap')
      BY <1>1, <1>8, <3>3
    <3>5. state \notin {"In1", "In2"}
      BY <3>3 DEF Talks
    <3> QED BY <1>3, <1>5, <2>1, <3>3, <3>4, <3>5
  <2> QED BY <2>2, <2>3, <2>4
<1>15. c.wire \in {"atn", "dav", "nrfd", "ndac"}
  BY <1>1, <1>5 DEF Call, Wires
<1>16. c.low \in BOOLEAN
  BY <1>1 DEF Call
<1> QED BY <1>10, <1>11, <1>12, <1>13, <1>14, <1>15, <1>16
-----------------------------------------------------------------------------
(* The machine's job, and how far it has got with it.                      *)
InJob == pc \notin {"idle", "reset"}

Commanded == pc \in {"attention", "command", "command dav"}

Sending == pc \in {"send", "send dav"}

(* The commands that the device has still to hear.                         *)
Left == IF pc = "command dav" /\ ~Asks(Set("cpu", "dav")) THEN Tail(todo) ELSE todo

Awaits(kinds) == Commanded /\ Left # <<>> /\ Head(Left).kind \in kinds

(* It has heard the UNLISTEN or UNTALK that ends the job.                  *)
Over == Commanded /\ Left = <<>> /\ after = "end"

(* The device has been addressed, and told what to do with the channel.    *)
Targeted == InJob /\ ~Awaits({"listen", "talk"}) /\ ~Over

Instructed == Targeted /\ ~Awaits({"second", "open", "close"})

Role == IF job.kind = "read" THEN "talk" ELSE "listen"

Told == IF job.kind \in {"open", "close"} THEN job.kind ELSE "second"

Who == [kind |-> Role, device |-> job.device]

Tell == [kind |-> Told]

Un == [kind |-> IF job.kind = "read" THEN "untalk" ELSE "unlisten"]

Onward == CASE job.kind = "read" -> "turn" [] job.kind = "close" -> "end" [] OTHER -> "send"

(* What may be left of the commands of a job, or of those that end it.     *)
Rows ==
  IF job.kind = "close" THEN {<<Who, Tell, Un>>, <<Tell, Un>>, <<Un>>, <<>>}
  ELSE IF after = "end" THEN {<<Un>>, <<>>}
  ELSE {<<Who, Tell>>, <<Tell>>, <<>>}

JobFits ==
  /\ InJob =>
       /\ job.kind \in {"open", "close", "read", "write"} /\ job.device \in Device
       /\ job.kind # "write" => job.device = V
       /\ job.kind = "write" /\ job.device = V => opened
       /\ opened => job.kind \notin {"open", "close"}
       /\ job.kind = "open" => job.bytes # <<>> /\ Len(job.bytes) <= NameLength
  /\ ~InJob => job.kind = "none"
  /\ Sending => job.kind \in {"open", "write"}
  /\ InJob /\ ~Commanded /\ ~Sending => job.kind = "read"

RowFits == Commanded => Left \in Rows /\ after \in {"end", Onward}

ToldOK ==
  /\ Targeted => trap.device = [role |-> Role, device |-> job.device]
  /\ Instructed => trap.secondary = Told

(* The device listens for commands and for data.                           *)
Hears == ("cpu" \in line["atn"] /\ pc # "reset") \/ (Sending /\ job.device = V)

HearsOK ==
  /\ Hears => state \in {"In1", "In2"} /\ (state = "In2" <=> "cpu" \in line["dav"])
  /\ state = "In1" => "emu" \in line["ndac"]
  /\ Asks(Set("cpu", "atn")) => "cpu" \notin line["atn"]
  /\ Asks(Set("cpu", "dav")) /\ pc = "send dav" => data["cpu"] = Head(todo)

(* The device has been told to listen, and ATN has not risen yet.          *)
Spoken == (Commanded /\ after = "send" /\ Left = <<>>) \/ (pc = "send" /\ "cpu" \in line["atn"])

ListensOK == Spoken /\ job.device = V => par_status = [role |-> "listen", low |-> {}]

(* The bytes of the name that the device has still to collect.             *)
Remaining ==
  IF Commanded THEN IF after = "send" THEN job.bytes ELSE <<>>
  ELSE IF pc = "send dav" /\ ~Asks(Set("cpu", "dav")) THEN Tail(todo) ELSE todo

Naming == job.kind = "open" /\ Instructed

ChannelOK ==
  /\ opened => C.open /\ C.isopen = 2
  /\ Naming => C.isopen = 1 /\ (Remaining # job.bytes => trap.name # <<>>)
  /\ job.kind = "open" /\ Over /\ C.open => C.isopen = 2

(* A name is what a reset left and what has arrived of the new one, or     *)
(* only what a reset left.                                                 *)
Arrived(name, left, rest, all) ==
  \E part \in Seq(Nat) : all = part \o rest /\ name = Cut(left \o part)

NameOK ==
  /\ leftover \in Seq(Nat) /\ Len(leftover) <= NameLength
  /\ IF Naming THEN Arrived(trap.name, leftover, Remaining, job.bytes) ELSE trap.name = leftover

NameInv == JobFits /\ RowFits /\ ToldOK /\ HearsOK /\ ListensOK /\ ChannelOK /\ NameOK

(* What is left of a row once its first command is heard.                  *)
LEMMA RowStep ==
  ASSUME job.kind \in {"open", "close", "read", "write"}, NEW row \in Rows, row # <<>>,
         after \in {"end", Onward}
  PROVE  LET h == Head(row) IN
         /\ Tail(row) \in Rows
         /\ Addressing(h) => h = Who /\ Tail(row) # <<>> /\ Head(Tail(row)) = Tell
         /\ h.kind \in {"second", "open", "close"} =>
              /\ h = Tell
              /\ IF job.kind = "close" THEN Tail(row) = <<Un>> ELSE Tail(row) = <<>> /\ after # "end"
         /\ Ending(h) => h = Un /\ Tail(row) = <<>> /\ after = "end"
         /\ Addressing(h) \/ h.kind \in {"second", "open", "close"} \/ Ending(h)
<1>1. /\ Who.kind \in {"listen", "talk"} /\ Tell.kind \in {"second", "open", "close"}
      /\ Un.kind \in {"unlisten", "untalk"}
  BY DEF Who, Tell, Un, Role, Told
<1>2. job.kind = "close" => after = "end"
  BY DEF Onward
<1>3. job.kind # "close" /\ row # <<Un>> => after # "end"
  BY DEF Rows
<1> DEFINE w == Who
           t == Tell
           u == Un
<1> HIDE DEF w, t, u
<1>4. w = Who /\ t = Tell /\ u = Un
  BY DEF w, t, u
<1>5. Rows = IF job.kind = "close" THEN {<<w, t, u>>, <<t, u>>, <<u>>, <<>>}
             ELSE IF after = "end" THEN {<<u>>, <<>>} ELSE {<<w, t>>, <<t>>, <<>>}
  BY <1>4 DEF Rows
<1>6. CASE row = <<w, t, u>>
  <2>1. Head(row) = w /\ Tail(row) = <<t, u>> /\ Tail(row) # <<>> /\ Head(Tail(row)) = t
    BY <1>6
  <2>2. job.kind = "close" /\ Tail(row) \in Rows
    BY <1>5, <1>6, <2>1
  <2> QED BY <1>1, <1>4, <2>1, <2>2 DEF Addressing, Ending
<1>7. CASE row = <<t, u>> /\ job.kind = "close"
  <2>1. Head(row) = t /\ Tail(row) = <<u>> /\ Tail(row) \in Rows
    BY <1>5, <1>7
  <2> QED BY <1>1, <1>4, <1>7, <2>1 DEF Addressing, Ending
<1>8. CASE row = <<u>> /\ after = "end"
  <2>1. Head(row) = u /\ Tail(row) = <<>> /\ Tail(row) \in Rows
    BY <1>5, <1>8
  <2> QED BY <1>1, <1>4, <1>8, <2>1 DEF Addressing, Ending
<1>9. CASE row = <<w, t>> /\ job.kind # "close" /\ after # "end"
  <2>1. Head(row) = w /\ Tail(row) = <<t>> /\ Tail(row) # <<>> /\ Head(Tail(row)) = t
    BY <1>9
  <2>2. Tail(row) \in Rows
    BY <1>5, <1>9, <2>1
  <2> QED BY <1>1, <1>4, <1>9, <2>1, <2>2 DEF Addressing, Ending
<1>10. CASE row = <<t>> /\ job.kind # "close" /\ after # "end"
  <2>1. Head(row) = t /\ Tail(row) = <<>> /\ Tail(row) \in Rows
    BY <1>5, <1>10
  <2> QED BY <1>1, <1>4, <1>10, <2>1 DEF Addressing, Ending
<1> QED BY <1>2, <1>5, <1>6, <1>7, <1>8, <1>9, <1>10

(* A name that grows by the byte that is shown.                            *)
LEMMA NameGrows ==
  ASSUME NEW name \in Seq(Nat), NEW rest \in Seq(Nat), rest # <<>>
  PROVE  /\ Append(name, Head(rest)) \o Tail(rest) = name \o rest
         /\ Len(name \o rest) > Len(name)
<1>1. /\ Head(rest) \in Nat /\ Tail(rest) \in Seq(Nat) /\ <<Head(rest)>> \in Seq(Nat)
      /\ Len(rest) \in Nat \ {0} /\ Len(name) \in Nat /\ Len(name \o rest) = Len(name) + Len(rest)
  BY HeadTailProperties, ConcatProperties
<1>2. Append(name, Head(rest)) = name \o <<Head(rest)>>
  BY <1>1, AppendIsConcat
<1>3. rest = <<Head(rest)>> \o Tail(rest)
  BY <1>1
<1>4. (name \o <<Head(rest)>>) \o Tail(rest) = name \o (<<Head(rest)>> \o Tail(rest))
  BY <1>1, ConcatAssociative
<1> QED BY <1>1, <1>2, <1>3, <1>4

-----------------------------------------------------------------------------
(* A call of a bus function.                                               *)

(* It moves the machine's place in the protocol only where the device      *)
(* hears a byte.                                                           *)
LEMMA CallControl ==
  ASSUME BusInv, BusCall
  PROVE  /\ pc' = pc /\ job' = job /\ todo' = todo /\ after' = after /\ opened' = opened
         /\ InJob' = InJob /\ Commanded' = Commanded /\ Sending' = Sending
         /\ Role' = Role /\ Told' = Told /\ Who' = Who /\ Un' = Un /\ Onward' = Onward /\ Rows' = Rows
         /\ Left' = IF Asks(Set("cpu", "dav")) /\ pc = "command dav" THEN Tail(Left) ELSE Left
         /\ Asks(Set("cpu", "dav")) /\ pc = "command dav" => Left = todo
         /\ ~(Asks(Set("cpu", "dav")) /\ pc = "command dav") =>
              /\ Targeted' = Targeted /\ Instructed' = Instructed /\ Over' = Over
         /\ Naming' /\ Naming =>
              Remaining' = IF Asks(Set("cpu", "dav")) /\ pc = "send dav" THEN Tail(todo) ELSE Remaining
         /\ leftover' = IF trap'.name = <<>> THEN <<>> ELSE leftover
<1>1. pc' = pc /\ job' = job /\ todo' = todo /\ after' = after /\ opened' = opened
  BY DEF BusCall, file
<1>2. InJob' = InJob /\ Commanded' = Commanded /\ Sending' = Sending
  BY <1>1 DEF InJob, Commanded, Sending
<1>3. Role' = Role /\ Told' = Told /\ Onward' = Onward
  BY <1>1 DEF Role, Told, Onward
<1>4. Who' = Who /\ Un' = Un /\ Tell' = Tell
  BY <1>1, <1>3 DEF Who, Un, Tell
<1>5. Rows' = Rows
  BY <1>1, <1>4 DEF Rows
<1>6. ~Asks(Set("cpu", "dav"))'
  BY CallMoves
<1>7. /\ Left' = IF Asks(Set("cpu", "dav")) /\ pc = "command dav" THEN Tail(Left) ELSE Left
      /\ Asks(Set("cpu", "dav")) /\ pc = "command dav" => Left = todo
  BY <1>1, <1>6 DEF Left
<1>8. ASSUME ~(Asks(Set("cpu", "dav")) /\ pc = "command dav")
      PROVE  Targeted' = Targeted /\ Instructed' = Instructed /\ Over' = Over
  <2>1. Left' = Left
    BY <1>7, <1>8
  <2>2. /\ Awaits({"listen", "talk"})' = Awaits({"listen", "talk"})
        /\ Awaits({"second", "open", "close"})' = Awaits({"second", "open", "close"})
        /\ Over' = Over
    BY <1>1, <1>2, <2>1 DEF Awaits, Over
  <2>3. Targeted' = Targeted
    BY <1>2, <2>2 DEF Targeted
  <2> QED BY <2>2, <2>3 DEF Instructed
<1>9. Naming' /\ Naming =>
        Remaining' = IF Asks(Set("cpu", "dav")) /\ pc = "send dav" THEN Tail(todo) ELSE Remaining
  BY <1>1, <1>2, <1>6 DEF Remaining, Commanded
<1>10. leftover' = IF trap'.name = <<>> THEN <<>> ELSE leftover
  BY DEF BusCall
<1> QED BY <1>1, <1>2, <1>3, <1>4, <1>5, <1>7, <1>8, <1>9, <1>10

(* What the device has room for.                                           *)
LEMMA CutIs ==
  ASSUME NEW name \in Seq(Nat)
  PROVE  /\ Cut(name) \in Seq(Nat) /\ Len(Cut(name)) <= NameLength
         /\ Cut(name) = <<>> => name = <<>>
         /\ Len(name) <= NameLength => Cut(name) = name
         /\ \A b \in Nat : Cut(Append(name, b)) =
              IF Len(Cut(name)) < NameLength THEN Append(Cut(name), b) ELSE Cut(name)
<1>1. NameLength \in Nat /\ NameLength # 0
  <2>1. FileName \in Seq(Nat) /\ FileName # <<>> /\ NameLength \in Nat /\ Len(FileName) <= NameLength
    BY FileAssumption, NameLengthAssumption
  <2> QED BY <2>1
<1>2. Len(name) \in Nat
  OBVIOUS
<1>3. CASE Len(name) < NameLength
  <2>1. Cut(name) = name
    BY <1>1, <1>2, <1>3 DEF Cut
  <2>2. \A b \in Nat : Len(Append(name, b)) = Len(name) + 1
    OBVIOUS
  <2>3. \A b \in Nat : Cut(Append(name, b)) = Append(name, b)
    BY <1>1, <1>2, <1>3, <2>2 DEF Cut
  <2> QED BY <1>1, <1>2, <1>3, <2>1, <2>3
<1>4. CASE ~(Len(name) < NameLength)
  <2>1. SubSeq(name, 1, NameLength) \in Seq(Nat) /\ Len(SubSeq(name, 1, NameLength)) = NameLength
    BY <1>1, <1>2, <1>4
  <2>2. Len(name) = NameLength => SubSeq(name, 1, NameLength) = name
    BY <1>1, <1>2, <1>4
  <2>3. Cut(name) = SubSeq(name, 1, NameLength)
    BY <1>1, <1>2, <1>4, <2>2 DEF Cut
  <2>4. Len(Cut(name)) = NameLength /\ Cut(name) \in Seq(Nat)
    BY <2>1, <2>3
  <2>5. \A b \in Nat : Cut(Append(name, b)) = Cut(name)
    <3> SUFFICES ASSUME NEW b \in Nat PROVE Cut(Append(name, b)) = Cut(name)
      OBVIOUS
    <3>1. /\ Append(name, b) \in Seq(Nat) /\ Len(Append(name, b)) = Len(name) + 1
          /\ \A i \in 1..Len(name) : Append(name, b)[i] = name[i]
      OBVIOUS
    <3>2. SubSeq(Append(name, b), 1, NameLength) = SubSeq(name, 1, NameLength)
      BY <1>1, <1>2, <1>4, <3>1
    <3>3. Cut(Append(name, b)) = SubSeq(Append(name, b), 1, NameLength)
      BY <1>1, <1>2, <1>4, <3>1 DEF Cut
    <3> QED BY <2>3, <3>2, <3>3
  <2>6. Cut(name) # <<>>
    BY <1>1, <2>4
  <2>7. Len(name) <= NameLength => Cut(name) = name
    BY <1>1, <1>2, <1>4, <2>2, <2>3
  <2>8. ~(Len(Cut(name)) < NameLength)
    BY <1>1, <2>4
  <2>9. \A b \in Nat : Cut(Append(name, b)) =
          IF Len(Cut(name)) < NameLength THEN Append(Cut(name), b) ELSE Cut(name)
    BY <2>5, <2>8, Zenon
  <2>10. Len(Cut(name)) <= NameLength
    BY <1>1, <2>4
  <2> QED BY <2>4, <2>6, <2>7, <2>9, <2>10, Zenon
<1> QED BY <1>3, <1>4

(* Nothing has arrived yet.                                                *)
LEMMA NoneArrived ==
  ASSUME NEW left \in Seq(Nat), Len(left) <= NameLength, NEW all \in Seq(Nat)
  PROVE  Arrived(left, left, all, all)
<1>1. <<>> \in Seq(Nat) /\ <<>> \o all = all /\ left \o <<>> = left
  BY ConcatEmptySeq
<1>2. Cut(left \o <<>>) = left
  BY <1>1, CutIs
<1> QED BY <1>1, <1>2 DEF Arrived

(* A byte at the end of the second part is at the end of the whole.        *)
LEMMA AppendConcat ==
  ASSUME NEW s \in Seq(Nat), NEW t \in Seq(Nat), NEW b \in Nat
  PROVE  s \o Append(t, b) = Append(s \o t, b) /\ Append(s \o t, b) # <<>>
<1>1. s \o t \in Seq(Nat) /\ <<b>> \in Seq(Nat)
  BY ConcatProperties
<1>2. Append(t, b) = t \o <<b>> /\ Append(s \o t, b) = (s \o t) \o <<b>>
  BY <1>1, AppendIsConcat
<1>3. (s \o t) \o <<b>> = s \o (t \o <<b>>)
  BY <1>1, ConcatAssociative
<1>4. Append(s \o t, b) # <<>>
  <2> DEFINE u == s \o t
  <2>1. u \in Seq(Nat)
    BY <1>1
  <2> HIDE DEF u
  <2>2. Append(u, b) # <<>>
    BY <2>1, AppendProperties
  <2> QED BY <2>2 DEF u
<1> QED BY <1>2, <1>3, <1>4

(* The next byte arrives, as far as there is room.                         *)
LEMMA OneArrives ==
  ASSUME NEW left \in Seq(Nat), NEW rest \in Seq(Nat), rest # <<>>, NEW all \in Seq(Nat),
         NEW name, NEW next, Arrived(name, left, rest, all),
         next = IF Len(name) < NameLength THEN Append(name, Head(rest)) ELSE name
  PROVE  Arrived(next, left, Tail(rest), all) /\ next # <<>>
<1>1. PICK part \in Seq(Nat) : all = part \o rest /\ name = Cut(left \o part)
  BY DEF Arrived
<1>2. Head(rest) \in Nat /\ Append(part, Head(rest)) \in Seq(Nat) /\ left \o part \in Seq(Nat)
  BY HeadAndTail, ConcatProperties
<1>3. Append(part, Head(rest)) \o Tail(rest) = part \o rest
  BY NameGrows
<1>4. left \o Append(part, Head(rest)) = Append(left \o part, Head(rest))
  BY <1>2, AppendConcat
<1>5. Cut(Append(left \o part, Head(rest))) = next
  BY <1>1, <1>2, CutIs
<1>6. Append(left \o part, Head(rest)) # <<>>
  BY <1>2, AppendConcat
<1>7. NameLength # 0 /\ NameLength \in Nat
  <2>1. FileName \in Seq(Nat) /\ FileName # <<>> /\ NameLength \in Nat /\ Len(FileName) <= NameLength
    BY FileAssumption, NameLengthAssumption
  <2> QED BY <2>1
<1>8. next # <<>>
  <2>1. Append(left \o part, Head(rest)) \in Seq(Nat)
    BY <1>2
  <2> QED BY <1>5, <1>6, <2>1, CutIs
<1> QED BY <1>1, <1>2, <1>3, <1>4, <1>5, <1>8 DEF Arrived

(* All has arrived.                                                        *)
LEMMA AllArrived ==
  ASSUME NEW left, NEW name, NEW all \in Seq(Nat), Arrived(name, left, <<>>, all)
  PROVE  name = Cut(left \o all)
<1>1. PICK part \in Seq(Nat) : all = part \o <<>> /\ name = Cut(left \o part)
  BY DEF Arrived
<1>2. part \o <<>> = part
  BY ConcatEmptySeq
<1> QED BY <1>1, <1>2

(* What a reset has left is there until the name is gone.                  *)
LEMMA LeftoverOrNot ==
  ASSUME NameOK, Types, leftover' = IF trap'.name = <<>> THEN <<>> ELSE leftover,
         IF Naming' THEN Arrived(trap'.name, leftover, Remaining', job'.bytes)
         ELSE trap'.name \in {leftover, <<>>}
  PROVE  NameOK'
<1>1. leftover \in Seq(Nat) /\ Len(leftover) <= NameLength /\ NameLength \in Nat
  BY NameLengthAssumption DEF NameOK
<1>2. leftover' \in Seq(Nat) /\ Len(leftover') <= NameLength
  BY <1>1
<1>3. CASE ~Naming'
  BY <1>2, <1>3 DEF NameOK
<1>4. CASE Naming' /\ trap'.name # <<>>
  BY <1>2, <1>4 DEF NameOK
<1>5. CASE Naming' /\ trap'.name = <<>>
  <2>1. PICK part \in Seq(Nat) :
          job'.bytes = part \o Remaining' /\ trap'.name = Cut(leftover \o part)
    BY <1>5 DEF Arrived
  <2>2. leftover \o part \in Seq(Nat) /\ Len(leftover \o part) = Len(leftover) + Len(part)
    BY <1>1, ConcatProperties
  <2>3. leftover \o part = <<>>
    BY <1>5, <2>1, <2>2, CutIs
  <2>4. Len(leftover) = 0
    BY <1>1, <2>2, <2>3
  <2>5. leftover = <<>>
    BY <1>1, <2>4
  <2>6. leftover' = leftover
    BY <1>5, <2>5
  <2> QED BY <1>2, <1>5, <2>1, <2>6 DEF NameOK, Arrived
<1> QED BY <1>3, <1>4, <1>5

(* A device that hears the machine is in In1 or In2, as DAV is.            *)
LEMMA CallKeepsHears == ASSUME BusInv, NameInv, OneDevice, BusCall PROVE HearsOK'
<1>0. Types /\ HearsOK /\ calls # <<>>
  BY DEF BusInv, NameInv, BusCall
<1>1. pc' = pc /\ job' = job /\ todo' = todo
  BY CallControl
<1>2. \A w : ~Asks(Set("cpu", w))' /\ ~Asks(Clr("cpu", w))'
  BY CallMoves
<1>3. /\ "cpu" \in line'["atn"] <=> ("cpu" \in line["atn"] /\ ~Asks(Clr("cpu", "atn"))) \/ Asks(Set("cpu", "atn"))
      /\ "cpu" \in line'["dav"] <=> ("cpu" \in line["dav"] /\ ~Asks(Clr("cpu", "dav"))) \/ Asks(Set("cpu", "dav"))
  BY CallMoves DEF Wires
<1>4. state' = "In1" => "emu" \in line'["ndac"]
  <2>1. state' = "In1" => "emu" \in line'["ndac"] \/ (state = "In1" /\ Still(Bus, Bus'))
    BY CallTells
  <2>2. Still(Bus, Bus') => ("emu" \in line'["ndac"] <=> "emu" \in line["ndac"])
    <3>1. Mine(Bus') = {w \in Wires : "emu" \in line'[w]} /\ Mine(Bus) = {w \in Wires : "emu" \in line[w]}
      BY DEF Mine, Bus
    <3> QED BY <3>1 DEF Still, Wires
  <2> QED BY <1>0, <2>1, <2>2 DEF HearsOK
<1>5. ASSUME Hears' PROVE state' \in {"In1", "In2"} /\ (state' = "In2" <=> "cpu" \in line'["dav"])
  <2>0. Still(Bus, Bus') => state' = state
    BY BusFields DEF Still, Bus
  <2>1. CASE Asks(Set("cpu", "atn"))
    <3>1. "cpu" \notin line["atn"] /\ pc = "attention"
      BY <1>0, <2>1, AsksAt DEF HearsOK
    <3>2. state' = "In1"
      BY <2>1, <3>1, CallTells
    <3>3. "cpu" \notin line["dav"] /\ ~Asks(Set("cpu", "dav"))
      BY <1>0, <2>1, <3>1, AsksAt DEF BusInv, BytesOK, ToRelease
    <3> QED BY <1>3, <3>2, <3>3
  <2>2. CASE ~Asks(Set("cpu", "atn"))
    <3>1. Hears
      BY <1>1, <1>3, <1>5, <2>2, CallControl DEF Hears
    <3>2. state \in {"In1", "In2"} /\ (state = "In2" <=> "cpu" \in line["dav"])
      BY <1>0, <3>1 DEF HearsOK
    <3>3. CASE Asks(Clr("cpu", "atn"))
      <4>1. pc = "send" /\ job.device = V
        <5>1. "cpu" \notin line'["atn"]
          BY <1>3, <2>2, <3>3
        <5>2. Sending' /\ job'.device = V
          BY <1>5, <5>1 DEF Hears
        <5> QED BY <1>0, <1>1, <3>3, <5>2, AsksAt DEF Sending
      <4>2. "cpu" \notin line["dav"] /\ ~Asks(Set("cpu", "dav"))
        BY <1>0, <3>3, <4>1, AsksAt DEF BusInv, ReleaseOK
      <4>3. state = "In1"
        BY <3>2, <4>2
      <4>4. Still(Bus, Bus') \/ state' = state
        <5>1. CASE "cpu" \in line["atn"]
          <6>1. par_status = [role |-> "listen", low |-> {}]
            BY <4>1, <5>1 DEF NameInv, ListensOK, Spoken
          <6> QED BY <3>3, <4>3, <6>1, CallTells
        <5>2. CASE "cpu" \notin line["atn"]
          <6>1. ~Falls(Bus, Head(calls))
            <7>1. Head(calls) = Clr("cpu", "atn")
              BY <3>3 DEF Asks
            <7>2. line["atn"] = {}
              BY <5>2, Pullers
            <7> QED BY <7>1, <7>2, BusFields DEF Falls, Pulls, Clr
          <6> QED BY <6>1, CallReplies
        <5> QED BY <5>1, <5>2
      <4> QED BY <1>3, <2>0, <4>2, <4>3, <4>4
    <3>4. CASE Asks(Set("cpu", "dav"))
      <4>1. "cpu" \notin line["dav"]
        BY <3>4 DEF BusInv, BytesOK
      <4>2. state' = "In2"
        BY <3>2, <3>4, <4>1, CallTells
      <4> QED BY <1>3, <3>4, <4>2
    <3>5. CASE Asks(Clr("cpu", "dav"))
      <4>1. state' = "In1" /\ ~Asks(Set("cpu", "dav"))
        BY <1>0, <3>2, <3>5, CallTells, AsksAt
      <4> QED BY <1>3, <3>5, <4>1
    <3>6. CASE ~Asks(Clr("cpu", "atn")) /\ ~Asks(Set("cpu", "dav")) /\ ~Asks(Clr("cpu", "dav"))
      <4>1. Still(Bus, Bus')
        BY <2>2, <3>2, <3>6, CallTells
      <4> QED BY <1>3, <2>0, <3>2, <3>6, <4>1
    <3> QED BY <3>3, <3>4, <3>5, <3>6
  <2> QED BY <2>1, <2>2
<1> QED BY <1>2, <1>4, <1>5 DEF HearsOK

(* The commands are told, and the device still knows it.                   *)
LEMMA CallKeepsSpoken ==
  ASSUME BusInv, NameInv, OneDevice, BusCall, ~(Asks(Set("cpu", "dav")) /\ state = "In1")
  PROVE  ListensOK'
<1> SUFFICES ASSUME Spoken', job.device = V
             PROVE  par_status' = [role |-> "listen", low |-> {}]
  BY CallControl DEF ListensOK
<1>0. Types /\ HearsOK /\ ListensOK /\ AttentionOK
  BY DEF BusInv, NameInv
<1>1. pc' = pc /\ todo' = todo /\ after' = after /\ Commanded' = Commanded
  BY CallControl
<1>2. ~(pc = "send" /\ "cpu" \in line'["atn"])
  <2> SUFFICES ASSUME pc = "send", "cpu" \in line'["atn"] PROVE FALSE
    OBVIOUS
  <2>1. ~Asks(Set("cpu", "atn"))
    BY <1>0, AsksAt
  <2>2. "cpu" \in line["atn"] /\ ~Asks(Clr("cpu", "atn"))
    BY <2>1, CallMoves DEF Wires
  <2> QED BY <1>0, <2>2 DEF AttentionOK, Commanding, ToRelease
<1>3. Commanded /\ after = "send" /\ Left' = <<>>
  BY <1>1, <1>2 DEF Spoken
<1>4. ~(Asks(Set("cpu", "dav")) /\ pc = "command dav")
  BY DEF BusInv, BytesOK
<1>5. Left = <<>>
  BY <1>3, <1>4, CallControl
<1>6. ~Asks(Set("cpu", "atn"))
  <2>1. Asks(Set("cpu", "atn")) => pc = "attention" /\ todo # <<>>
    BY <1>0, AsksAt DEF AttentionOK
  <2> QED BY <1>5, <2>1 DEF Left
<1>7. Commanding /\ "cpu" \in line["atn"] /\ ~Asks(Clr("cpu", "atn"))
  BY <1>0, <1>3, <1>6, AsksAt DEF AttentionOK, Commanding, Commanded
<1>8. Hears
  BY <1>3, <1>7 DEF Hears, Commanded
<1>9. state \in {"In1", "In2"} /\ par_status = [role |-> "listen", low |-> {}]
  BY <1>0, <1>3, <1>5, <1>8 DEF HearsOK, ListensOK, Spoken
<1>10. ~Asks(Set("cpu", "dav"))
  BY <1>0, <1>3, <1>4, AsksAt DEF Commanded
<1>11. CASE Asks(Clr("cpu", "dav"))
  BY <1>9, <1>11, CallTells
<1>12. CASE ~Asks(Clr("cpu", "dav"))
  <2>1. Still(Bus, Bus')
    BY <1>6, <1>7, <1>9, <1>10, <1>12, CallTells
  <2>2. par_status' = par_status
    BY <2>1, BusFields DEF Still, Bus
  <2> QED BY <1>9, <2>2
<1> QED BY <1>11, <1>12

(* A call at which the device takes no byte.                               *)
LEMMA CallUntouched ==
  ASSUME BusInv, NameInv, OneDevice, BusCall, ~(Asks(Set("cpu", "dav")) /\ state = "In1")
  PROVE  JobFits' /\ RowFits' /\ ToldOK' /\ ChannelOK' /\ NameOK'
<1>0. Types /\ JobFits /\ RowFits /\ ToldOK /\ HearsOK /\ ChannelOK /\ NameOK
  BY DEF BusInv, NameInv
<1>1. /\ pc' = pc /\ job' = job /\ todo' = todo /\ after' = after /\ opened' = opened
      /\ InJob' = InJob /\ Commanded' = Commanded /\ Sending' = Sending
      /\ Role' = Role /\ Told' = Told /\ Onward' = Onward /\ Rows' = Rows
  BY CallControl
<1>2. ~(Asks(Set("cpu", "dav")) /\ pc = "command dav")
  BY DEF BusInv, BytesOK
<1>3. Left' = Left /\ Targeted' = Targeted /\ Instructed' = Instructed /\ Over' = Over
  BY <1>2, CallControl
<1>4. Untouched(trap, trap')
  BY CallTells
<1>5. C'.isopen = C.isopen /\ C'.open = C.open /\ trap'.name = trap.name
      /\ trap'.device = trap.device /\ trap'.secondary = trap.secondary
  BY <1>4 DEF Untouched, C
<1>6. JobFits' /\ RowFits' /\ ToldOK'
  BY <1>0, <1>1, <1>3, <1>5 DEF JobFits, RowFits, ToldOK
<1>7. Naming' = Naming
  BY <1>1, <1>3 DEF Naming
<1>8. Naming /\ Asks(Set("cpu", "dav")) => pc # "send dav"
  <2> SUFFICES ASSUME Naming, Asks(Set("cpu", "dav")), pc = "send dav" PROVE FALSE
    OBVIOUS
  <2>1. job.device = V
    BY <1>0 DEF JobFits, InJob, Naming
  <2>2. state = "In1"
    <3>1. Hears /\ "cpu" \notin line["dav"]
      BY <2>1 DEF Hears, Sending, BusInv, BytesOK
    <3> QED BY <1>0, <3>1 DEF HearsOK
  <2> QED BY <2>2
<1>9. Naming => Remaining' = Remaining
  BY <1>7, <1>8, CallControl
<1>10. ChannelOK'
  BY <1>0, <1>1, <1>3, <1>5, <1>7, <1>9 DEF ChannelOK
<1>11. IF Naming' THEN Arrived(trap'.name, leftover, Remaining', job'.bytes)
       ELSE trap'.name \in {leftover, <<>>}
  BY <1>0, <1>1, <1>5, <1>7, <1>9 DEF NameOK
<1>12. NameOK'
  BY <1>0, <1>11, CallControl, LeftoverOrNot
<1> QED BY <1>6, <1>10, <1>12

(* The machine shows the device a command, or a byte of data.              *)
Orders == Asks(Set("cpu", "dav")) /\ pc = "command dav"

Gives == Asks(Set("cpu", "dav")) /\ pc = "send dav"

(* The device hears a command byte of the job.                             *)
LEMMA CallTakesCommand ==
  ASSUME BusInv, NameInv, OneDevice, BusCall, Orders
  PROVE  /\ JobFits' /\ RowFits' /\ ToldOK' /\ ListensOK' /\ ChannelOK' /\ NameOK'
         /\ job.kind = "open" /\ trap'.name # trap.name => Ending(Head(todo)) /\ Instructed
<1> DEFINE h == Head(todo)
           r == parallel_trap_attention(trap, h)
<1>0. Types /\ JobFits /\ RowFits /\ ToldOK /\ HearsOK /\ ListensOK /\ ChannelOK /\ NameOK /\ TrapOK(trap)
  BY BusFields DEF BusInv, NameInv, Types, BusOK
<1>1. /\ pc' = pc /\ job' = job /\ todo' = todo /\ after' = after /\ opened' = opened
      /\ InJob' = InJob /\ Commanded' = Commanded /\ Commanded /\ InJob /\ Sending' = Sending
      /\ Role' = Role /\ Told' = Told /\ Onward' = Onward /\ Rows' = Rows
      /\ Left' = Tail(Left) /\ Left = todo /\ leftover' = IF trap'.name = <<>> THEN <<>> ELSE leftover
  BY CallControl DEF Commanded, InJob, Orders
<1>2. state = "In1" /\ "cpu" \in line["atn"] /\ data["cpu"] = h /\ todo # <<>> /\ Fits(todo)
  BY DEF BusInv, BytesOK, CommandsOK, Orders
<1>3. trap' = r.t /\ par_status' = r.status
  <2>1. Heeds(Bus, Bus')
    BY <1>2, CallTells DEF Orders
  <2>2. Pulled(Bus, "atn")
    BY <1>2, BusFields DEF Pulled
  <2> QED BY <1>2, <2>1, <2>2, BusFields DEF Heeds, Bus
<1>4. h \in CommandByte /\ (h.kind \in {"second", "open", "close"} => trap.device # Nobody)
  <2>1. todo \in Seq(CommandByte)
    BY <1>2 DEF Fits, FitsWith
  <2> QED BY <1>2, <2>1, HeadAndTail DEF Fits, FitsWith
<1>5. job.kind \in {"open", "close", "read", "write"} /\ Left \in Rows /\ after \in {"end", Onward}
      /\ Left = todo
  BY <1>0, <1>1 DEF JobFits, RowFits
<1>6. /\ Tail(Left) \in Rows
      /\ Addressing(h) => h = Who /\ Tail(Left) # <<>> /\ Head(Tail(Left)) = Tell
      /\ h.kind \in {"second", "open", "close"} =>
           /\ h = Tell
           /\ IF job.kind = "close" THEN Tail(Left) = <<Un>> ELSE Tail(Left) = <<>> /\ after # "end"
      /\ Ending(h) => h = Un /\ Tail(Left) = <<>> /\ after = "end"
      /\ Addressing(h) \/ h.kind \in {"second", "open", "close"} \/ Ending(h)
  BY <1>2, <1>5, RowStep
<1>7. JobFits' /\ RowFits'
  BY <1>0, <1>1, <1>6 DEF JobFits, RowFits
<1>8. Tell.kind \in {"second", "open", "close"} /\ Tell.kind = Told /\ Who.device = job.device
      /\ Who.kind = Role /\ Un.kind \in {"unlisten", "untalk"}
  BY DEF Tell, Who, Told, Role, Un
<1>9. /\ Targeted' <=> ~(Left' # <<>> /\ Head(Left').kind \in {"listen", "talk"}) /\ ~Over'
      /\ Instructed' <=> Targeted' /\ ~(Left' # <<>> /\ Head(Left').kind \in {"second", "open", "close"})
      /\ Over' <=> Left' = <<>> /\ after' = "end"
      /\ Targeted <=> ~(Left # <<>> /\ Head(Left).kind \in {"listen", "talk"}) /\ ~Over
      /\ Instructed <=> Targeted /\ ~(Left # <<>> /\ Head(Left).kind \in {"second", "open", "close"})
      /\ Over <=> Left = <<>> /\ after = "end"
  <2>1. Commanded /\ Commanded' /\ InJob /\ InJob'
    BY <1>1
  <2> QED BY <2>1 DEF Targeted, Instructed, Over, Awaits
<1>10. pc' # "send" /\ Remaining' = IF after = "send" THEN job.bytes ELSE <<>>
  <2>1. pc' # "send"
    BY <1>1 DEF Orders
  <2>2. Remaining' = IF after = "send" THEN job.bytes ELSE <<>>
    BY <1>1 DEF Remaining
  <2> QED BY <2>1, <2>2
<1>11. Remaining = IF after = "send" THEN job.bytes ELSE <<>>
  BY <1>1 DEF Remaining
<1>12. Spoken' => after = "send" /\ Left' = <<>>
  BY <1>1, <1>10 DEF Spoken
<1>13. trap.name \in Seq(Nat) /\ trap \in TrapState
  BY <1>0 DEF TrapOK, TrapState
<1>14. job.kind # "write" => job.device = V
  BY <1>0, <1>1 DEF JobFits
<1>15. r.t.device = IF Addressing(h) THEN [role |-> h.kind, device |-> h.device]
                    ELSE IF Ending(h) THEN Nobody ELSE trap.device
  BY <1>0, <1>4, AttentionIs
<1>16. Onward \in {"send", "turn", "end"} /\ (job.kind = "open" => Onward = "send")
       /\ (job.kind = "close" <=> Onward = "end")
  BY <1>5 DEF Onward
<1>17. r.status = [role |-> r.t.device.role, low |-> r.status.low]
  <2>1. r.status \in Status /\ r.status.role = r.t.device.role
    BY <1>0, <1>4, AttentionIs
  <2> HIDE DEF r
  <2> QED BY <2>1 DEF Status
<1> HIDE DEF h, r
<1>18. h = Head(Left)
  BY <1>1 DEF h
<1>19. CASE Addressing(h)
  <2>1. r.t.name = trap.name /\ r.t.channel = trap.channel
    BY <1>0, <1>4, <1>19, ListenOrTalkAt DEF r
  <2>2. ~Instructed' /\ ~Instructed /\ ~Over' /\ ~Over /\ Left' # <<>>
    BY <1>1, <1>2, <1>6, <1>8, <1>9, <1>18, <1>19 DEF Addressing
  <2>3. trap'.device = [role |-> Role, device |-> job.device]
    BY <1>3, <1>6, <1>8, <1>15, <1>19
  <2>4. ToldOK'
    BY <1>1, <2>2, <2>3 DEF ToldOK
  <2>5. ListensOK'
    BY <1>12, <2>2 DEF ListensOK
  <2>6. ~Naming /\ ~Naming'
    BY <2>2 DEF Naming
  <2>7. ChannelOK'
    BY <1>0, <1>1, <1>3, <2>1, <2>2, <2>6 DEF ChannelOK, C
  <2>8. NameOK'
    <3>1. trap'.name \in {leftover, <<>>}
      BY <1>0, <1>3, <2>1, <2>6 DEF NameOK
    <3> QED BY <1>0, <1>1, <2>6, <3>1, LeftoverOrNot
  <2> QED BY <1>3, <1>7, <2>1, <2>4, <2>5, <2>7, <2>8
<1>20. CASE h.kind \in {"second", "open", "close"}
  <2>0. Targeted /\ ~Instructed /\ Targeted' /\ Instructed' /\ ~Over' /\ ~Over
        /\ ~Addressing(h) /\ ~Ending(h) /\ h.kind = Told
    <3>1. ~Addressing(h) /\ ~Ending(h) /\ h.kind = Told
      BY <1>6, <1>8, <1>20 DEF Addressing, Ending
    <3>2. Left # <<>> /\ ~Over /\ Targeted /\ ~Instructed
      BY <1>1, <1>2, <1>9, <1>18, <1>20, <3>1 DEF Addressing
    <3>3. job.kind = "close" => Left' # <<>> /\ Head(Left') = Un
      <4> DEFINE u == Un
      <4>1. job.kind = "close" => Left' = <<u>>
        BY <1>1, <1>6, <1>20
      <4> HIDE DEF u
      <4>2. job.kind = "close" => Left' # <<>> /\ Head(Left') = u
        BY <4>1
      <4>3. u = Un
        BY DEF u
      <4>4. Un' = Un
        BY CallControl
      <4> QED BY <4>2, <4>3, <4>4
    <3>4. ~Over' /\ Targeted' /\ Instructed'
      BY <1>1, <1>6, <1>8, <1>9, <1>20, <3>3
    <3> QED BY <3>1, <3>2, <3>4
  <2>1. trap.device = [role |-> Role, device |-> job.device]
    BY <1>0, <2>0 DEF ToldOK
  <2>2. trap'.device = trap.device /\ trap.device.device = job.device /\ trap.device.role = Role
    <3>1. trap.device.device = job.device /\ trap.device.role = Role
      BY <2>1
    <3>2. trap'.device = trap.device
      BY <1>3, <1>15, <2>0
    <3> QED BY <3>1, <3>2
  <2>3. ~Naming /\ (Naming' <=> job.kind = "open")
    BY <1>1, <2>0 DEF Naming
  <2>4. CASE h.kind = "open"
    <3>1. job.kind = "open" /\ job.device = V
      BY <1>14, <2>0, <2>4 DEF Told
    <3>2. /\ r.t.name = trap.name /\ r.t.secondary = "open" /\ r.status.low = {}
          /\ r.t.channel[V] = [trap.channel[V] EXCEPT !.isopen = 1]
      BY <1>0, <1>4, <1>20, <2>2, <2>4, <3>1, OpenAt DEF r
    <3>3. trap.channel[V] \in Channel
      BY <1>13, TheDevice DEF TrapState
    <3>4. C'.isopen = 1 /\ C'.open = C.open
      BY <1>3, <3>2, <3>3 DEF Channel, C
    <3>5. ToldOK'
      BY <1>1, <1>3, <2>0, <2>1, <2>2, <2>4, <3>2 DEF ToldOK
    <3>6. after = "send"
      BY <1>5, <1>6, <1>16, <1>20, <3>1
    <3>7. ListensOK'
      <4>1. Role = "listen"
        BY <3>1 DEF Role
      <4>2. r.t.device.role = "listen"
        BY <1>3, <2>2, <4>1
      <4>3. par_status' = [role |-> "listen", low |-> {}]
        BY <1>3, <1>17, <3>2, <4>2
      <4> QED BY <4>3 DEF ListensOK
    <3>8. ~opened /\ Remaining' = job.bytes /\ job.bytes \in Seq(Nat)
      BY <1>0, <1>1, <1>10, <3>1, <3>6 DEF JobFits, Types
    <3>9. ChannelOK'
      BY <1>1, <2>0, <3>4, <3>8 DEF ChannelOK
    <3>10. Arrived(trap'.name, leftover, Remaining', job'.bytes)
      <4>1. trap'.name = leftover /\ leftover \in Seq(Nat) /\ Len(leftover) <= NameLength
        BY <1>0, <1>3, <2>3, <3>2 DEF NameOK
      <4> QED BY <1>1, <3>8, <4>1, NoneArrived
    <3>11. NameOK'
      BY <1>0, <1>1, <2>3, <3>1, <3>10, LeftoverOrNot
    <3> QED BY <1>3, <1>7, <3>2, <3>5, <3>7, <3>9, <3>11
  <2>5. CASE h.kind = "close"
    <3>1. job.kind = "close" /\ job.device = V
      BY <1>14, <2>0, <2>5 DEF Told
    <3>2. r.t.name = trap.name /\ r.t.secondary = "close" /\ r.t.channel[V].isopen = 0
      BY <1>0, <1>4, <1>20, <2>2, <2>5, <3>1, CloseAt DEF r
    <3>3. ToldOK'
      BY <1>1, <1>3, <2>0, <2>1, <2>2, <2>5, <3>2 DEF ToldOK
    <3>4. after = "end"
      BY <1>5, <1>16, <3>1
    <3>5. ListensOK'
      BY <1>12, <3>4 DEF ListensOK
    <3>6. ~opened /\ ~Naming'
      BY <1>0, <1>1, <2>3, <3>1 DEF JobFits
    <3>7. ChannelOK'
      BY <1>1, <3>1, <3>6 DEF ChannelOK
    <3>8. trap'.name \in {leftover, <<>>}
      BY <1>0, <1>3, <2>3, <3>2 DEF NameOK
    <3>9. NameOK'
      BY <1>0, <1>1, <3>6, <3>8, LeftoverOrNot
    <3> QED BY <1>3, <1>7, <3>1, <3>3, <3>5, <3>7, <3>9
  <2>6. CASE h.kind = "second"
    <3>0. job.kind \notin {"open", "close"} /\ job.kind \in {"read", "write"}
      BY <1>5, <2>0, <2>6 DEF Told
    <3>1. /\ r.t.secondary = "second" /\ C \in Channel
          /\ trap.device.device # V => r.t.channel[V] = C /\ r.t.name \in {trap.name, <<>>}
          /\ trap.device.device = V /\ C.isopen # 0 =>
               /\ r.t.name = trap.name
               /\ IF trap.device.role = "talk"
                  THEN r.t.channel[V] = Fetched(C, TRUE) /\ r.status.low = r.t.channel[V].lastst \ {"eof"}
                  ELSE r.t.channel[V] = C /\ r.status.low = {}
          /\ trap.device.device = V /\ C.isopen = 0 => r.t.name = <<>> /\ r.t.channel[V].isopen = 2
      BY <1>0, <1>4, <1>20, <2>6, SecondAt DEF r, C
    <3>2. Fetched(C, TRUE).isopen = C.isopen /\ Fetched(C, TRUE).open = C.open
      BY <3>1, FetchedAt
    <3>3. ToldOK'
      BY <1>1, <1>3, <2>0, <2>1, <2>2, <2>6, <3>1 DEF ToldOK
    <3>4. C' = r.t.channel[V] /\ trap'.name = r.t.name
      BY <1>3 DEF C
    <3>a. C.isopen # 0 \/ trap.device.device # V =>
            C' = C \/ C' = Fetched(C, TRUE)
      BY <3>1, <3>4
    <3>b. C.isopen # 0 \/ trap.device.device # V => C'.isopen = C.isopen /\ C'.open = C.open
      BY <3>2, <3>a
    <3>5. opened => C'.open /\ C'.isopen = 2
      <4>1. opened => C.open /\ C.isopen = 2
        BY <1>0 DEF ChannelOK
      <4> QED BY <3>b, <4>1
    <3>6. ~Naming'
      BY <2>3, <3>0
    <3>7. ChannelOK'
      BY <1>1, <3>0, <3>5, <3>6 DEF ChannelOK
    <3>8. trap'.name \in {leftover, <<>>}
      <4>1. trap.name = leftover
        BY <1>0, <2>3 DEF NameOK
      <4>2. trap'.name \in {trap.name, <<>>}
        BY <3>1, <3>4
      <4> QED BY <4>1, <4>2
    <3>9. NameOK'
      BY <1>0, <1>1, <3>6, <3>8, LeftoverOrNot
    <3>10. ListensOK'
      <4> SUFFICES ASSUME Spoken', job.device = V
                   PROVE  par_status' = [role |-> "listen", low |-> {}]
        BY <1>1 DEF ListensOK
      <4>1. after = "send"
        BY <1>12
      <4>2. job.kind = "write"
        BY <1>5, <3>0, <4>1 DEF Onward
      <4>3. Role = "listen" /\ opened
        BY <1>0, <1>1, <4>2 DEF Role, JobFits
      <4>4. C.isopen = 2 /\ trap.device.device = V /\ trap.device.role # "talk"
        BY <1>0, <2>2, <4>3 DEF ChannelOK
      <4>5. r.status.low = {} /\ r.t.device.role = "listen"
        <5>1. C.isopen # 0
          BY <4>4
        <5>2. r.status.low = {}
          BY <3>1, <4>4, <5>1
        <5>3. r.t.device = trap.device
          BY <1>3, <2>2
        <5> QED BY <2>2, <4>3, <5>2, <5>3
      <4> QED BY <1>3, <1>17, <4>5
    <3> QED BY <1>7, <3>0, <3>3, <3>7, <3>9, <3>10
  <2> QED BY <1>20, <2>4, <2>5, <2>6
<1>21. CASE Ending(h)
  <2>1. Left' = <<>> /\ after = "end" /\ Over' /\ ~Targeted' /\ ~Instructed' /\ h = Un
    BY <1>1, <1>6, <1>9, <1>21
  <2>2. Targeted /\ Instructed /\ ~Over
    BY <1>1, <1>2, <1>9, <1>18, <1>21 DEF Ending
  <2>3. ToldOK' /\ ~Naming' /\ (Naming <=> job.kind = "open")
    BY <2>1, <2>2 DEF ToldOK, Naming
  <2>4. ListensOK'
    BY <1>12, <2>1 DEF ListensOK
  <2>5. trap.device.device = job.device /\ trap.secondary = Told
    <3>1. trap.device = [role |-> Role, device |-> job.device] /\ trap.secondary = Told
      BY <1>0, <2>2 DEF ToldOK
    <3> QED BY <3>1
  <2>6. CASE job.kind # "open"
    <3>1. trap.secondary # "open"
      BY <2>5, <2>6, <1>5 DEF Told
    <3>2. r.t.name = trap.name /\ r.t.channel = trap.channel
      BY <1>0, <1>4, <1>21, <3>1, EndsAt DEF r
    <3>3. ChannelOK'
      BY <1>0, <1>1, <1>3, <2>3, <2>6, <3>2 DEF ChannelOK, C
    <3>4. trap'.name \in {leftover, <<>>}
      BY <1>0, <1>3, <2>3, <2>6, <3>2 DEF NameOK
    <3>5. NameOK'
      BY <1>0, <1>1, <2>3, <3>4, LeftoverOrNot
    <3> QED BY <1>7, <2>3, <2>4, <2>6, <3>3, <3>5
  <2>7. CASE job.kind = "open"
    <3>1. h.kind = "unlisten" /\ trap.secondary = "open" /\ trap.device.device = V
      BY <1>14, <2>1, <2>5, <2>7 DEF Un, Told
    <3>2. C.isopen = 1 /\ trap.name # <<>>
      <4>1. job.bytes # <<>> /\ Remaining = <<>>
        BY <1>0, <1>1, <1>11, <2>1, <2>7 DEF JobFits
      <4> QED BY <1>0, <2>3, <2>7, <4>1 DEF ChannelOK
    <3>3. /\ r.t.name = <<>>
          /\ r.t.channel[V].isopen = IF r.t.channel[V].open THEN 2 ELSE 0
      <4>1. trap.channel[V].isopen # 0
        BY <3>2 DEF C
      <4> DEFINE a == parallel_trap_attention(trap, h)
      <4>2. /\ a.t.name = <<>>
            /\ a.t.channel[V].isopen = IF a.t.channel[V].open THEN 2 ELSE 0
        BY <1>0, <1>4, <3>1, <3>2, <4>1, NamedAt
      <4> QED BY <4>2 DEF r
    <3>4. ~opened
      BY <1>0, <1>1, <2>7 DEF JobFits
    <3>5. ChannelOK'
      BY <1>1, <1>3, <2>3, <3>3, <3>4 DEF ChannelOK, C
    <3>6. trap'.name = <<>>
      BY <1>3, <3>3
    <3>7. NameOK'
      BY <1>0, <1>1, <2>3, <3>6, LeftoverOrNot
    <3> QED BY <1>7, <1>21, <2>2, <2>3, <2>4, <3>5, <3>7 DEF h
  <2> QED BY <2>6, <2>7
<1> QED BY <1>6, <1>19, <1>20, <1>21

(* Where the machine sends data, the device knows the job.                 *)
LEMMA AtGiven ==
  ASSUME Types, Gives
  PROVE  /\ InJob /\ ~Commanded /\ Targeted /\ Instructed /\ ~Over
         /\ Remaining = todo /\ todo \in Seq(Nat) /\ todo # <<>>
<1>1. InJob /\ ~Commanded /\ Asks(Set("cpu", "dav"))
  BY DEF Gives, InJob, Commanded
<1>2. Targeted /\ Instructed /\ ~Over /\ Remaining = todo
  BY <1>1 DEF Targeted, Instructed, Over, Awaits, Remaining
<1>3. todo \in Seq(Nat) /\ todo # <<>>
  BY DEF Types, Gives
<1> QED BY <1>1, <1>2, <1>3

(* The device hears a byte of data.                                        *)
LEMMA CallTakesData ==
  ASSUME BusInv, NameInv, OneDevice, BusCall, Gives, state = "In1"
  PROVE  JobFits' /\ RowFits' /\ ToldOK' /\ ListensOK' /\ ChannelOK' /\ NameOK'
<1> DEFINE h == Head(todo)
           r == parallel_trap_sendbyte(trap, h)
<1>0. Types /\ JobFits /\ RowFits /\ ToldOK /\ HearsOK /\ ListensOK /\ ChannelOK /\ NameOK /\ TrapOK(trap)
  BY BusFields DEF BusInv, NameInv, Types, BusOK
<1>1. /\ InJob /\ ~Commanded /\ Targeted /\ Instructed /\ ~Over
      /\ Remaining = todo /\ todo \in Seq(Nat) /\ todo # <<>>
  BY <1>0, AtGiven
<1>2. /\ pc' = pc /\ job' = job /\ todo' = todo /\ after' = after /\ opened' = opened
      /\ InJob' = InJob /\ Commanded' = Commanded /\ Sending' = Sending
      /\ Role' = Role /\ Told' = Told /\ Onward' = Onward /\ Rows' = Rows
      /\ leftover' = IF trap'.name = <<>> THEN <<>> ELSE leftover
  BY CallControl
<1>3. ~Orders
  BY DEF Gives, Orders
<1>4. Left' = Left /\ Targeted' = Targeted /\ Instructed' = Instructed /\ Over' = Over
  BY <1>3, CallControl DEF Orders
<1>5. Naming' = Naming /\ (Naming <=> job.kind = "open")
  BY <1>1, <1>2, <1>4 DEF Naming
<1>6. Naming => Remaining' = Tail(todo)
  BY <1>5, CallControl DEF Gives
<1>7. h \in Nat /\ Tail(todo) \in Seq(Nat)
  BY <1>1, HeadAndTail
<1>8. trap' = r.t
  <2>1. Heeds(Bus, Bus')
    BY CallTells DEF Gives
  <2>2. data["cpu"] = h
    BY <1>0 DEF HearsOK, Gives
  <2>3. ~Pulled(Bus, "atn")
    <3>1. "cpu" \notin line["atn"]
      BY DEF BusInv, BytesOK, Gives
    <3> QED BY <3>1, Pullers, BusFields DEF Pulled
  <2> QED BY <2>1, <2>2, <2>3, BusFields DEF Heeds, Bus
<1>9. trap.name \in Seq(Nat)
  BY <1>0 DEF TrapOK, TrapState
<1> HIDE DEF h, r
<1>10. /\ r.t.secondary = trap.secondary /\ r.t.device = trap.device /\ C \in Channel
       /\ trap.device.device # V => r.t.name = trap.name /\ r.t.channel[V] = C
       /\ trap.device.device = V /\ C.isopen = 1 =>
            /\ r.t.name = IF Len(trap.name) < NameLength THEN Append(trap.name, h) ELSE trap.name
            /\ r.t.channel[V] = C
       /\ trap.device.device = V /\ C.isopen # 1 =>
            /\ r.t.name = trap.name
            /\ r.t.channel[V] = IF C.open THEN [C EXCEPT !.stored = Append(C.stored, h)] ELSE C
  BY <1>0, <1>7, SendbyteAt DEF r, C
<1>11. C' = r.t.channel[V] /\ trap'.name = r.t.name
  BY <1>8 DEF C
<1>12. C'.isopen = C.isopen /\ C'.open = C.open
  <2> DEFINE s == [C EXCEPT !.stored = Append(C.stored, h)]
  <2>1. s.isopen = C.isopen /\ s.open = C.open
    BY <1>10 DEF Channel
  <2> HIDE DEF s
  <2>2. C' = C \/ C' = s
    BY <1>10, <1>11 DEF s
  <2> QED BY <2>1, <2>2
<1>13. trap.device = [role |-> Role, device |-> job.device]
  BY <1>0, <1>1 DEF ToldOK
<1>14. trap.device.device = job.device
  BY <1>13
<1>15. JobFits' /\ RowFits' /\ ToldOK'
  BY <1>0, <1>2, <1>4, <1>8, <1>10 DEF JobFits, RowFits, ToldOK
<1>16. ListensOK'
  <2>1. pc # "send"
    BY DEF Gives
  <2>2. ~Spoken'
    BY <1>1, <1>2, <2>1 DEF Spoken
  <2> QED BY <2>2 DEF ListensOK
<1>17. job.kind = "open" => job.device = V
  BY <1>0, <1>1 DEF JobFits
<1>18. CASE ~Naming
  <2>1. ChannelOK'
    BY <1>0, <1>1, <1>2, <1>4, <1>5, <1>12, <1>18 DEF ChannelOK
  <2>2. trap'.name = leftover
    <3>1. trap.name = leftover
      BY <1>0, <1>18 DEF NameOK
    <3>2. job.kind = "write"
      BY <1>0, <1>1, <1>5, <1>18 DEF JobFits, Gives, Sending
    <3>3. trap.device.device = V => C.isopen # 1
      BY <1>0, <1>1, <1>14, <3>2 DEF JobFits, ChannelOK
    <3> QED BY <1>10, <1>11, <3>1, <3>3
  <2>3. NameOK'
    BY <1>0, <1>2, <1>5, <1>18, <2>2, LeftoverOrNot
  <2> QED BY <1>15, <1>16, <2>1, <2>3
<1>19. CASE Naming
  <2>1. job.kind = "open" /\ job.device = V /\ C.isopen = 1 /\ ~opened
    BY <1>0, <1>1, <1>5, <1>17, <1>19 DEF ChannelOK, JobFits
  <2>2. trap'.name = IF Len(trap.name) < NameLength THEN Append(trap.name, h) ELSE trap.name
    BY <1>10, <1>11, <1>14, <2>1
  <2>3. Arrived(trap'.name, leftover, Tail(todo), job.bytes) /\ trap'.name # <<>>
    <3>1. Arrived(trap.name, leftover, todo, job.bytes) /\ leftover \in Seq(Nat)
      BY <1>0, <1>1, <1>19 DEF NameOK
    <3>2. job.bytes \in Seq(Nat)
      BY <1>0 DEF Types
    <3>3. trap'.name = IF Len(trap.name) < NameLength THEN Append(trap.name, Head(todo)) ELSE trap.name
      BY <2>2 DEF h
    <3> QED BY <1>1, <3>1, <3>2, <3>3, OneArrives
  <2>4. ChannelOK'
    BY <1>1, <1>2, <1>4, <1>12, <2>1, <2>3 DEF ChannelOK
  <2>5. NameOK'
    BY <1>0, <1>2, <1>5, <1>6, <1>19, <2>3, LeftoverOrNot
  <2> QED BY <1>15, <1>16, <2>4, <2>5
<1> QED BY <1>18, <1>19

(* A call of a bus function keeps the invariant.                           *)
LEMMA CallKeepsName == ASSUME BusInv, NameInv, OneDevice, BusCall PROVE NameInv'
<1>1. HearsOK'
  BY CallKeepsHears
<1>2. CASE ~(Asks(Set("cpu", "dav")) /\ state = "In1")
  BY <1>1, <1>2, CallUntouched, CallKeepsSpoken DEF NameInv
<1>3. CASE Asks(Set("cpu", "dav")) /\ state = "In1"
  <2>1. pc \in {"command dav", "send dav"}
    BY <1>3, AsksAt DEF BusInv
  <2>2. Orders \/ Gives
    BY <1>3, <2>1 DEF Orders, Gives
  <2> QED BY <1>1, <1>3, <2>2, CallTakesCommand, CallTakesData DEF NameInv
<1> QED BY <1>2, <1>3

-----------------------------------------------------------------------------
(* The steps of machine and drive, which leave the device as it is.        *)
SameJob == UNCHANGED <<line, state, par_status, trap, leftover, job, opened>>

(* A step within a job.                                                    *)
LEMMA StepWithin ==
  ASSUME NameInv, SameJob, InJob, InJob',
         Targeted' = Targeted, Instructed' = Instructed, Over' => Over,
         job.kind = "open" => Remaining' = Remaining,
         Spoken' => Spoken,
         Sending' => job.kind \in {"open", "write"},
         ~Commanded' /\ ~Sending' => job.kind = "read",
         Commanded' => Left' \in Rows' /\ after' \in {"end", Onward},
         Hears' => Hears,
         Asks(Set("cpu", "atn"))' => "cpu" \notin line["atn"],
         Gives' => data'["cpu"] = Head(todo')
  PROVE  NameInv'
<1>0. JobFits /\ ToldOK /\ HearsOK /\ ListensOK /\ ChannelOK /\ NameOK
  BY DEF NameInv
<1>1. /\ line' = line /\ state' = state /\ par_status' = par_status /\ trap' = trap
      /\ leftover' = leftover /\ job' = job /\ opened' = opened
  BY DEF SameJob
<1>2. C' = C /\ Role' = Role /\ Told' = Told /\ Onward' = Onward
  BY <1>1 DEF C, Role, Told, Onward
<1>3. Naming' = Naming /\ (Naming => Remaining' = Remaining)
  BY <1>1 DEF Naming
<1>4. JobFits'
  BY <1>0, <1>1 DEF JobFits
<1>5. RowFits'
  BY <1>2 DEF RowFits
<1>6. ToldOK'
  BY <1>0, <1>1, <1>2 DEF ToldOK
<1>7. HearsOK'
  <2>1. Hears' => state' \in {"In1", "In2"} /\ (state' = "In2" <=> "cpu" \in line'["dav"])
    BY <1>0, <1>1 DEF HearsOK
  <2>2. state' = "In1" => "emu" \in line'["ndac"]
    BY <1>0, <1>1 DEF HearsOK
  <2> QED BY <1>1, <2>1, <2>2 DEF HearsOK, Gives
<1>8. ListensOK'
  BY <1>0, <1>1 DEF ListensOK
<1>9. ChannelOK'
  BY <1>0, <1>1, <1>2, <1>3 DEF ChannelOK
<1>10. NameOK'
  BY <1>0, <1>1, <1>2, <1>3 DEF NameOK
<1> QED BY <1>4, <1>5, <1>6, <1>7, <1>8, <1>9, <1>10 DEF NameInv

(* Where the machine is in a job.                                          *)
LEMMA Places ==
  /\ Commanded => InJob /\ ~Sending /\ ~Gives /\ pc # "send" /\ pc # "reset"
  /\ Sending => InJob /\ ~Commanded /\ pc # "reset" /\ pc # "turn"
  /\ Gives => Sending /\ pc # "send"
  /\ InJob <=> pc # "idle" /\ pc # "reset"
  /\ InJob /\ ~Commanded => Targeted /\ Instructed /\ ~Over
  /\ ~Sending => pc # "send"
  /\ ~InJob => ~Targeted /\ ~Instructed /\ ~Over /\ ~Naming /\ ~Spoken
BY DEF Commanded, InJob, Sending, Gives, Targeted, Instructed, Over, Awaits, Naming, Spoken

(* The same of the next moment.                                            *)
LEMMA PlacesNext ==
  /\ Commanded' => InJob' /\ ~Sending' /\ ~Gives' /\ pc' # "send" /\ pc' # "reset"
  /\ Sending' => InJob' /\ ~Commanded' /\ pc' # "reset" /\ pc' # "turn"
  /\ Gives' => Sending' /\ pc' # "send"
  /\ InJob' <=> pc' # "idle" /\ pc' # "reset"
  /\ InJob' /\ ~Commanded' => Targeted' /\ Instructed' /\ ~Over'
  /\ ~Sending' => pc' # "send"
  /\ ~InJob' => ~Targeted' /\ ~Instructed' /\ ~Over' /\ ~Naming' /\ ~Spoken'
BY DEF Commanded, InJob, Sending, Gives, Targeted, Instructed, Over, Awaits, Naming, Spoken

(* A step among the commands.                                              *)
LEMMA CommandsStep ==
  ASSUME NameInv, SameJob, Commanded, Commanded', after' = after, Left' = Left,
         ~Asks(Set("cpu", "atn"))'
  PROVE  NameInv'
<1>1. InJob /\ InJob' /\ ~Sending' /\ ~Gives' /\ pc' # "send" /\ pc # "reset" /\ pc' # "reset"
  BY Places, PlacesNext
<1>2. job' = job /\ line' = line
  BY DEF SameJob
<1>3. Rows' = Rows /\ Onward' = Onward
  BY <1>2 DEF Rows, Who, Tell, Un, Role, Told, Onward
<1>4. /\ Awaits({"listen", "talk"})' = Awaits({"listen", "talk"})
      /\ Awaits({"second", "open", "close"})' = Awaits({"second", "open", "close"})
      /\ Over' = Over
  BY DEF Awaits, Over
<1>5. Targeted' = Targeted
  BY <1>1, <1>4 DEF Targeted
<1>6. Instructed' = Instructed
  BY <1>4, <1>5 DEF Instructed
<1>7. Remaining' = Remaining
  BY <1>2 DEF Remaining
<1>8. Spoken' => Spoken
  BY <1>1 DEF Spoken
<1>9. Hears' => Hears
  BY <1>1, <1>2 DEF Hears
<1>10. Left' \in Rows' /\ after' \in {"end", Onward}
  BY <1>3 DEF NameInv, RowFits
<1> QED BY <1>1, <1>4, <1>5, <1>6, <1>7, <1>8, <1>9, <1>10, StepWithin

(* A step of the sending of data.                                          *)
LEMMA SendingStep ==
  ASSUME BusInv, NameInv, calls = <<>>, SameJob, Sending, Sending', Remaining' = Remaining,
         ~Asks(Set("cpu", "atn"))', Gives' => data'["cpu"] = Head(todo')
  PROVE  NameInv'
<1>1. /\ InJob /\ InJob' /\ ~Commanded /\ ~Commanded' /\ pc # "reset" /\ pc # "turn" /\ pc' # "reset"
      /\ Targeted /\ Instructed /\ ~Over /\ Targeted' /\ Instructed' /\ ~Over'
  BY Places, PlacesNext
<1>2. job' = job /\ line' = line
  BY DEF SameJob
<1>3. "cpu" \notin line["atn"]
  <2>1. ~Commanding /\ ~ToRelease("atn")
    BY <1>1 DEF Commanding, Commanded, ToRelease
  <2> QED BY <2>1, Returned
<1>4. ~Spoken'
  BY <1>1, <1>2, <1>3 DEF Spoken
<1>5. Hears' => Hears
  BY <1>1, <1>2, <1>3 DEF Hears
<1>6. job.kind \in {"open", "write"}
  BY DEF NameInv, JobFits
<1> QED BY <1>1, <1>4, <1>5, <1>6, StepWithin

(* A step of the reading.                                                  *)
LEMMA ReadingStep ==
  ASSUME NameInv, SameJob, InJob, ~Commanded, ~Sending, InJob', ~Commanded', ~Sending',
         ~Asks(Set("cpu", "atn"))'
  PROVE  NameInv'
<1>1. /\ Targeted /\ Instructed /\ ~Over /\ Targeted' /\ Instructed' /\ ~Over' /\ ~Gives'
      /\ pc' # "send" /\ pc # "reset" /\ pc' # "reset"
  BY Places, PlacesNext
<1>2. job' = job /\ line' = line
  BY DEF SameJob
<1>3. ~Spoken'
  BY <1>1 DEF Spoken
<1>4. Hears' => Hears
  BY <1>1, <1>2 DEF Hears
<1>5. job.kind = "read"
  BY DEF NameInv, JobFits
<1> QED BY <1>1, <1>3, <1>4, <1>5, StepWithin

(* A step that changes nothing the invariant speaks of.                    *)
LEMMA SamePlace ==
  ASSUME NameInv, SameJob, pc' = pc, todo' = todo, after' = after, data' = data,
         Asks(Set("cpu", "dav"))' = Asks(Set("cpu", "dav")),
         Asks(Set("cpu", "atn"))' => Asks(Set("cpu", "atn"))
  PROVE  NameInv'
<1>0. JobFits /\ RowFits /\ ToldOK /\ HearsOK /\ ListensOK /\ ChannelOK /\ NameOK
  BY DEF NameInv
<1>1. /\ line' = line /\ state' = state /\ par_status' = par_status /\ trap' = trap
      /\ leftover' = leftover /\ job' = job /\ opened' = opened
  BY DEF SameJob
<1>2. C' = C /\ Role' = Role /\ Told' = Told /\ Onward' = Onward
  BY <1>1 DEF C, Role, Told, Onward
<1>3. Rows' = Rows
  BY <1>1 DEF Rows, Who, Tell, Un, Role, Told
<1>4. InJob' = InJob /\ Commanded' = Commanded /\ Sending' = Sending
  BY DEF InJob, Commanded, Sending
<1>5. Left' = Left
  BY DEF Left
<1>6. Remaining' = Remaining
  BY <1>1, <1>4 DEF Remaining
<1>7. /\ Awaits({"listen", "talk"})' = Awaits({"listen", "talk"})
      /\ Awaits({"second", "open", "close"})' = Awaits({"second", "open", "close"})
      /\ Over' = Over
  BY <1>4, <1>5 DEF Awaits, Over
<1>8. Targeted' = Targeted
  BY <1>4, <1>7 DEF Targeted
<1>9. Instructed' = Instructed
  BY <1>7, <1>8 DEF Instructed
<1>10. Naming' = Naming
  BY <1>1, <1>9 DEF Naming
<1>11. Spoken' = Spoken
  BY <1>1, <1>4, <1>5 DEF Spoken
<1>12. Hears' = Hears
  BY <1>1, <1>4 DEF Hears
<1>13. JobFits' /\ RowFits' /\ ToldOK'
  BY <1>0, <1>1, <1>2, <1>3, <1>4, <1>5, <1>8, <1>9 DEF JobFits, RowFits, ToldOK
<1>14. HearsOK' /\ ListensOK'
  BY <1>0, <1>1, <1>11, <1>12 DEF HearsOK, ListensOK
<1>15. ChannelOK' /\ NameOK'
  BY <1>0, <1>1, <1>2, <1>6, <1>7, <1>10 DEF ChannelOK, NameOK
<1> QED BY <1>13, <1>14, <1>15 DEF NameInv

(* Under ATN: the wires that are watched, the commands that are shown and  *)
(* taken.                                                                  *)
LEMMA CommandingName ==
  ASSUME BusInv, NameInv, calls = <<>>, WatchWires \/ SendCommand \/ CommandTaken
  PROVE  NameInv'
<1>1. \A call : ~Asks(call)
  BY Returned
<1>2. CASE WatchWires
  <2>1. /\ pc = "attention" /\ pc' \in {"attention", "command"} /\ SameJob /\ todo' = todo /\ after' = after
        /\ calls' = <<>> \/ \E w \in {"nrfd", "ndac"} : calls' = <<Clr("cpu", w)>>
    BY <1>2 DEF WatchWires, Cpu, device, file, Quiet, SameJob
  <2>2. Commanded /\ Commanded' /\ Left' = Left
    BY <2>1 DEF Commanded, Left
  <2>3. ~Asks(Set("cpu", "atn"))'
    <3>1. CASE calls' = <<>>
      BY <3>1, NoCall
    <3>2. ASSUME NEW w \in {"nrfd", "ndac"}, calls' = <<Clr("cpu", w)>>
          PROVE  ~Asks(Set("cpu", "atn"))'
      <4>1. Head(calls') = Clr("cpu", w)
        BY <3>2
      <4>2. Clr("cpu", w) # Set("cpu", "atn")
        BY Distinct DEF Wires
      <4> QED BY <4>1, <4>2 DEF Asks
    <3> QED BY <2>1, <3>1, <3>2
  <2> QED BY <2>1, <2>2, <2>3, CommandsStep
<1>3. CASE SendCommand
  <2>1. /\ pc = "command" /\ pc' = "command dav" /\ SameJob /\ todo' = todo /\ after' = after
        /\ calls' = <<Set("cpu", "dav")>>
    BY <1>3 DEF SendCommand, Cpu, device, file, Quiet, SameJob
  <2>2. \A c : Asks(c)' <=> c = Set("cpu", "dav")
    BY <2>1, MachineCalls, OneCall DEF Wires
  <2>3. Commanded /\ Commanded' /\ Left' = Left
    BY <2>1, <2>2 DEF Commanded, Left
  <2>4. Set("cpu", "atn") # Set("cpu", "dav")
    BY Distinct DEF Wires
  <2> QED BY <2>1, <2>2, <2>3, <2>4, CommandsStep
<1>4. CASE CommandTaken
  <2>1. /\ pc = "command dav" /\ pc' = "command" /\ SameJob /\ todo' = Tail(todo) /\ after' = after
        /\ calls' = <<Clr("cpu", "dav")>>
    BY <1>4 DEF CommandTaken, Cpu, device, file, Quiet, SameJob
  <2>2. \A c : Asks(c)' <=> c = Clr("cpu", "dav")
    BY <2>1, MachineCalls, OneCall DEF Wires
  <2>3. Commanded /\ Commanded' /\ Left' = Left
    BY <1>1, <2>1 DEF Commanded, Left
  <2>4. Set("cpu", "atn") # Clr("cpu", "dav")
    BY Distinct DEF Wires
  <2> QED BY <2>1, <2>2, <2>3, <2>4, CommandsStep
<1> QED BY <1>2, <1>3, <1>4

(* Bytes of data are shown and taken.                                      *)
LEMMA SendingName ==
  ASSUME BusInv, NameInv, calls = <<>>, SendByte \/ ByteTaken
  PROVE  NameInv'
<1>1. \A call : ~Asks(call)
  BY Returned
<1>2. CASE SendByte
  <2>1. /\ pc = "send" /\ pc' = "send dav" /\ SameJob /\ todo' = todo /\ todo # <<>> /\ Shows(Head(todo))
        /\ UNCHANGED <<line, device>> /\ calls' = <<Set("cpu", "dav")>>
    BY <1>2 DEF SendByte, Cpu, device, file, Quiet, SameJob
  <2>2. \A c : Asks(c)' <=> c = Set("cpu", "dav")
    BY <2>1, MachineCalls, OneCall DEF Wires
  <2>3. Sending /\ Sending'
    BY <2>1 DEF Sending
  <2>4. ~Commanded /\ ~Commanded'
    BY <2>3, Places, PlacesNext
  <2>5. Remaining' = Remaining
    BY <2>1, <2>2, <2>4 DEF Remaining
  <2>6. Set("cpu", "atn") # Set("cpu", "dav")
    BY Distinct DEF Wires
  <2>7. data'["cpu"] = Head(todo')
    <3>1. Types /\ todo \in Seq(Nat)
      BY <2>1 DEF BusInv, Types
    <3>2. Head(todo) \in Nat
      BY <2>1, <3>1, HeadAndTail
    <3> QED BY <2>1, <3>1, <3>2, ShowsIs
  <2> QED BY <2>1, <2>2, <2>3, <2>5, <2>6, <2>7, SendingStep
<1>3. CASE ByteTaken
  <2>1. /\ pc = "send dav" /\ pc' = "send" /\ SameJob /\ todo' = Tail(todo) /\ calls' = <<Clr("cpu", "dav")>>
    BY <1>3 DEF ByteTaken, Cpu, device, file, Quiet, SameJob
  <2>2. \A c : Asks(c)' <=> c = Clr("cpu", "dav")
    BY <2>1, MachineCalls, OneCall DEF Wires
  <2>3. Sending /\ Sending'
    BY <2>1 DEF Sending
  <2>4. ~Commanded /\ ~Commanded' /\ ~Gives'
    BY <2>1, <2>3, Places, PlacesNext
  <2>5. Remaining' = Remaining
    BY <1>1, <2>1, <2>4 DEF Remaining
  <2>6. Set("cpu", "atn") # Clr("cpu", "dav")
    BY Distinct DEF Wires
  <2> QED BY <2>1, <2>2, <2>3, <2>4, <2>5, <2>6, SendingStep
<1> QED BY <1>2, <1>3

(* Bytes are read.                                                         *)
LEMMA ReadingName ==
  ASSUME BusInv, NameInv, calls = <<>>, Ready \/ TakeByte \/ Accept \/ Accepted \/ Turn
  PROVE  NameInv'
<1>1. /\ pc \in {"receive", "receive dav", "receive taken", "receive accepted", "turn"}
      /\ pc' \in {"receive", "receive dav", "receive taken", "receive accepted", "receive end", "turn"}
      /\ UNCHANGED <<line, device, leftover>> /\ job' = job /\ opened' = opened
  <2>1. CASE Ready \/ Accept
    BY <2>1 DEF Ready, Accept, Cpu, file, Quiet
  <2>2. CASE TakeByte
    BY <2>2 DEF TakeByte, Cpu, file
  <2>3. CASE Accepted
    BY <2>3 DEF Accepted, Cpu, file, Quiet
  <2>4. CASE Turn
    BY <2>4 DEF Turn, Cpu, ReleaseAtn, file
  <2> QED BY <2>1, <2>2, <2>3, <2>4
<1>2. SameJob
  BY <1>1 DEF SameJob, device
<1>3. InJob /\ ~Commanded /\ ~Sending /\ InJob' /\ ~Commanded' /\ ~Sending'
  BY <1>1 DEF InJob, Commanded, Sending
<1>4. ~Asks(Set("cpu", "atn"))'
  <2>1. \/ calls' = <<>>
        \/ \E w \in {"nrfd", "ndac"} : calls' = <<Set("cpu", w)>> \/ calls' = <<Clr("cpu", w)>>
        \/ calls' = <<Clr("cpu", "atn")>> \o AtnRisesForDrive
    <3>1. CASE Ready \/ Accept
      BY <3>1 DEF Ready, Accept, Cpu
    <3>2. CASE TakeByte
      BY <3>2 DEF TakeByte, Cpu
    <3>3. CASE Accepted
      BY <3>3 DEF Accepted, Cpu
    <3>4. CASE Turn
      <4>1. \A w \in ToPull : w \in {"nrfd", "ndac"}
        BY DEF ToPull, BusInv, Types, Setup
      <4> QED BY <3>4, <4>1 DEF Turn, Cpu, ReleaseAtn
    <3> QED BY <3>1, <3>2, <3>3, <3>4
  <2>2. /\ \A w \in {"nrfd", "ndac", "atn"} : Set("cpu", "atn") # Clr("cpu", w)
        /\ \A w \in {"nrfd", "ndac"} : Set("cpu", "atn") # Set("cpu", w)
    BY Distinct DEF Wires
  <2>3. CASE calls' = <<>>
    BY <2>3, NoCall
  <2>4. ASSUME NEW w \in {"nrfd", "ndac"}, NEW call \in {Set("cpu", w), Clr("cpu", w)}, calls' = <<call>>
        PROVE  ~Asks(Set("cpu", "atn"))'
    <3>1. Head(calls') = call
      BY <2>4
    <3> QED BY <2>2, <3>1 DEF Asks
  <2>5. CASE calls' = <<Clr("cpu", "atn")>> \o AtnRisesForDrive
    <3>1. AtnRisesForDrive \in Seq({Set("drv", "nrfd"), Set("drv", "ndac")})
      BY DriveAndAtn DEF BusInv
    <3>2. Head(calls') = Clr("cpu", "atn")
      BY <2>5, <3>1
    <3> QED BY <2>2, <3>2 DEF Asks
  <2> QED BY <2>1, <2>3, <2>4, <2>5
<1> QED BY <1>2, <1>3, <1>4, ReadingStep

(* The call at the head when the machine changes ATN.                      *)
LEMMA FirstOfAtn ==
  ASSUME Types, NEW call,
         \/ calls' = <<call>> \o AtnRisesForDrive
         \/ calls' = <<call>> \o AtnFallsForDrive
  PROVE  \A c : Asks(c)' <=> c = call
<1>1. PICK more \in Seq({Set("drv", "nrfd"), Set("drv", "ndac")}) : calls' = <<call>> \o more
  BY DriveAndAtn
<1>2. <<call>> \o more # <<>> /\ Head(<<call>> \o more) = call
  OBVIOUS
<1> QED BY <1>1, <1>2 DEF Asks

(* The commands are over, and the machine goes on to send or to listen.    *)
LEMMA TransferName ==
  ASSUME BusInv, NameInv, calls = <<>>, StartSending \/ StartListening
  PROVE  NameInv'
<1>1. /\ pc = "command" /\ todo = <<>> /\ after \in {"send", "turn"} /\ SameJob
      /\ pc' = after /\ todo' = IF after = "send" THEN job.bytes ELSE todo
  BY DEF StartSending, StartListening, Cpu, ReleaseAtn, device, file, SameJob
<1>2. /\ line' = line /\ job' = job
  BY <1>1 DEF SameJob
<1>3. Commanded /\ Left = <<>> /\ \A call : ~Asks(call)
  BY <1>1, Returned DEF Commanded, Left
<1>4. ~Commanded' /\ InJob' /\ (Sending' <=> after = "send")
  BY <1>1 DEF Commanded, InJob, Sending
<1>5. InJob /\ Targeted /\ Instructed /\ ~Over
  <2>1. InJob /\ ~Over
    BY <1>1, <1>3, Places DEF Over
  <2> QED BY <1>3, <2>1 DEF Targeted, Instructed, Awaits
<1>6. Targeted' /\ Instructed' /\ ~Over'
  BY <1>4, PlacesNext
<1>7. after = Onward /\ job.kind \in {"open", "close", "read", "write"}
  BY <1>1, <1>3, <1>5 DEF NameInv, RowFits, JobFits
<1>8. /\ after = "send" => job.kind \in {"open", "write"}
      /\ after = "turn" => job.kind = "read"
  BY <1>7 DEF Onward
<1>9. job.kind = "open" => Remaining' = Remaining
  <2> SUFFICES ASSUME job.kind = "open" PROVE Remaining' = Remaining
    OBVIOUS
  <2>1. after = "send"
    BY <1>1, <1>8
  <2>2. Remaining = job.bytes
    BY <1>3, <2>1 DEF Remaining
  <2>3. pc' = "send" /\ todo' = job.bytes
    BY <1>1, <2>1
  <2>4. Remaining' = todo'
    BY <1>4, <2>3 DEF Remaining
  <2> QED BY <2>2, <2>3, <2>4
<1>10. Spoken' => Spoken
  <2>1. pc' = "send" => after = "send"
    BY <1>1
  <2> QED BY <1>3, <1>4, <2>1 DEF Spoken
<1>11. Hears
  <2>1. "cpu" \in line["atn"]
    BY <1>1, Returned DEF Commanding
  <2> QED BY <1>1, <2>1 DEF Hears
<1>12. ~Asks(Set("cpu", "atn"))'
  <2>1. calls' = <<>> \/ calls' = <<Clr("cpu", "atn")>> \o AtnRisesForDrive
    BY DEF StartSending, StartListening, Cpu, ReleaseAtn
  <2>2. Clr("cpu", "atn") # Set("cpu", "atn")
    BY Distinct DEF Wires
  <2> QED BY <2>1, <2>2, NoCall, FirstOfAtn DEF BusInv
<1>13. ~Gives'
  <2>1. pc' # "send dav"
    BY <1>1
  <2> QED BY <2>1 DEF Gives
<1>14. Sending' => job.kind \in {"open", "write"}
  BY <1>4, <1>8
<1>15. ~Commanded' /\ ~Sending' => job.kind = "read"
  BY <1>1, <1>4, <1>8
<1> QED BY <1>1, <1>4, <1>5, <1>6, <1>9, <1>10, <1>11, <1>12, <1>13, <1>14, <1>15, StepWithin

(* ATN for the command that ends a transfer.                               *)
LEMMA BreaksName ==
  ASSUME BusInv, NameInv, calls = <<>>, StopSending \/ NotPresent \/ StopReceiving \/ Timeout
  PROVE  NameInv'
<1>0. Types /\ JobFits /\ HearsOK
  BY DEF BusInv, NameInv
<1>1. /\ SameJob /\ pc' = "attention" /\ after' = "end"
      /\ calls' = <<Set("cpu", "atn")>> \o AtnFallsForDrive
      /\ \/ pc = "send" /\ todo' = <<[kind |-> "unlisten"]>>
         \/ pc \in {"receive", "receive dav", "receive taken", "receive end"} /\ todo' = <<[kind |-> "untalk"]>>
  BY DEF StopSending, NotPresent, StopReceiving, Timeout, PullAtn, Cpu, device, file, SameJob
<1>2. line' = line /\ job' = job
  BY <1>1 DEF SameJob
<1>3. InJob /\ ~Commanded /\ pc # "reset" /\ Targeted /\ Instructed /\ ~Over
  <2>1. InJob /\ ~Commanded /\ pc # "reset"
    BY <1>1 DEF InJob, Commanded
  <2> QED BY <2>1, Places
<1>4. InJob' /\ Commanded' /\ ~Sending' /\ ~Gives' /\ pc' # "send" /\ pc' # "reset" /\ pc' # "command dav"
  BY <1>1, PlacesNext DEF Commanded
<1>5. todo' = <<Un>>
  <2>1. pc = "send" => job.kind \in {"open", "write"}
    BY <1>0 DEF JobFits, Sending
  <2>2. pc \in {"receive", "receive dav", "receive taken", "receive end"} => job.kind = "read"
    BY <1>0, <1>3 DEF JobFits, Sending
  <2>3. CASE pc = "send"
    BY <1>1, <2>1, <2>3 DEF Un
  <2>4. CASE pc # "send"
    BY <1>1, <2>2, <2>4 DEF Un
  <2> QED BY <2>3, <2>4
<1>6. Un' = Un /\ Un.kind \in {"unlisten", "untalk"}
  BY <1>2 DEF Un
<1> DEFINE u == Un
<1> HIDE DEF u
<1>7. Left' = <<u>> /\ Left' # <<>> /\ Head(Left') = u
  <2>1. Left' = todo'
    BY <1>4 DEF Left
  <2>2. todo' = <<u>>
    BY <1>5 DEF u
  <2> QED BY <2>1, <2>2
<1>8. Targeted' /\ Instructed' /\ ~Over'
  <2>1. u.kind \notin {"listen", "talk", "second", "open", "close"}
    BY <1>6 DEF u
  <2>2. ~Awaits({"listen", "talk"})' /\ ~Awaits({"second", "open", "close"})' /\ ~Over'
    BY <1>7, <2>1 DEF Awaits, Over
  <2> QED BY <1>4, <2>2 DEF Targeted, Instructed
<1>9. Left' \in Rows' /\ after' \in {"end", Onward}
  <2>1. <<u>> \in Rows'
    BY <1>1, <1>6 DEF Rows, u
  <2> QED BY <1>1, <1>7, <2>1
<1>10. job.kind = "open" => Remaining' = Remaining
  <2> SUFFICES ASSUME job.kind = "open" PROVE Remaining' = Remaining
    OBVIOUS
  <2>1. Remaining' = <<>>
    BY <1>1, <1>4 DEF Remaining
  <2>2. pc = "send"
    BY <1>0, <1>1, <1>3 DEF JobFits, Sending
  <2>3. Remaining = todo
    BY <1>3, <2>2 DEF Remaining
  <2>4. todo = <<>>
    <3>1. CASE StopSending
      BY <3>1 DEF StopSending
    <3>2. CASE NotPresent
      <4>1. job.device = V /\ Hears
        BY <1>0, <1>3, <2>2 DEF JobFits, Hears, Sending
      <4>2. "cpu" \notin line["dav"]
        BY <2>2, Returned DEF ToRelease
      <4>3. "emu" \in line["ndac"]
        BY <1>0, <4>1, <4>2 DEF HearsOK
      <4>4. Pulled(Bus, "ndac")
        BY <4>3, BusFields DEF Pulled
      <4> QED BY <3>2, <4>4 DEF NotPresent
    <3>3. CASE StopReceiving \/ Timeout
      BY <2>2, <3>3 DEF StopReceiving, Timeout
    <3> QED BY <3>1, <3>2, <3>3
  <2> QED BY <2>1, <2>3, <2>4
<1>11. ~Spoken'
  BY <1>4, <1>7 DEF Spoken
<1>12. Hears' => Hears
  BY <1>2, <1>3, <1>4 DEF Hears
<1>13. "cpu" \notin line["atn"]
  <2>1. ~Commanding /\ ~ToRelease("atn")
    BY <1>1 DEF Commanding, ToRelease
  <2> QED BY <2>1, Returned
<1> QED BY <1>1, <1>3, <1>4, <1>8, <1>9, <1>10, <1>11, <1>12, <1>13, StepWithin

(* Outside of a job.                                                       *)
LEMMA OutsideName ==
  ASSUME NameInv, ~InJob', job'.kind = "none", UNCHANGED <<line, state, par_status, trap>>,
         opened' => C.open /\ C.isopen = 2,
         leftover' = trap.name, trap.name \in Seq(Nat), Len(trap.name) <= NameLength,
         Hears' => Hears, ~Asks(Set("cpu", "atn"))'
  PROVE  NameInv'
<1>1. /\ ~Targeted' /\ ~Instructed' /\ ~Over' /\ ~Naming' /\ ~Spoken' /\ ~Commanded' /\ ~Sending' /\ ~Gives'
  BY PlacesNext
<1>2. C' = C
  BY DEF C
<1>3. JobFits' /\ RowFits' /\ ToldOK' /\ ListensOK'
  BY <1>1 DEF JobFits, RowFits, ToldOK, ListensOK
<1>4. HearsOK'
  <2>1. state' = "In1" => "emu" \in line'["ndac"]
    BY DEF NameInv, HearsOK
  <2>2. Hears' => state' \in {"In1", "In2"} /\ (state' = "In2" <=> "cpu" \in line'["dav"])
    BY DEF NameInv, HearsOK
  <2> QED BY <1>1, <2>1, <2>2 DEF HearsOK, Gives
<1>5. ChannelOK' /\ NameOK'
  BY <1>1, <1>2 DEF ChannelOK, NameOK
<1> QED BY <1>3, <1>4, <1>5 DEF NameInv

(* The job is over.                                                        *)
LEMMA EndJobName == ASSUME BusInv, NameInv, OneDevice, calls = <<>>, EndJob PROVE NameInv'
<1>0. JobFits /\ ChannelOK /\ NameOK
  BY DEF NameInv
<1>1. /\ pc = "command" /\ todo = <<>> /\ after = "end" /\ pc' = "idle" /\ job' = NoJob
      /\ UNCHANGED <<line, state, par_status, trap>> /\ leftover' = leftover
      /\ calls' = <<Clr("cpu", "atn")>> \o AtnRisesForDrive
      /\ opened' = IF job.kind = "open" /\ job.device \in Virtual THEN trap.channel[job.device].open
                   ELSE opened
  BY DEF EndJob, ReleaseAtn, Cpu, Rest, device, file
<1>2. Commanded /\ Left = <<>> /\ Over /\ InJob
  BY <1>1, Places DEF Commanded, Left, Over
<1>3. ~Targeted /\ ~Naming
  BY <1>2 DEF Targeted, Instructed, Naming
<1>4. ~InJob' /\ job'.kind = "none"
  BY <1>1 DEF InJob, NoJob
<1>5. opened' => C.open /\ C.isopen = 2
  <2>1. CASE job.kind = "open" /\ job.device \in Virtual
    <3>1. job.device = V
      BY <1>0, <1>2, <2>1 DEF JobFits
    <3>2. opened' = C.open
      BY <1>1, <2>1, <3>1 DEF C
    <3> QED BY <1>0, <1>2, <2>1, <3>2 DEF ChannelOK
  <2>2. CASE ~(job.kind = "open" /\ job.device \in Virtual)
    BY <1>0, <1>1, <2>2 DEF ChannelOK
  <2> QED BY <2>1, <2>2
<1>6. leftover' = trap.name /\ trap.name \in Seq(Nat) /\ Len(trap.name) <= NameLength
  BY <1>0, <1>1, <1>3 DEF NameOK
<1>7. ~Asks(Set("cpu", "atn"))'
  <2>1. Clr("cpu", "atn") # Set("cpu", "atn")
    BY Distinct DEF Wires
  <2> QED BY <1>1, <2>1, FirstOfAtn DEF BusInv
<1>8. Hears' => Hears
  <2>1. ~Sending' /\ pc # "reset"
    BY <1>2, <1>4, Places, PlacesNext
  <2> QED BY <1>1, <2>1 DEF Hears
<1> QED BY <1>1, <1>4, <1>5, <1>6, <1>7, <1>8, OutsideName

(* A reset, which the device is not told of.                               *)
LEMMA ResetName == ASSUME BusInv, NameInv, OneDevice, calls = <<>>, Reset PROVE NameInv'
<1>1. /\ pc' = "reset" /\ job' = NoJob /\ opened' = FALSE /\ leftover' = trap.name /\ calls' = <<>>
      /\ UNCHANGED <<line, state, par_status, trap>>
  BY DEF Reset, Forget, Rest, device
<1>2. ~InJob' /\ ~Hears'
  BY <1>1 DEF InJob, Hears, Sending
<1>3. job'.kind = "none"
  BY <1>1 DEF NoJob
<1>4. leftover' = trap.name /\ trap.name \in Seq(Nat) /\ Len(trap.name) <= NameLength
  <2>1. leftover \in Seq(Nat) /\ Len(leftover) <= NameLength
    BY DEF NameInv, NameOK
  <2>2. CASE Naming
    <3>1. PICK part \in Seq(Nat) : trap.name = Cut(leftover \o part)
      BY <2>2 DEF NameInv, NameOK, Arrived
    <3>2. leftover \o part \in Seq(Nat)
      BY <2>1, ConcatProperties
    <3> QED BY <1>1, <3>1, <3>2, CutIs
  <2>3. CASE ~Naming
    BY <1>1, <2>1, <2>3 DEF NameInv, NameOK
  <2> QED BY <2>2, <2>3
<1>5. ~Asks(Set("cpu", "atn"))'
  BY <1>1, NoCall
<1> QED BY <1>1, <1>2, <1>3, <1>4, <1>5, OutsideName

(* The wires are released after it.                                        *)
LEMMA ReleaseName == ASSUME BusInv, NameInv, calls = <<>>, Release PROVE NameInv'
<1>0. JobFits /\ ChannelOK /\ NameOK
  BY DEF NameInv
<1>1. /\ pc = "reset" /\ SameJob /\ pc' = IF todo = <<>> THEN "idle" ELSE "reset"
      /\ \/ calls' = <<>>
         \/ calls' = <<Clr("cpu", "atn")>> \o AtnRisesForDrive
         \/ calls' = <<Clr("cpu", Head(todo))>>
  BY DEF Release, ReleaseAtn, Cpu, device, file, SameJob
<1>2. ~InJob /\ ~InJob' /\ ~Sending'
  BY <1>1 DEF InJob, Sending
<1>3. ~Naming
  BY <1>2, Places
<1>4. UNCHANGED <<line, state, par_status, trap>> /\ leftover' = leftover /\ job' = job /\ opened' = opened
  BY <1>1 DEF SameJob
<1>5. job'.kind = "none"
  BY <1>0, <1>2, <1>4 DEF JobFits
<1>6. opened' => C.open /\ C.isopen = 2
  BY <1>0, <1>4 DEF ChannelOK
<1>7. leftover' = trap.name /\ trap.name \in Seq(Nat) /\ Len(trap.name) <= NameLength
  BY <1>0, <1>3, <1>4 DEF NameOK
<1>8. ~Hears'
  <2>1. todo = <<>> => "cpu" \notin line["atn"]
    <3>1. todo = <<>> => ~ToRelease("atn")
      BY DEF ToRelease
    <3>2. ~Commanding
      BY <1>1 DEF Commanding
    <3> QED BY <3>1, <3>2, Returned
  <2> QED BY <1>1, <1>2, <1>4, <2>1 DEF Hears
<1>9. ~Asks(Set("cpu", "atn"))'
  <2>1. \A w : Clr("cpu", w) # Set("cpu", "atn")
    BY DEF Set, Clr
  <2>2. CASE calls' = <<>>
    BY <2>2, NoCall
  <2>3. CASE calls' = <<Clr("cpu", "atn")>> \o AtnRisesForDrive
    BY <2>1, <2>3, FirstOfAtn DEF BusInv
  <2>4. CASE calls' = <<Clr("cpu", Head(todo))>>
    <3>1. Head(calls') = Clr("cpu", Head(todo))
      BY <2>4
    <3> QED BY <2>1, <3>1 DEF Asks
  <2> QED BY <1>1, <2>2, <2>3, <2>4
<1> QED BY <1>2, <1>4, <1>5, <1>6, <1>7, <1>8, <1>9, OutsideName

(* The drive's CPU, and the loops that only watch the wires.               *)
LEMMA DriveName == ASSUME BusInv, NameInv, DriveStep PROVE NameInv'
<1>1. /\ calls = <<>> /\ SameJob /\ pc' = pc /\ todo' = todo /\ after' = after /\ data' = data
  BY DEF DriveStep, DriveAnswers, DriveBusy, DriveTakes, DriveAgain, DriveLeaves, Drv, device, wires,
         file, SameJob
<1>a. PICK w \in {"nrfd", "ndac"} : calls' = <<Set("drv", w)>> \/ calls' = <<Clr("drv", w)>>
  BY DEF DriveStep, DriveAnswers, DriveBusy, DriveTakes, DriveAgain, DriveLeaves, Drv
<1>2. PICK call \in {Set("drv", w), Clr("drv", w)} : calls' = <<call>>
  BY <1>a
<1>3. \A v : Set("cpu", v) # call
  BY DEF Set, Clr
<1>4. Head(calls') = call
  BY <1>2
<1>5. \A v : ~Asks(Set("cpu", v))' /\ ~Asks(Set("cpu", v))
  BY <1>1, <1>3, <1>4 DEF Asks
<1>6. Asks(Set("cpu", "dav"))' = Asks(Set("cpu", "dav"))
  BY <1>5 DEF Asks
<1>7. ~Asks(Set("cpu", "atn"))'
  BY <1>5
<1> QED BY <1>1, <1>6, <1>7, SamePlace

(* Nothing happens.                                                        *)
LEMMA StutterName == ASSUME NameInv, UNCHANGED vars PROVE NameInv'
<1>1. SameJob /\ pc' = pc /\ todo' = todo /\ after' = after /\ data' = data /\ calls' = calls
  BY DEF vars, wires, device, file, SameJob
<1>2. \A call : Asks(call)' = Asks(call)
  BY <1>1 DEF Asks
<1> QED BY <1>1, <1>2, SamePlace

(* A job begins.                                                           *)
LEMMA StartName ==
  ASSUME BusInv, NameInv, OneDevice, calls = <<>>,
         NEW kind \in {"open", "close", "read", "write"}, NEW d \in Device, Start(kind, d)
  PROVE  NameInv'
<1>0. JobFits /\ ToldOK /\ HearsOK /\ ListensOK /\ ChannelOK /\ NameOK
  BY DEF NameInv
<1>1. /\ pc = "idle" /\ pc' = "attention" /\ todo' = Commands(kind, d)
      /\ UNCHANGED <<line, state, par_status, trap>> /\ leftover' = leftover
      /\ calls' = <<Set("cpu", "atn")>> \o AtnFallsForDrive
      /\ after' = CASE kind = "read" -> "turn" [] kind = "close" -> "end" [] OTHER -> "send"
  BY DEF Start, PullAtn, Cpu, device
<1>2. PICK bytes \in Bytes(kind) : job' = [kind |-> kind, device |-> d, bytes |-> bytes]
  BY DEF Start
<1>3. job'.kind = kind /\ job'.device = d /\ job'.bytes = bytes
  BY <1>2
<1>4. /\ ~InJob /\ InJob' /\ Commanded' /\ ~Sending' /\ ~Gives' /\ pc' # "send" /\ pc' # "command dav"
      /\ pc' # "reset"
  BY <1>1, PlacesNext DEF InJob, Commanded
<1>5. Left' = todo'
  BY <1>4 DEF Left
<1>6. /\ d \in Virtual => kind \in Jobs
      /\ d \notin Virtual => kind = "write"
      /\ opened' = IF kind \in {"open", "close"} /\ d \in Virtual THEN FALSE ELSE opened
  BY DEF Start, Forget, file
<1>7. kind # "write" => d = V
  BY <1>6, TheDevice
<1>8. kind = "write" /\ d = V => opened'
  BY <1>6, TheDevice DEF Jobs
<1>9. opened' => opened /\ kind \notin {"open", "close"}
  BY <1>6, <1>7, TheDevice
<1>10. kind = "open" => bytes # <<>> /\ Len(bytes) <= NameLength
  <2> SUFFICES ASSUME kind = "open" PROVE bytes # <<>> /\ Len(bytes) <= NameLength
    OBVIOUS
  <2>1. bytes = FileName \/ bytes = <<1>>
    BY DEF Bytes
  <2>2. FileName # <<>> /\ Len(FileName) <= NameLength /\ FileName \in Seq(Nat) /\ NameLength \in Nat
    BY FileAssumption, NameLengthAssumption
  <2>3. Len(FileName) >= 1
    BY <2>2
  <2> DEFINE one == <<1>>
  <2>4. one # <<>> /\ Len(one) = 1
    OBVIOUS
  <2>5. bytes = FileName \/ bytes = one
    BY <2>1
  <2> HIDE DEF one
  <2>6. Len(one) <= NameLength
    BY <2>2, <2>3, <2>4
  <2> QED BY <2>2, <2>4, <2>5, <2>6
<1>11. JobFits'
  BY <1>3, <1>4, <1>7, <1>8, <1>9, <1>10 DEF JobFits
<1> DEFINE w == Who'
           t == Tell'
           u == Un'
<1>12. /\ w = [kind |-> IF kind = "read" THEN "talk" ELSE "listen", device |-> d]
       /\ t = [kind |-> IF kind \in {"open", "close"} THEN kind ELSE "second"]
       /\ u = [kind |-> IF kind = "read" THEN "untalk" ELSE "unlisten"]
  BY <1>3 DEF Who, Tell, Un, Role, Told
<1>13. w.kind \in {"listen", "talk"}
  BY <1>12
<1>14. todo' = IF kind = "close" THEN <<w, t, u>> ELSE <<w, t>>
  BY <1>1, <1>12 DEF Commands
<1>15. after' = Onward'
  BY <1>1, <1>3 DEF Onward
<1>16. Rows' = IF job'.kind = "close" THEN {<<w, t, u>>, <<t, u>>, <<u>>, <<>>}
               ELSE IF after' = "end" THEN {<<u>>, <<>>} ELSE {<<w, t>>, <<t>>, <<>>}
  BY DEF Rows
<1> HIDE DEF w, t, u
<1>17. todo' # <<>> /\ Head(todo') = w
  BY <1>14
<1>18. todo' \in Rows'
  <2>1. kind # "close" => after' # "end"
    BY <1>1
  <2> QED BY <1>3, <1>14, <1>16, <2>1
<1>19. RowFits'
  BY <1>5, <1>15, <1>18 DEF RowFits
<1>20. ~Targeted' /\ ~Instructed' /\ ~Over' /\ ~Naming' /\ ~Spoken'
  <2>1. Awaits({"listen", "talk"})' /\ ~Over'
    BY <1>4, <1>5, <1>13, <1>17 DEF Awaits, Over
  <2>2. ~Targeted'
    BY <2>1 DEF Targeted
  <2>3. ~Spoken'
    BY <1>4, <1>5, <1>17 DEF Spoken
  <2> QED BY <2>1, <2>2, <2>3 DEF Instructed, Naming
<1>21. ToldOK' /\ ListensOK'
  BY <1>20 DEF ToldOK, ListensOK
<1>22. HearsOK'
  <2>1. Hears' => Hears
    BY <1>1, <1>4 DEF Hears
  <2>2. "cpu" \notin line["atn"]
    <3>1. ~Commanding /\ ~ToRelease("atn")
      BY <1>1 DEF Commanding, ToRelease
    <3> QED BY <3>1, Returned
  <2>3. Hears' => state' \in {"In1", "In2"} /\ (state' = "In2" <=> "cpu" \in line'["dav"])
    BY <1>0, <1>1, <2>1 DEF HearsOK
  <2>4. state' = "In1" => "emu" \in line'["ndac"]
    BY <1>0, <1>1 DEF HearsOK
  <2> QED BY <1>1, <1>4, <2>2, <2>3, <2>4 DEF HearsOK, Gives
<1>23. C' = C /\ ~Naming
  BY <1>1, <1>4, Places DEF C
<1>24. ChannelOK' /\ NameOK'
  BY <1>0, <1>1, <1>9, <1>20, <1>23 DEF ChannelOK, NameOK
<1> QED BY <1>11, <1>19, <1>21, <1>22, <1>24 DEF NameInv

-----------------------------------------------------------------------------
(* At first there is no name.                                              *)
LEMMA InitName == ASSUME DrivesBesideNew, OneDevice, Init PROVE NameInv
<1>1. /\ line = [w \in Wires |-> {}] /\ state = "WaitATN" /\ trap = InitTrap /\ calls = <<>>
      /\ pc = "idle" /\ job = NoJob /\ opened = FALSE /\ leftover = <<>>
  BY DEF Init
<1>2. ~InJob /\ ~Commanded /\ ~Sending /\ \A call : ~Asks(call)
  BY <1>1 DEF InJob, Commanded, Sending, Asks
<1>3. ~Targeted /\ ~Instructed /\ ~Over /\ ~Naming /\ ~Spoken
  BY <1>2, Places
<1>4. ~Hears
  <2>1. line["atn"] = {}
    BY <1>1 DEF Wires
  <2> QED BY <1>2, <2>1 DEF Hears
<1>5. trap.name = <<>> /\ C.isopen = 0
  <2>1. V \in Virtual \cup Absent
    BY TheDevice
  <2>2. InitTrap.channel[V] = ClosedChannel /\ InitTrap.name = <<>>
    BY <2>1 DEF InitTrap
  <2>3. ClosedChannel.isopen = 0
    BY DEF ClosedChannel
  <2> QED BY <1>1, <2>2, <2>3 DEF C
<1>6. job.kind = "none"
  BY <1>1 DEF NoJob
<1>7. JobFits /\ RowFits /\ ToldOK
  BY <1>2, <1>3, <1>6 DEF JobFits, RowFits, ToldOK
<1>8. HearsOK /\ ListensOK
  BY <1>1, <1>2, <1>3, <1>4 DEF HearsOK, ListensOK
<1>9. ChannelOK /\ NameOK
  <2>1. <<>> \in Seq(Nat) /\ Len(<<>>) = 0 /\ NameLength \in Nat
    BY NameLengthAssumption
  <2> QED BY <1>1, <1>3, <1>5, <1>6, <2>1 DEF ChannelOK, NameOK
<1> QED BY <1>7, <1>8, <1>9 DEF NameInv

(* Every step keeps what is said of the name.                              *)
LEMMA NextName == ASSUME BusInv, NameInv, OneDevice, [Next]_vars PROVE NameInv'
<1>1. CASE BusCall
  BY <1>1, CallKeepsName
<1>2. CASE Proceed
  <2>1. calls = <<>> /\ Routine
    BY <1>2 DEF Proceed
  <2>2. CASE WatchWires \/ SendCommand \/ CommandTaken
    BY <2>1, <2>2, CommandingName
  <2>3. CASE SendByte \/ ByteTaken
    BY <2>1, <2>3, SendingName
  <2>4. CASE EndJob
    BY <2>1, <2>4, EndJobName
  <2>5. CASE StartSending \/ StartListening
    BY <2>1, <2>5, TransferName
  <2>6. CASE Ready \/ TakeByte \/ Accept \/ Accepted \/ Turn
    BY <2>1, <2>6, ReadingName
  <2>7. CASE NotPresent \/ Timeout
    BY <2>1, <2>7, BreaksName
  <2>8. CASE Release
    BY <2>1, <2>8, ReleaseName
  <2> QED BY <2>1, <2>2, <2>3, <2>4, <2>5, <2>6, <2>7, <2>8 DEF Routine
<1>3. CASE DriveStep
  BY <1>3, DriveName
<1>4. ASSUME calls = <<>>, NEW kind \in {"open", "close", "read", "write"}, NEW d \in Device,
             Start(kind, d)
      PROVE  NameInv'
  BY <1>4, StartName
<1>5. CASE calls = <<>> /\ (StopSending \/ StopReceiving)
  BY <1>5, BreaksName
<1>6. CASE calls = <<>> /\ Reset
  BY <1>6, ResetName
<1>7. CASE Poll \/ UNCHANGED vars
  BY <1>7, StutterName DEF Poll
<1> QED BY <1>1, <1>2, <1>3, <1>4, <1>5, <1>6, <1>7 DEF Next

(* Only a call of a bus function reaches the trap layer.                   *)
LEMMA OnlyCalls == ASSUME [Next]_vars, ~BusCall PROVE trap' = trap
<1>1. CASE Proceed
  BY <1>1 DEF Proceed, Routine, WatchWires, SendCommand, CommandTaken, EndJob, StartSending, SendByte,
              ByteTaken, NotPresent, StartListening, Turn, Ready, TakeByte, Accept, Accepted, Timeout,
              Release, Cpu, PullAtn, ReleaseAtn, device
<1>2. CASE DriveStep
  BY <1>2 DEF DriveStep, DriveAnswers, DriveBusy, DriveTakes, DriveAgain, DriveLeaves, Drv, device
<1>3. ASSUME NEW kind, NEW d, Start(kind, d)
      PROVE  trap' = trap
  BY <1>3 DEF Start, PullAtn, Cpu, device
<1>4. CASE StopSending \/ StopReceiving \/ Reset \/ Poll \/ UNCHANGED vars
  BY <1>4 DEF StopSending, StopReceiving, Reset, Poll, PullAtn, Cpu, device, vars
<1> QED BY <1>1, <1>2, <1>3, <1>4 DEF Next

(* A name is given up when it has been used, and then it is all there.     *)
LEMMA NameUsed ==
  ASSUME BusInv, NameInv, OneDevice, [Next]_vars, trap.name # <<>>, trap'.name = <<>>
  PROVE  trap.name = IF job.kind = "open" THEN Cut(leftover \o job.bytes) ELSE leftover
<1>0. Types /\ JobFits /\ RowFits /\ ChannelOK /\ NameOK
  BY DEF BusInv, NameInv
<1>1. BusCall
  BY OnlyCalls
<1>2. Asks(Set("cpu", "dav")) /\ state = "In1"
  BY <1>1, CallTells DEF Untouched
<1>3. CASE job.kind # "open"
  BY <1>0, <1>3 DEF NameOK, Naming
<1>4. CASE job.kind = "open"
  <2>1. ~Gives
    <3> SUFFICES ASSUME Gives PROVE FALSE
      OBVIOUS
    <3>1. /\ InJob /\ ~Commanded /\ Targeted /\ Instructed /\ ~Over
          /\ Remaining = todo /\ todo \in Seq(Nat) /\ todo # <<>>
      BY <1>0, AtGiven
    <3>2. Naming' /\ Remaining' = Tail(todo) /\ job' = job
      <4>1. Instructed' = Instructed /\ job' = job
        BY <1>1, CallControl DEF Gives
      <4>2. Naming /\ Naming'
        BY <1>4, <3>1, <4>1 DEF Naming
      <4> QED BY <1>1, <4>1, <4>2, CallControl DEF Gives
    <3>3. Remaining' = job'.bytes
      BY <1>1, <3>2, CallKeepsName DEF NameInv, ChannelOK
    <3>4. Arrived(trap.name, leftover, todo, job.bytes)
      BY <1>0, <1>4, <3>1 DEF NameOK, Naming
    <3>5. PICK part \in Seq(Nat) : job.bytes = part \o todo
      BY <3>4 DEF Arrived
    <3>6. Len(part \o todo) = Len(part) + Len(todo) /\ Len(Tail(todo)) < Len(todo)
          /\ Len(part) \in Nat /\ Len(todo) \in Nat /\ Len(Tail(todo)) \in Nat
      BY <3>1
    <3> QED BY <3>2, <3>3, <3>5, <3>6
  <2>2. Orders
    BY <1>0, <1>2, <2>1, AsksAt DEF Orders, Gives
  <2> DEFINE h == Head(todo)
  <2>3. Commanded /\ InJob /\ Left = todo /\ todo # <<>>
    BY <1>1, <2>2, CallControl DEF Orders, Commanded, InJob, BusInv, CommandsOK
  <2>4. Left \in Rows /\ after \in {"end", Onward} /\ job.kind \in {"open", "close", "read", "write"}
    BY <1>0, <2>3 DEF RowFits, JobFits
  <2>5. /\ Ending(h) => after = "end"
        /\ Addressing(h) \/ h.kind \in {"second", "open", "close"} \/ Ending(h)
    BY <2>3, <2>4, RowStep
  <2>6. Ending(h) /\ Instructed
    BY <1>1, <1>4, <2>2, CallTakesCommand
  <2>7. Naming /\ Remaining = <<>>
    BY <1>4, <2>3, <2>5, <2>6 DEF Naming, Remaining
  <2>8. Arrived(trap.name, leftover, <<>>, job.bytes) /\ job.bytes \in Seq(Nat)
    BY <1>0, <2>7 DEF NameOK, Types
  <2>9. trap.name = Cut(leftover \o job.bytes)
    BY <2>8, AllArrived
  <2> QED BY <1>4, <2>9
<1> QED BY <1>3, <1>4

(* The device hears the machine whenever it is spoken to, knows of the job *)
(* what it has been told, and has of a name what the machine has sent.     *)
THEOREM NameInvariant == ASSUME DrivesBesideNew, OneDevice PROVE Spec => [](BusInv /\ NameInv)
<1>1. Init => BusInv /\ NameInv
  BY InitKeeps, InitName
<1>2. BusInv /\ NameInv /\ [Next]_vars => (BusInv /\ NameInv)'
  BY NextKeeps, NextName
<1> QED BY <1>1, <1>2, PTL DEF Spec

(* The name that parallel-trap.c opens a file with is the one the machine  *)
(* sent for it, byte by byte, through any break of a transfer by ATN; what *)
(* a reset has cut off of another OPEN is before it, and nothing else.     *)
THEOREM NameArrives == ASSUME DrivesBesideNew, OneDevice PROVE Spec => NameIntact
<1>1. BusInv /\ NameInv /\ [Next]_vars =>
        [trap.name # <<>> /\ trap'.name = <<>> =>
           trap.name = IF job.kind = "open" THEN Cut(leftover \o job.bytes) ELSE leftover]_vars
  BY NameUsed
<1> QED BY <1>1, NameInvariant, PTL DEF Spec, NameIntact

-----------------------------------------------------------------------------
(* The drive with a CPU during a job of the machine.  It answers ATN in    *)
(* its own time, and what it has been told it knows before the machine     *)
(* goes on.                                                                *)

(* A call that pulls this wire for the drive is under way.                 *)
Comes(w) == \E i \in DOMAIN calls : calls[i] = Set("drv", w)

DrivePulls(w) == "drv" \in line[w] \/ Comes(w)

(* The calls that follow a change of ATN are the drive's hardware's.       *)
QueueOK ==
  calls # <<>> =>
    /\ Tail(calls) \in Seq({Set("drv", "nrfd"), Set("drv", "ndac")})
    /\ Tail(calls) # <<>> => ~Asks(Clr("cpu", "nrfd")) /\ ~Asks(Clr("drv", "nrfd"))

(* The machine shows the next command of its job.                          *)
Showing == pc = "command dav"

ShownOK == Showing => todo \in Rows /\ data["cpu"] = Head(todo)

(* The drive listens only while the machine writes to it.                  *)
ListenerOK ==
  /\ drive.listens => setup.drive /\ InJob /\ job.kind = "write" /\ job.device \in Real
  /\ drive.listens /\ Over => Showing /\ drive.at = "ready"

(* It pulls NRFD or NDAC until its CPU has dealt with a command.           *)
PullsOK ==
  /\ drive.at \in {"atn", "busy", "taken", "again"} => DrivePulls("nrfd")
  /\ drive.at = "leaving" /\ drive.listens => DrivePulls("nrfd")
  /\ drive.at \in {"atn", "ready", "busy", "again"} => DrivePulls("ndac")
  /\ Asks(Clr("drv", "nrfd")) =>
       drive.at \in {"ready", "idle", "leaving"} /\ (drive.at = "leaving" => ~drive.listens)
  /\ Asks(Clr("drv", "ndac")) => drive.at \in {"taken", "idle", "leaving"}

(* It comes round when ATN falls, and leaves when ATN rises.               *)
RoundOK ==
  /\ Orders => drive.at \in {"absent", "ready"}
  /\ Asks(Set("cpu", "atn")) => drive.at \in {"absent", "atn"}
  /\ "cpu" \in line["atn"] /\ ~Asks(Clr("cpu", "atn")) => drive.at \notin {"idle", "leaving"}
  /\ ~Asks(Set("cpu", "atn")) /\ ("cpu" \notin line["atn"] \/ Asks(Clr("cpu", "atn"))) /\ ~drive.listens =>
       drive.at \in {"absent", "idle", "leaving"}

DriveInv == QueueOK /\ ShownOK /\ ListenerOK /\ PullsOK /\ RoundOK

(* What a call leaves of the drive's part in the bus.                      *)
LEMMA CallOfDrive ==
  ASSUME BusInv, QueueOK, BusCall
  PROVE  /\ QueueOK'
         /\ \A w : ~Asks(Clr("cpu", w))' /\ ~Asks(Clr("drv", w))' /\ ~Asks(Set("cpu", w))'
         /\ \A w \in {"nrfd", "ndac"} : DrivePulls(w) /\ ~Asks(Clr("drv", w)) => DrivePulls(w)'
<1>0. Types /\ calls # <<>> /\ calls \in Seq(Call) /\ calls' = Tail(calls)
  BY DEF BusInv, Types, CallsOK, BusCall
<1> DEFINE S == {Set("drv", "nrfd"), Set("drv", "ndac")}
<1>1. Tail(calls) \in Seq(S)
  BY <1>0 DEF QueueOK
<1>2. \A w : Clr("cpu", w) \notin S /\ Clr("drv", w) \notin S /\ Set("cpu", w) \notin S
  BY DEF Set, Clr
<1> HIDE DEF S
<1>3. calls' # <<>> => Head(calls') \in S /\ Tail(calls') \in Seq(S)
  BY <1>0, <1>1, HeadAndTail
<1>4. \A w : ~Asks(Clr("cpu", w))' /\ ~Asks(Clr("drv", w))' /\ ~Asks(Set("cpu", w))'
  BY <1>2, <1>3 DEF Asks
<1>5. QueueOK'
  BY <1>3, <1>4 DEF QueueOK, S
<1>6. ASSUME NEW w \in {"nrfd", "ndac"}, DrivePulls(w), ~Asks(Clr("drv", w))
      PROVE  DrivePulls(w)'
  <2> DEFINE c == Head(calls)
  <2>1. /\ line'[w] \ {"emu"} = (IF w = c.wire THEN Pulls(Bus, c) ELSE line[w]) \ {"emu"}
        /\ c \in Call /\ c = calls[1] /\ c.who \in {"cpu", "drv"} /\ c.low \in BOOLEAN
    BY <1>0, BusCallIs, FirstCall DEF Wires, Call
  <2>2. Pulls(Bus, c) = IF c.low THEN line[c.wire] \cup {c.who} ELSE line[c.wire] \ {c.who}
    BY BusFields DEF Pulls
  <2>3. CASE "drv" \in line[w]
    <3>1. ~(c.wire = w /\ ~c.low /\ c.who = "drv")
      <4>1. c.wire = w /\ ~c.low /\ c.who = "drv" => c = Clr("drv", w)
        BY <2>1 DEF Call, Clr
      <4> QED BY <1>0, <1>6, <4>1 DEF Asks
    <3>2. "drv" \in line'[w]
      BY <2>1, <2>2, <2>3, <3>1
    <3> QED BY <3>2 DEF DrivePulls
  <2>4. CASE Comes(w)
    <3>1. PICK i \in DOMAIN calls : calls[i] = Set("drv", w)
      BY <2>4 DEF Comes
    <3>2. CASE i = 1
      <4>1. c.wire = w /\ c.low /\ c.who = "drv"
        BY <2>1, <3>1, <3>2 DEF Set
      <4>2. "drv" \in line'[w]
        BY <2>1, <2>2, <4>1
      <4> QED BY <4>2 DEF DrivePulls
    <3>3. CASE i # 1
      <4>1. i \in 1..Len(calls) /\ Len(calls) \in Nat /\ DOMAIN Tail(calls) = 1..(Len(calls) - 1)
            /\ \A j \in 1..(Len(calls) - 1) : Tail(calls)[j] = calls[j + 1]
        BY <1>0, <3>1
      <4>2. i - 1 \in 1..(Len(calls) - 1) /\ (i - 1) + 1 = i
        BY <3>3, <4>1
      <4>3. Tail(calls)[i - 1] = Set("drv", w) /\ i - 1 \in DOMAIN Tail(calls)
        BY <3>1, <4>1, <4>2
      <4> QED BY <1>0, <4>3 DEF DrivePulls, Comes
    <3> QED BY <3>2, <3>3
  <2> QED BY <1>6, <2>3, <2>4 DEF DrivePulls
<1> QED BY <1>4, <1>5, <1>6

(* Calls of the machine and of the drive are different calls.              *)
LEMMA Others ==
  /\ \A v, w : Set("drv", v) # Set("cpu", w) /\ Set("drv", v) # Clr("cpu", w)
  /\ \A v, w : Clr("drv", v) # Set("cpu", w) /\ Clr("drv", v) # Clr("cpu", w)
  /\ \A v, w : Set("cpu", v) # Clr("cpu", w) /\ Set("drv", v) # Clr("drv", w)
BY DEF Set, Clr

(* A call keeps what is said of the drive.                                 *)
LEMMA CallKeepsDrive ==
  ASSUME BusInv, NameInv, DriveInv, OneDevice, BusCall
  PROVE  DriveInv'
<1>0. Types /\ RowFits /\ QueueOK /\ ShownOK /\ ListenerOK /\ PullsOK /\ RoundOK
  BY DEF BusInv, NameInv, DriveInv
<1>1. drive' = drive /\ setup' = setup /\ data'["cpu"] = data["cpu"]
  BY BusCallIs DEF BusCall
<1>2. /\ pc' = pc /\ job' = job /\ todo' = todo /\ InJob' = InJob /\ Rows' = Rows
      /\ ~Orders => Over' = Over
  BY CallControl DEF Orders
<1>3. /\ QueueOK'
      /\ \A w : ~Asks(Clr("cpu", w))' /\ ~Asks(Clr("drv", w))' /\ ~Asks(Set("cpu", w))'
      /\ \A w \in {"nrfd", "ndac"} : DrivePulls(w) /\ ~Asks(Clr("drv", w)) => DrivePulls(w)'
  BY <1>0, CallOfDrive
<1>4. ShownOK'
  BY <1>0, <1>1, <1>2 DEF ShownOK, Showing
<1>5. Orders => Showing /\ (setup.drive => drive.at = "ready")
  BY <1>0 DEF Orders, Showing, RoundOK, Types
<1>6. Showing' = Showing
  BY <1>2 DEF Showing
<1>7. ListenerOK'
  BY <1>0, <1>1, <1>2, <1>5, <1>6 DEF ListenerOK
<1>8. PullsOK'
  BY <1>0, <1>1, <1>3 DEF PullsOK
<1>9. RoundOK'
  <2>1. ~Orders' /\ ~Asks(Set("cpu", "atn"))' /\ ~Asks(Clr("cpu", "atn"))'
    BY <1>3 DEF Orders
  <2>2. "cpu" \in line'["atn"] <=>
          ("cpu" \in line["atn"] /\ ~Asks(Clr("cpu", "atn"))) \/ Asks(Set("cpu", "atn"))
    BY CallMoves DEF Wires
  <2> QED BY <1>0, <1>1, <2>1, <2>2 DEF RoundOK
<1> QED BY <1>3, <1>4, <1>7, <1>8, <1>9 DEF DriveInv

(* One call, or none.                                                      *)
LEMMA Single ==
  ASSUME NEW call, calls' = <<call>>
  PROVE  /\ QueueOK'
         /\ \A c : Asks(c)' <=> c = call
         /\ \A w : Comes(w)' <=> call = Set("drv", w)
<1>1. calls' # <<>> /\ Head(calls') = call /\ Tail(calls') = <<>> /\ DOMAIN calls' = {1} /\ calls'[1] = call
  OBVIOUS
<1>2. QueueOK'
  BY <1>1 DEF QueueOK
<1>3. \A w : Comes(w)' <=> call = Set("drv", w)
  BY <1>1 DEF Comes
<1> QED BY <1>1, <1>2, <1>3 DEF Asks

(* No call is made.                                                        *)
LEMMA Nothing == calls' = <<>> => QueueOK' /\ \A c : ~Asks(c)'
BY DEF QueueOK, Asks

(* The machine moves on, and the drive sees nothing of it.                 *)
LEMMA QuietDrive ==
  ASSUME DriveInv, calls = <<>>, UNCHANGED <<line, drive, setup>>,
         \/ calls' = <<>>
         \/ \E w \in Wires : calls' = <<Set("cpu", w)>> /\ w # "atn"
         \/ \E w \in Wires : calls' = <<Clr("cpu", w)>> /\ (w = "atn" => "cpu" \notin line["atn"]),
         Orders' => drive.at \in {"absent", "ready"}, ShownOK', ListenerOK'
  PROVE  DriveInv'
<1>0. PullsOK /\ RoundOK
  BY DEF DriveInv
<1>1. /\ QueueOK'
      /\ \A w : ~Asks(Clr("drv", w))'
      /\ ~Asks(Set("cpu", "atn"))'
      /\ Asks(Clr("cpu", "atn"))' => "cpu" \notin line["atn"]
  <2>1. CASE calls' = <<>>
    BY <2>1, Nothing
  <2>2. ASSUME NEW w \in Wires, calls' = <<Set("cpu", w)>>, w # "atn"
        PROVE  QueueOK' /\ (\A v : ~Asks(Clr("drv", v))') /\ ~Asks(Set("cpu", "atn"))'
               /\ ~Asks(Clr("cpu", "atn"))'
    BY <2>2, Single, Others, Distinct DEF Wires
  <2>3. ASSUME NEW w \in Wires, calls' = <<Clr("cpu", w)>>, w = "atn" => "cpu" \notin line["atn"]
        PROVE  QueueOK' /\ (\A v : ~Asks(Clr("drv", v))') /\ ~Asks(Set("cpu", "atn"))'
               /\ (Asks(Clr("cpu", "atn"))' => "cpu" \notin line["atn"])
    BY <2>3, Single, Others, Distinct DEF Wires
  <2> QED BY <2>1, <2>2, <2>3
<1>2. ~Asks(Set("cpu", "atn")) /\ ~Asks(Clr("cpu", "atn"))
  BY DEF Asks
<1>3. \A w : DrivePulls(w) => DrivePulls(w)'
  BY DEF DrivePulls, Comes
<1>4. PullsOK'
  BY <1>0, <1>1, <1>3 DEF PullsOK
<1>5. RoundOK'
  BY <1>0, <1>1, <1>2 DEF RoundOK
<1> QED BY <1>1, <1>4, <1>5 DEF DriveInv

(* ATN falls, and the drive's hardware pulls NRFD and NDAC.                *)
LEMMA AtnPulledForDrive ==
  ASSUME Types, calls' = <<Set("cpu", "atn")>> \o AtnFallsForDrive, drive' = DriveAfterAtn("atn"),
         ~Showing', ListenerOK'
  PROVE  DriveInv'
<1>1. \A c : Asks(c)' <=> c = Set("cpu", "atn")
  BY FirstOfAtn
<1>2. \A w : ~Asks(Clr("drv", w))' /\ ~Asks(Clr("cpu", w))'
  BY <1>1, Others
<1>3. ~Orders' /\ ShownOK'
  BY DEF Orders, ShownOK, Showing
<1>4. QueueOK'
  <2>1. PICK more \in Seq({Set("drv", "nrfd"), Set("drv", "ndac")}) : calls' = <<Set("cpu", "atn")>> \o more
    BY DriveAndAtn
  <2>2. Tail(<<Set("cpu", "atn")>> \o more) = more
    OBVIOUS
  <2> QED BY <1>2, <2>1, <2>2 DEF QueueOK
<1>5. CASE drive.at = "absent"
  <2>1. drive'.at = "absent"
    BY <1>5 DEF DriveAfterAtn
  <2>2. PullsOK' /\ RoundOK'
    BY <1>2, <1>3, <2>1 DEF PullsOK, RoundOK
  <2> QED BY <1>3, <1>4, <2>2 DEF DriveInv
<1>6. CASE drive.at # "absent"
  <2>1. drive'.at = "atn"
    BY <1>6 DEF DriveAfterAtn, Types
  <2>2. \A w \in {"nrfd", "ndac"} : DrivePulls(w)'
    <3>1. calls' = <<Set("cpu", "atn")>> \o <<Set("drv", "nrfd"), Set("drv", "ndac")>>
      BY <1>6 DEF AtnFallsForDrive
    <3>2. 2 \in DOMAIN calls' /\ 3 \in DOMAIN calls' /\ calls'[2] = Set("drv", "nrfd")
          /\ calls'[3] = Set("drv", "ndac")
      <4> DEFINE s(x, y, z) == <<x>> \o <<y, z>>
      <4>1. \A x, y, z : 2 \in DOMAIN s(x, y, z) /\ 3 \in DOMAIN s(x, y, z) /\ s(x, y, z)[2] = y /\ s(x, y, z)[3] = z
        OBVIOUS
      <4>2. calls' = s(Set("cpu", "atn"), Set("drv", "nrfd"), Set("drv", "ndac"))
        BY <3>1
      <4> HIDE DEF s
      <4> QED BY <4>1, <4>2
    <3> QED BY <3>2 DEF DrivePulls, Comes
  <2>3. PullsOK' /\ RoundOK'
    BY <1>1, <1>2, <1>3, <2>1, <2>2 DEF PullsOK, RoundOK
  <2> QED BY <1>3, <1>4, <2>3 DEF DriveInv
<1> QED BY <1>5, <1>6

(* ATN rises, and the drive's hardware pulls NRFD.                         *)
LEMMA AtnReleasedForDrive ==
  ASSUME Types, calls' = <<Clr("cpu", "atn")>> \o AtnRisesForDrive, drive' = DriveAfterAtn("leaving"),
         ~Showing', ListenerOK'
  PROVE  DriveInv'
<1>1. \A c : Asks(c)' <=> c = Clr("cpu", "atn")
  BY FirstOfAtn
<1>2. (\A w : ~Asks(Clr("drv", w))' /\ ~Asks(Set("cpu", w))') /\ ~Asks(Clr("cpu", "nrfd"))'
  BY <1>1, Others, Distinct DEF Wires
<1>3. ~Orders' /\ ShownOK'
  BY DEF Orders, ShownOK, Showing
<1>4. QueueOK'
  <2>1. PICK more \in Seq({Set("drv", "nrfd"), Set("drv", "ndac")}) : calls' = <<Clr("cpu", "atn")>> \o more
    BY DriveAndAtn
  <2>2. Tail(<<Clr("cpu", "atn")>> \o more) = more
    OBVIOUS
  <2> QED BY <1>2, <2>1, <2>2 DEF QueueOK
<1>5. CASE drive.at \in {"absent", "idle"}
  <2>1. drive'.at = drive.at
    BY <1>5 DEF DriveAfterAtn
  <2>2. PullsOK' /\ RoundOK'
    BY <1>1, <1>2, <1>3, <1>5, <2>1 DEF PullsOK, RoundOK
  <2> QED BY <1>3, <1>4, <2>2 DEF DriveInv
<1>6. CASE drive.at \notin {"absent", "idle"}
  <2>1. drive'.at = "leaving"
    BY <1>6 DEF DriveAfterAtn, Types
  <2>2. DrivePulls("nrfd")'
    <3>1. calls' = <<Clr("cpu", "atn")>> \o <<Set("drv", "nrfd")>>
      BY <1>6 DEF AtnRisesForDrive
    <3>2. 2 \in DOMAIN calls' /\ calls'[2] = Set("drv", "nrfd")
      BY <3>1
    <3> QED BY <3>2 DEF DrivePulls, Comes
  <2>3. PullsOK' /\ RoundOK'
    BY <1>1, <1>2, <1>3, <2>1, <2>2 DEF PullsOK, RoundOK
  <2> QED BY <1>3, <1>4, <2>3 DEF DriveInv
<1> QED BY <1>5, <1>6

(* The drive's CPU makes a call: of the job nothing changes.               *)
LEMMA DriveMoves ==
  ASSUME BusInv, ShownOK, calls = <<>>, NEW call \in {Set("drv", w) : w \in {"nrfd", "ndac"}}
                                       \cup {Clr("drv", w) : w \in {"nrfd", "ndac"}},
         Drv(<<call>>)
  PROVE  /\ UNCHANGED <<line, data, setup, job>>
         /\ Over' = Over /\ Showing' = Showing /\ InJob' = InJob
         /\ QueueOK' /\ ShownOK'
         /\ \A c : ~Asks(c) /\ (Asks(c)' <=> c = call)
         /\ ~Orders' /\ ~Asks(Set("cpu", "atn"))' /\ ~Asks(Clr("cpu", "atn"))'
         /\ \A w : DrivePulls(w) <=> "drv" \in line[w]
         /\ \A w : DrivePulls(w)' <=> "drv" \in line[w] \/ call = Set("drv", w)
         /\ "cpu" \in line["atn"] <=> Pulled(Bus, "atn")
<1>1. /\ UNCHANGED <<line, data, setup, job, pc, todo, after>> /\ calls' = <<call>>
  BY DEF Drv, wires, device, file
<1>2. QueueOK' /\ (\A c : Asks(c)' <=> c = call) /\ (\A w : Comes(w)' <=> call = Set("drv", w))
  BY <1>1, Single
<1>3. \A c : ~Asks(c)
  BY DEF Asks
<1>4. \A w : ~Asks(Set("cpu", w))' /\ ~Asks(Clr("cpu", w))'
  BY <1>2, Others
<1>5. Left' = Left /\ Commanded' = Commanded /\ InJob' = InJob /\ Showing' = Showing
  BY <1>1, <1>3, <1>4 DEF Left, Commanded, InJob, Showing
<1>6. Over' = Over
  BY <1>1, <1>5 DEF Over
<1>7. Rows' = Rows
  BY <1>1 DEF Rows, Who, Tell, Un, Role, Told
<1>8. ShownOK' /\ ~Orders'
  BY <1>1, <1>4, <1>5, <1>7 DEF ShownOK, Orders
<1>9. \A w : ~Comes(w)
  BY DEF Comes
<1> QED BY <1>1, <1>2, <1>3, <1>4, <1>5, <1>6, <1>8, <1>9, Returned DEF DrivePulls

(* What the drive hears is the command that the machine shows.             *)
LEMMA DriveHears ==
  ASSUME BusInv, NameInv, DriveInv, OneDevice, calls = <<>>, drive.at = "ready"
  PROVE  /\ Heard => setup.drive /\ InJob /\ job.kind = "write" /\ job.device \in Real
         /\ Over => ~Heard
         /\ ~Pulled(Bus, "atn") => (Heard <=> drive.listens)
<1>0. Types /\ JobFits /\ RowFits /\ ShownOK /\ ListenerOK
  BY DEF BusInv, NameInv, DriveInv
<1> DEFINE b == data["cpu"]
<1>1. setup.drive
  BY <1>0 DEF Types
<1>2. CASE ~Pulled(Bus, "atn")
  <2>1. Heard = drive.listens
    BY <1>2 DEF Heard
  <2>2. Over => FALSE
    <3>1. Commanded => "cpu" \in line["atn"]
      BY Returned DEF Commanding, Commanded
    <3> QED BY <1>2, <3>1, Returned DEF Over
  <2> QED BY <1>0, <2>1, <2>2 DEF ListenerOK
<1>3. CASE Pulled(Bus, "atn") /\ b = Idle
  <2>1. Heard = drive.listens
    BY <1>3 DEF Heard
  <2>2. Over => ~drive.listens
    <3>1. Showing => b \in CommandByte
      <4>1. Showing => todo \in Rows /\ b = Head(todo) /\ todo # <<>>
        BY <1>0 DEF ShownOK, Showing, BusInv, CommandsOK
      <4>2. Showing => Commanded /\ pc # "attention" /\ pc # "command"
        BY DEF Showing, Commanded
      <4>3. Showing => Fits(Tail(todo))
        BY Returned DEF Showing, BusInv, CommandsOK
      <4>4. Showing => InJob
        BY <4>2, Places
      <4>5. Showing => job.kind \in {"open", "close", "read", "write"} /\ job.device \in Device
                       /\ after \in {"end", Onward}
        BY <1>0, <4>2, <4>4 DEF JobFits, RowFits
      <4>6. Showing => (Addressing(b) /\ b = Who) \/ b = Tell \/ b = Un
        BY <4>1, <4>5, RowStep
      <4>7. Showing => Who \in CommandByte /\ Tell \in CommandByte /\ Un \in CommandByte
        BY <4>5 DEF Who, Tell, Un, Role, Told, CommandByte
      <4> QED BY <4>6, <4>7
    <3>2. ~Showing
      BY <1>3, <3>1, IdleAssumption
    <3> QED BY <1>0, <3>2 DEF ListenerOK
  <2> QED BY <1>0, <1>3, <2>1, <2>2 DEF ListenerOK
<1>4. CASE Pulled(Bus, "atn") /\ b # Idle
  <2>1. Showing
    <3>1. "cpu" \in line["atn"]
      BY <1>4, Returned
    <3>2. pc \in {"command dav", "send dav"}
      BY <1>4 DEF BusInv, BytesOK
    <3>3. Commanding \/ ToRelease("atn")
      BY <3>1, Returned
    <3>4. pc # "send dav"
      BY <3>3 DEF Commanding, ToRelease
    <3> QED BY <3>2, <3>4 DEF Showing
  <2>2. todo \in Rows /\ b = Head(todo) /\ todo # <<>>
    BY <1>0, <2>1 DEF ShownOK, Showing, BusInv, CommandsOK
  <2>3. Commanded /\ Left = Tail(todo)
    BY <2>1, Returned DEF Showing, Commanded, Left
  <2>4. InJob
    BY <2>3, Places
  <2>5. job.kind \in {"open", "close", "read", "write"} /\ after \in {"end", Onward}
    BY <1>0, <2>3, <2>4 DEF JobFits, RowFits
  <2>6. /\ Addressing(b) => b = Who /\ Tail(todo) # <<>>
        /\ Ending(b) => b = Un
        /\ b.kind \in {"second", "open", "close"} => b = Tell /\ (job.kind # "close" => after # "end")
        /\ Addressing(b) \/ b.kind \in {"second", "open", "close"} \/ Ending(b)
    BY <2>2, <2>5, RowStep
  <2>7. CASE b.kind = "listen" /\ b.device \in Real
    <3>1. b = Who /\ Tail(todo) # <<>>
      BY <2>6, <2>7 DEF Addressing
    <3>2. job.kind # "read" /\ job.device \in Real
      BY <2>7, <3>1 DEF Who, Role
    <3>3. job.kind = "write"
      BY <1>0, <2>4, <3>2, TheDevice, <2>5 DEF JobFits
    <3> QED BY <1>1, <1>4, <2>3, <2>4, <3>1, <3>2, <3>3 DEF Over
  <2>8. CASE ~(b.kind = "listen" /\ b.device \in Real)
    <3>1. Heard = (drive.listens /\ b.kind # "unlisten")
      BY <1>4, <2>8 DEF Heard
    <3>2. ASSUME Over, drive.listens
          PROVE  b.kind = "unlisten"
      <4>1. job.kind = "write" /\ after = "end" /\ Tail(todo) = <<>>
        BY <1>0, <2>3, <3>2 DEF ListenerOK, Over
      <4>2. b = Un
        BY <2>6, <4>1
      <4> QED BY <4>1, <4>2 DEF Un
    <3> QED BY <1>0, <1>4, <3>1, <3>2 DEF ListenerOK
  <2> QED BY <2>7, <2>8
<1> QED BY <1>2, <1>3, <1>4

(* The drive's CPU keeps what is said of it.                               *)
LEMMA DriveKeepsDrive ==
  ASSUME BusInv, NameInv, DriveInv, OneDevice, DriveStep
  PROVE  DriveInv'
<1>0. /\ Types /\ ShownOK /\ ListenerOK /\ PullsOK /\ RoundOK /\ calls = <<>>
      /\ drive \in [at : PlaceOfDrive, listens : BOOLEAN]
  BY DEF BusInv, DriveInv, DriveStep, Types
<1> DEFINE Calls == {Set("drv", w) : w \in {"nrfd", "ndac"}} \cup {Clr("drv", w) : w \in {"nrfd", "ndac"}}
<1>1. ASSUME NEW call \in Calls, Drv(<<call>>)
      PROVE  /\ setup' = setup /\ job' = job /\ line' = line
             /\ Over' = Over /\ Showing' = Showing /\ InJob' = InJob
             /\ QueueOK' /\ ShownOK'
             /\ \A c : ~Asks(c) /\ (Asks(c)' <=> c = call)
             /\ ~Orders' /\ ~Asks(Set("cpu", "atn"))' /\ ~Asks(Clr("cpu", "atn"))'
             /\ \A w : DrivePulls(w) <=> "drv" \in line[w]
             /\ \A w : DrivePulls(w)' <=> "drv" \in line[w] \/ call = Set("drv", w)
             /\ "cpu" \in line["atn"] <=> Pulled(Bus, "atn")
  BY <1>0, <1>1, DriveMoves
<1>2. /\ \A w \in {"nrfd", "ndac"} : Set("drv", w) \in Calls /\ Clr("drv", w) \in Calls
      /\ \A v, w : Set("drv", v) # Clr("drv", w)
      /\ Clr("drv", "nrfd") # Clr("drv", "ndac")
  BY DEF Set, Clr
<1> HIDE DEF Calls
<1>3. CASE DriveAnswers
  <2>1. /\ drive.at = "atn" /\ Drv(<<Clr("drv", "nrfd")>>) /\ Pulled(Bus, "atn")
        /\ drive'.at = "ready" /\ drive'.listens = drive.listens
    BY <1>0, <1>3 DEF DriveAnswers
  <2>2. ListenerOK'
    BY <1>0, <1>1, <1>2, <2>1 DEF ListenerOK
  <2>3. PullsOK'
    BY <1>0, <1>1, <1>2, <2>1 DEF PullsOK
  <2>4. RoundOK'
    BY <1>1, <1>2, <2>1 DEF RoundOK
  <2> QED BY <1>1, <1>2, <2>1, <2>2, <2>3, <2>4 DEF DriveInv
<1>4. CASE DriveBusy
  <2>1. /\ drive.at = "ready" /\ Drv(<<Set("drv", "nrfd")>>) /\ (Pulled(Bus, "atn") \/ drive.listens)
        /\ drive'.at = "busy" /\ drive'.listens = Heard
    BY <1>0, <1>4 DEF DriveBusy
  <2>a. drive'.listens <=> Heard
    BY <2>1
  <2>2. ListenerOK'
    <3>1. /\ Heard => setup.drive /\ InJob /\ job.kind = "write" /\ job.device \in Real
          /\ Over => ~Heard
      BY <1>0, <2>1, DriveHears
    <3> QED BY <1>1, <1>2, <2>1, <2>a, <3>1 DEF ListenerOK
  <2>3. PullsOK'
    BY <1>0, <1>1, <1>2, <2>1 DEF PullsOK
  <2>4. RoundOK'
    <3>1. "cpu" \notin line["atn"] => Heard
      BY <1>0, <1>1, <1>2, <2>1, DriveHears
    <3> QED BY <1>1, <1>2, <2>1, <2>a, <3>1 DEF RoundOK
  <2> QED BY <1>1, <1>2, <2>1, <2>2, <2>3, <2>4 DEF DriveInv
<1>5. CASE DriveTakes
  <2>1. /\ drive.at = "busy" /\ Drv(<<Clr("drv", "ndac")>>)
        /\ drive'.at = "taken" /\ drive'.listens = drive.listens
    BY <1>0, <1>5 DEF DriveTakes
  <2>2. ListenerOK'
    BY <1>0, <1>1, <1>2, <2>1 DEF ListenerOK
  <2>3. PullsOK'
    BY <1>0, <1>1, <1>2, <2>1 DEF PullsOK
  <2>4. RoundOK'
    BY <1>0, <1>1, <1>2, <2>1 DEF RoundOK
  <2> QED BY <1>1, <1>2, <2>1, <2>2, <2>3, <2>4 DEF DriveInv
<1>6. CASE drive.at = "taken" /\ Drv(<<Set("drv", "ndac")>>) /\ drive' = [drive EXCEPT !.at = "again"]
  <2>1. drive'.at = "again" /\ drive'.listens = drive.listens
    BY <1>0, <1>6
  <2>2. ListenerOK'
    BY <1>0, <1>1, <1>2, <1>6, <2>1 DEF ListenerOK
  <2>3. PullsOK'
    BY <1>0, <1>1, <1>2, <1>6, <2>1 DEF PullsOK
  <2>4. RoundOK'
    BY <1>0, <1>1, <1>2, <1>6, <2>1 DEF RoundOK
  <2> QED BY <1>1, <1>2, <1>6, <2>1, <2>2, <2>3, <2>4 DEF DriveInv
<1>7. CASE drive.at = "again" /\ Drv(<<Clr("drv", "nrfd")>>) /\ drive' = [drive EXCEPT !.at = "ready"]
  <2>1. drive'.at = "ready" /\ drive'.listens = drive.listens
    BY <1>0, <1>7
  <2>2. ListenerOK'
    BY <1>0, <1>1, <1>2, <1>7, <2>1 DEF ListenerOK
  <2>3. PullsOK'
    BY <1>0, <1>1, <1>2, <1>7, <2>1 DEF PullsOK
  <2>4. RoundOK'
    BY <1>0, <1>1, <1>2, <1>7, <2>1 DEF RoundOK
  <2> QED BY <1>1, <1>2, <1>7, <2>1, <2>2, <2>3, <2>4 DEF DriveInv
<1>8. CASE DriveLeaves
  <2>0. drive.at = "leaving"
    BY <1>8 DEF DriveLeaves
  <2>1. "cpu" \notin line["atn"]
    BY <1>0, <2>0 DEF RoundOK, Asks
  <2>2. CASE drive.listens
    <3>1. Drv(<<Set("drv", "ndac")>>) /\ drive'.at = "again" /\ drive'.listens = drive.listens
      BY <1>0, <1>8, <2>2 DEF DriveLeaves
    <3>2. ListenerOK'
      BY <1>0, <1>1, <1>2, <2>0, <3>1 DEF ListenerOK
    <3>3. PullsOK'
      BY <1>0, <1>1, <1>2, <2>0, <2>2, <3>1 DEF PullsOK
    <3>4. RoundOK'
      BY <1>1, <1>2, <2>2, <3>1 DEF RoundOK
    <3> QED BY <1>1, <1>2, <3>1, <3>2, <3>3, <3>4 DEF DriveInv
  <2>3. CASE ~drive.listens
    <3>1. PICK w \in {"nrfd", "ndac"} :
            /\ Drv(<<Clr("drv", w)>>)
            /\ drive'.at \in {"leaving", "idle"} /\ drive'.listens = drive.listens
      BY <1>0, <1>8, <2>3 DEF DriveLeaves
    <3>2. ListenerOK'
      BY <1>1, <1>2, <2>3, <3>1 DEF ListenerOK
    <3>3. PullsOK'
      BY <1>1, <1>2, <2>3, <3>1 DEF PullsOK
    <3>4. RoundOK'
      BY <1>1, <1>2, <2>1, <3>1 DEF RoundOK
    <3> QED BY <1>1, <1>2, <3>1, <3>2, <3>3, <3>4 DEF DriveInv
  <2> QED BY <2>2, <2>3
<1> QED BY <1>3, <1>4, <1>5, <1>6, <1>7, <1>8 DEF DriveStep, DriveAgain

(* A drive that has been told of nothing by the machine's step.            *)
LEMMA ListenerStays ==
  ASSUME ListenerOK, drive'.listens = drive.listens, setup' = setup,
         drive.listens => InJob' /\ job'.kind = job.kind /\ job'.device = job.device /\ ~Over'
  PROVE  ListenerOK'
BY DEF ListenerOK

(* A change of ATN does not tell the drive whether to listen.              *)
LEMMA SameListener ==
  ASSUME Types, NEW at
  PROVE  DriveAfterAtn(at).listens = drive.listens
BY DEF DriveAfterAtn, Types

(* The commands, as the drive sees them.                                   *)
LEMMA CommandingDrive ==
  ASSUME BusInv, NameInv, DriveInv, calls = <<>>, WatchWires \/ SendCommand \/ CommandTaken
  PROVE  DriveInv'
<1>0. /\ Types /\ RowFits /\ ShownOK /\ ListenerOK /\ PullsOK /\ RoundOK
      /\ \A call : ~Asks(call)
  BY Returned DEF BusInv, NameInv, DriveInv
<1>1. /\ line' = line /\ drive' = drive /\ setup' = setup /\ job' = job /\ after' = after
      /\ Commanded /\ Commanded'
  BY DEF WatchWires, SendCommand, CommandTaken, Cpu, Quiet, Commanded
<1>2. InJob /\ InJob'
  BY <1>1, Places, PlacesNext
<1>3. CASE WatchWires
  <2>1. /\ ~Showing /\ ~Showing' /\ todo' = todo
        /\ calls' = <<>> \/ \E w \in {"nrfd", "ndac"} : calls' = <<Clr("cpu", w)>>
    BY <1>3 DEF WatchWires, Cpu, Showing
  <2>2. Left' = Left
    BY <2>1 DEF Left, Showing
  <2>3. ~(drive.listens /\ Over')
    BY <1>0, <1>1, <2>1, <2>2 DEF ListenerOK, Over
  <2>4. ListenerOK'
    BY <1>0, <1>1, <1>2, <2>3, ListenerStays
  <2>5. ShownOK' /\ ~Orders'
    BY <2>1 DEF ShownOK, Orders, Showing
  <2>6. \/ calls' = <<>>
        \/ \E w \in Wires : calls' = <<Clr("cpu", w)>> /\ (w = "atn" => "cpu" \notin line["atn"])
    BY <2>1 DEF Wires
  <2> QED BY <1>1, <2>4, <2>5, <2>6, QuietDrive
<1>4. CASE SendCommand
  <2>1. /\ pc = "command" /\ ~Showing /\ Showing' /\ todo' = todo /\ todo # <<>> /\ Shows(Head(todo))
        /\ calls' = <<Set("cpu", "dav")>> /\ ~Pulled(Bus, "nrfd") /\ UNCHANGED device
    BY <1>4 DEF SendCommand, Cpu, Showing
  <2>2. Left = todo
    BY <2>1 DEF Left, Showing
  <2>3. todo \in Rows /\ Rows' = Rows
    BY <1>0, <1>1, <2>2 DEF RowFits, Rows, Who, Tell, Un, Role, Told
  <2>4. \A c : Asks(c)' <=> c = Set("cpu", "dav")
    BY <2>1, Single
  <2>5. Left' = todo
    BY <2>1, <2>4 DEF Left
  <2>6. ListenerOK'
    BY <1>0, <1>1, <1>2, <2>1, <2>5, ListenerStays DEF Over
  <2>7. data'["cpu"] = Head(todo)
    <3>1. Head(todo) \in CommandByte
      <4>1. Fits(todo)
        BY <2>1 DEF BusInv, CommandsOK
      <4> QED BY <2>1, <4>1, HeadAndTail DEF Fits, FitsWith
    <3> QED BY <1>0, <1>1, <2>1, <3>1, ShowsIs
  <2>8. ShownOK'
    BY <2>1, <2>3, <2>7 DEF ShownOK
  <2>9. drive.at \in {"absent", "ready"}
    <3>1. "cpu" \in line["atn"]
      BY <2>1, Returned DEF Commanding
    <3>2. ~DrivePulls("nrfd")
      <4>1. ~Comes("nrfd")
        BY DEF Comes
      <4> QED BY <2>1, <4>1, BusFields DEF DrivePulls, Pulled
    <3>3. drive.at \in PlaceOfDrive
      BY <1>0 DEF Types
    <3> QED BY <1>0, <3>1, <3>2, <3>3 DEF PullsOK, RoundOK, PlaceOfDrive
  <2>10. "dav" \in Wires /\ "dav" # "atn"
    BY DEF Wires
  <2> QED BY <1>1, <2>1, <2>6, <2>8, <2>9, <2>10, QuietDrive
<1>5. CASE CommandTaken
  <2>1. /\ pc = "command dav" /\ Showing /\ ~Showing' /\ pc' = "command" /\ todo' = Tail(todo)
        /\ calls' = <<Clr("cpu", "dav")>> /\ ~Pulled(Bus, "ndac")
    BY <1>5 DEF CommandTaken, Cpu, Showing
  <2>2. Left = todo'
    BY <1>0, <2>1 DEF Left
  <2>3. Left' = todo'
    BY <2>1 DEF Left
  <2>4. ~(drive.listens /\ Over)
    <3>1. ~DrivePulls("ndac")
      <4>1. ~Comes("ndac")
        BY DEF Comes
      <4> QED BY <2>1, <4>1, BusFields DEF DrivePulls, Pulled
    <3>2. drive.at # "ready"
      BY <1>0, <3>1 DEF PullsOK
    <3> QED BY <1>0, <3>2 DEF ListenerOK
  <2>5. ListenerOK'
    BY <1>0, <1>1, <1>2, <2>2, <2>3, <2>4, ListenerStays DEF Over
  <2>6. ShownOK' /\ ~Orders'
    BY <2>1 DEF ShownOK, Orders, Showing
  <2>7. "dav" \in Wires /\ "dav" # "atn"
    BY DEF Wires
  <2> QED BY <1>1, <2>1, <2>5, <2>6, <2>7, QuietDrive
<1> QED BY <1>3, <1>4, <1>5

(* The drive, while the machine sends or reads.                            *)
LEMMA TransferDrive ==
  ASSUME BusInv, DriveInv, calls = <<>>,
         SendByte \/ ByteTaken \/ Ready \/ TakeByte \/ Accept \/ Accepted
  PROVE  DriveInv'
<1>0. Types /\ ListenerOK
  BY DEF BusInv, DriveInv
<1>1. /\ line' = line /\ drive' = drive /\ setup' = setup /\ job' = job
      /\ pc' \in {"send dav", "send", "receive dav", "receive taken", "receive accepted", "receive end",
                  "receive"}
  BY DEF SendByte, ByteTaken, Ready, TakeByte, Accept, Accepted, Cpu, Quiet
<1>2. InJob' /\ ~Commanded' /\ ~Showing' /\ ~Orders'
  BY <1>1 DEF InJob, Commanded, Showing, Orders
<1>3. ~Over'
  BY <1>2, PlacesNext
<1>4. ListenerOK'
  BY <1>0, <1>1, <1>2, <1>3, ListenerStays
<1>5. ShownOK'
  BY <1>2 DEF ShownOK
<1>6. \/ \E w \in {"dav", "nrfd", "ndac"} : calls' = <<Set("cpu", w)>>
      \/ \E w \in {"dav", "nrfd", "ndac"} : calls' = <<Clr("cpu", w)>>
  <2>1. CASE SendByte \/ ByteTaken
    BY <2>1 DEF SendByte, ByteTaken, Cpu
  <2>2. CASE Ready \/ TakeByte \/ Accept
    BY <2>2 DEF Ready, TakeByte, Accept, Cpu
  <2>3. CASE Accepted
    BY <2>3 DEF Accepted, Cpu
  <2> QED BY <2>1, <2>2, <2>3
<1>7. \A w \in {"dav", "nrfd", "ndac"} : w \in Wires /\ w # "atn"
  BY DEF Wires
<1> QED BY <1>1, <1>2, <1>4, <1>5, <1>6, <1>7, QuietDrive

(* The machine goes on after the commands, with or without ATN.            *)
LEMMA OnwardDrive ==
  ASSUME BusInv, DriveInv, calls = <<>>, StartSending \/ StartListening \/ Turn
  PROVE  DriveInv'
<1>0. Types /\ ListenerOK
  BY DEF BusInv, DriveInv
<1>1. /\ setup' = setup /\ job' = job /\ pc' \in {"send", "turn", "receive"} /\ line' = line
      /\ drive'.listens = drive.listens
  BY <1>0, SameListener DEF StartSending, StartListening, Turn, ReleaseAtn, Cpu
<1>2. InJob' /\ ~Commanded' /\ ~Showing' /\ ~Orders'
  BY <1>1 DEF InJob, Commanded, Showing, Orders
<1>3. ~Over'
  BY <1>2, PlacesNext
<1>4. ListenerOK'
  BY <1>0, <1>1, <1>2, <1>3, ListenerStays
<1>5. ShownOK'
  BY <1>2 DEF ShownOK
<1>6. \/ drive' = DriveAfterAtn("leaving") /\ calls' = <<Clr("cpu", "atn")>> \o AtnRisesForDrive
      \/ drive' = drive /\ (calls' = <<>> \/ \E w \in {"nrfd", "ndac"} : calls' = <<Set("cpu", w)>>)
  <2>1. CASE StartSending \/ StartListening
    BY <2>1 DEF StartSending, StartListening, ReleaseAtn, Cpu
  <2>2. CASE Turn
    <3>1. \A w \in ToPull : w \in {"nrfd", "ndac"}
      BY <1>0 DEF ToPull, Types, Setup
    <3> QED BY <2>2, <3>1 DEF Turn, Cpu, ReleaseAtn
  <2> QED BY <2>1, <2>2
<1>7. \A w \in {"nrfd", "ndac"} : w \in Wires /\ w # "atn"
  BY DEF Wires
<1>8. CASE drive' = DriveAfterAtn("leaving") /\ calls' = <<Clr("cpu", "atn")>> \o AtnRisesForDrive
  BY <1>0, <1>2, <1>4, <1>8, AtnReleasedForDrive
<1>9. CASE drive' = drive /\ (calls' = <<>> \/ \E w \in {"nrfd", "ndac"} : calls' = <<Set("cpu", w)>>)
  BY <1>1, <1>2, <1>4, <1>5, <1>7, <1>9, QuietDrive
<1> QED BY <1>6, <1>8, <1>9

(* The job is over, and the drive listens no more.                         *)
LEMMA EndJobDrive ==
  ASSUME BusInv, DriveInv, calls = <<>>, EndJob
  PROVE  DriveInv'
<1>0. Types /\ ListenerOK
  BY DEF BusInv, DriveInv
<1>1. /\ setup' = setup /\ pc' = "idle" /\ drive' = DriveAfterAtn("leaving")
      /\ calls' = <<Clr("cpu", "atn")>> \o AtnRisesForDrive
      /\ pc = "command" /\ todo = <<>> /\ after = "end"
  BY DEF EndJob, ReleaseAtn, Cpu
<1>2. Over /\ ~Showing /\ ~Showing'
  BY <1>1 DEF Over, Commanded, Left, Showing
<1>3. ~drive'.listens
  BY <1>0, <1>1, <1>2, SameListener DEF ListenerOK
<1>4. ListenerOK'
  BY <1>3 DEF ListenerOK
<1> QED BY <1>0, <1>1, <1>2, <1>4, AtnReleasedForDrive

(* ATN falls for the commands that begin or end a job.                     *)
LEMMA AttentionDrive ==
  ASSUME BusInv, DriveInv, calls = <<>>,
         \/ StopSending \/ NotPresent \/ StopReceiving \/ Timeout
         \/ \E kind \in {"open", "close", "read", "write"}, d \in Device : Start(kind, d)
  PROVE  DriveInv'
<1>0. Types /\ ListenerOK
  BY DEF BusInv, DriveInv
<1>1. /\ setup' = setup /\ pc' = "attention" /\ drive' = DriveAfterAtn("atn") /\ todo' # <<>>
      /\ calls' = <<Set("cpu", "atn")>> \o AtnFallsForDrive
      /\ pc = "idle" \/ (InJob /\ job' = job)
  <2>1. CASE StopSending \/ NotPresent \/ StopReceiving \/ Timeout
    <3>1. /\ PullAtn(<<[kind |-> "unlisten"]>>, "end") \/ PullAtn(<<[kind |-> "untalk"]>>, "end")
          /\ setup' = setup /\ job' = job
          /\ pc \in {"send", "receive", "receive dav", "receive taken", "receive end"}
      BY <2>1 DEF StopSending, NotPresent, StopReceiving, Timeout
    <3>2. InJob
      BY <3>1 DEF InJob
    <3>3. \A x : <<x>> # <<>>
      OBVIOUS
    <3>4. /\ pc' = "attention" /\ drive' = DriveAfterAtn("atn") /\ todo' # <<>>
          /\ calls' = <<Set("cpu", "atn")>> \o AtnFallsForDrive
      BY <3>1, <3>3 DEF PullAtn, Cpu
    <3> QED BY <3>1, <3>2, <3>4
  <2>2. ASSUME NEW kind \in {"open", "close", "read", "write"}, NEW d \in Device, Start(kind, d)
        PROVE  /\ setup' = setup /\ pc' = "attention" /\ drive' = DriveAfterAtn("atn") /\ todo' # <<>>
               /\ calls' = <<Set("cpu", "atn")>> \o AtnFallsForDrive /\ pc = "idle"
    <3>1. Commands(kind, d) # <<>>
      BY DEF Commands
    <3> QED BY <2>2, <3>1 DEF Start, PullAtn, Cpu
  <2> QED BY <2>1, <2>2
<1>2. InJob' /\ ~Showing'
  BY <1>1 DEF InJob, Showing
<1>3. ~Over'
  BY <1>1, <1>2 DEF Over, Left, Showing
<1>4. pc = "idle" => ~drive.listens
  BY <1>0 DEF ListenerOK, InJob
<1>5. ListenerOK'
  BY <1>0, <1>1, <1>2, <1>3, <1>4, SameListener, ListenerStays
<1> QED BY <1>0, <1>1, <1>2, <1>5, AtnPulledForDrive

(* A reset, where there is no drive.                                       *)
LEMMA ResetDrive ==
  ASSUME BusInv, DriveInv, calls = <<>>, Reset \/ Release
  PROVE  DriveInv'
<1>0. Types /\ ListenerOK /\ WiresOK
  BY DEF BusInv, DriveInv
<1>1. setup'.drive = setup.drive /\ ~setup.drive
  <2>1. CASE Reset
    <3>1. setup.resets > 0 /\ setup' = [setup EXCEPT !.resets = @ - 1]
      BY <2>1 DEF Reset
    <3>2. setup \in Setup /\ (setup.drive => setup.resets = 0)
      BY <1>0 DEF Types
    <3>3. setup'.drive = setup.drive
      BY <3>1, <3>2 DEF Setup
    <3> QED BY <3>1, <3>2, <3>3
  <2>2. CASE Release
    BY <1>0, <2>2 DEF Release, WiresOK
  <2> QED BY <2>1, <2>2
<1>2. drive.at = "absent" /\ ~drive.listens
  BY <1>0, <1>1 DEF Types, ListenerOK
<1>3. drive' = drive /\ pc' \in {"reset", "idle"}
      /\ (calls' = <<>> \/ calls' = <<Clr("cpu", "atn")>> \o <<>> \/ calls' = <<Clr("cpu", Head(todo))>>)
  <2>1. AtnRisesForDrive = <<>> /\ DriveAfterAtn("leaving") = drive
    BY <1>2 DEF AtnRisesForDrive, DriveAfterAtn
  <2> QED BY <2>1 DEF Reset, Release, ReleaseAtn, Cpu
<1>4. PICK w : calls' = <<>> \/ calls' = <<Clr("cpu", w)>>
  <2>1. <<Clr("cpu", "atn")>> \o <<>> = <<Clr("cpu", "atn")>>
    OBVIOUS
  <2> QED BY <1>3, <2>1
<1>5. QueueOK' /\ \A v : ~Asks(Set("cpu", v))' /\ ~Asks(Clr("drv", v))'
  BY <1>4, Nothing, Single, Others
<1>6. ~Showing' /\ ~Orders'
  BY <1>3 DEF Showing, Orders
<1>7. ShownOK' /\ ListenerOK' /\ PullsOK' /\ RoundOK'
  BY <1>2, <1>3, <1>5, <1>6 DEF ShownOK, ListenerOK, PullsOK, RoundOK
<1> QED BY <1>5, <1>7 DEF DriveInv

(* Nothing happens.                                                        *)
LEMMA StutterDrive == ASSUME DriveInv, UNCHANGED vars PROVE DriveInv'
<1>1. /\ UNCHANGED <<line, data, calls, pc, setup, job, todo, after, drive>>
  BY DEF vars, wires, file
<1>2. /\ \A call : Asks(call)' = Asks(call)
      /\ \A w : DrivePulls(w)' = DrivePulls(w)
  BY <1>1 DEF Asks, DrivePulls, Comes
<1>3. QueueOK' /\ PullsOK'
  BY <1>1, <1>2 DEF DriveInv, QueueOK, PullsOK
<1>4. Left' = Left /\ Commanded' = Commanded /\ InJob' = InJob /\ Showing' = Showing
  BY <1>1, <1>2 DEF Left, Commanded, InJob, Showing
<1>5. Over' = Over /\ Rows' = Rows /\ Orders' = Orders
  BY <1>1, <1>2, <1>4 DEF Over, Rows, Who, Tell, Un, Role, Told, Orders
<1>6. ShownOK' /\ ListenerOK' /\ RoundOK'
  BY <1>1, <1>2, <1>4, <1>5 DEF DriveInv, ShownOK, ListenerOK, RoundOK
<1> QED BY <1>3, <1>6 DEF DriveInv

(* At first the drive is idle, if there is one.                            *)
LEMMA InitDrive == ASSUME Init PROVE DriveInv
<1>1. /\ line = [w \in Wires |-> {}] /\ calls = <<>> /\ pc = "idle"
      /\ drive.at \in {"idle", "absent"} /\ ~drive.listens
  BY DEF Init
<1>2. \A c : ~Asks(c)
  BY <1>1 DEF Asks
<1>3. "cpu" \notin line["atn"]
  BY <1>1 DEF Wires
<1>4. ~Showing /\ ~Orders
  BY <1>1 DEF Showing, Orders
<1>5. QueueOK /\ ShownOK /\ ListenerOK /\ PullsOK /\ RoundOK
  BY <1>1, <1>2, <1>3, <1>4 DEF QueueOK, ShownOK, ListenerOK, PullsOK, RoundOK
<1> QED BY <1>5 DEF DriveInv

(* Every step keeps what is said of the drive.                             *)
LEMMA NextDrive == ASSUME BusInv, NameInv, DriveInv, OneDevice, [Next]_vars PROVE DriveInv'
<1>1. CASE BusCall
  BY <1>1, CallKeepsDrive
<1>2. CASE Proceed
  <2>1. calls = <<>> /\ Routine
    BY <1>2 DEF Proceed
  <2>2. CASE WatchWires \/ SendCommand \/ CommandTaken
    BY <2>1, <2>2, CommandingDrive
  <2>3. CASE SendByte \/ ByteTaken \/ Ready \/ TakeByte \/ Accept \/ Accepted
    BY <2>1, <2>3, TransferDrive
  <2>4. CASE EndJob
    BY <2>1, <2>4, EndJobDrive
  <2>5. CASE StartSending \/ StartListening \/ Turn
    BY <2>1, <2>5, OnwardDrive
  <2>6. CASE NotPresent \/ Timeout
    BY <2>1, <2>6, AttentionDrive
  <2>7. CASE Release
    BY <2>1, <2>7, ResetDrive
  <2> QED BY <2>1, <2>2, <2>3, <2>4, <2>5, <2>6, <2>7 DEF Routine
<1>3. CASE DriveStep
  BY <1>3, DriveKeepsDrive
<1>4. CASE calls = <<>> /\ (StopSending \/ StopReceiving
                              \/ \E kind \in {"open", "close", "read", "write"}, d \in Device : Start(kind, d))
  BY <1>4, AttentionDrive
<1>5. CASE calls = <<>> /\ Reset
  BY <1>5, ResetDrive
<1>6. CASE Poll \/ UNCHANGED vars
  BY <1>6, StutterDrive DEF Poll
<1> QED BY <1>1, <1>2, <1>3, <1>4, <1>5, <1>6 DEF Next

-----------------------------------------------------------------------------
(* The machine's wires while it reads: it waits for a byte with NDAC       *)
(* pulled, has it with NRFD pulled as well, and acknowledges by NDAC.      *)
Watching == pc = "receive dav"

Latched == pc = "receive taken"

Accepting == pc = "receive accepted"

Ended == pc = "receive end"

HoldsOK ==
  /\ ~Holds("eoi")
  /\ pc = "receive" => Holds("ndac") \/ Asks(Set("cpu", "ndac"))
  /\ Watching \/ Latched => Holds("ndac")
  /\ Watching => ~Holds("nrfd") \/ Asks(Clr("cpu", "nrfd"))
  /\ Latched => Holds("nrfd") \/ Asks(Set("cpu", "nrfd"))
  /\ Accepting => Holds("nrfd")
  /\ Asks(Set("cpu", "nrfd")) => ~Holds("nrfd") /\ (pc = "turn" => setup.machine # "old")
  /\ pc = "receive" /\ Holds("atn") => Holds("nrfd") /\ Holds("ndac")

(* Where the machine changes NRFD and NDAC.                                *)
LEMMA HandshakeAt ==
  ASSUME Types
  PROVE  /\ ~Asks(Set("cpu", "eoi"))
         /\ Asks(Clr("cpu", "ndac")) => pc \in {"attention", "reset"} \/ Accepting
         /\ Asks(Clr("cpu", "nrfd")) => pc \in {"attention", "reset"} \/ Watching
         /\ Asks(Set("cpu", "nrfd")) => pc = "turn" \/ Latched
         /\ Asks(Set("cpu", "ndac")) => pc \in {"turn", "receive"} \/ Ended
<1>1. ASSUME NEW w \in Wires, NEW call \in {Set("cpu", w), Clr("cpu", w)}, Asks(call)
      PROVE  <<pc, call>> \in CallsAt
  <2>1. call.who = "cpu"
    BY <1>1 DEF Set, Clr
  <2> QED BY <1>1, <2>1, FirstCall DEF Asks
<1>2. ASSUME NEW p, NEW c, <<p, c>> \in CallsAt
      PROVE  /\ c # Set("cpu", "eoi")
             /\ c = Clr("cpu", "ndac") => p \in {"attention", "reset", "receive accepted"}
             /\ c = Clr("cpu", "nrfd") => p \in {"attention", "reset", "receive dav"}
             /\ c = Set("cpu", "nrfd") => p \in {"turn", "receive taken"}
             /\ c = Set("cpu", "ndac") => p \in {"turn", "receive", "receive end"}
  BY <1>2, Distinct DEF CallsAt, Wires
<1>3. "eoi" \in Wires /\ "nrfd" \in Wires /\ "ndac" \in Wires
  BY DEF Wires
<1> QED BY <1>1, <1>2, <1>3 DEF Watching, Latched, Accepting, Ended

(* A call keeps the handshake.                                             *)
LEMMA CallKeepsHolds == ASSUME BusInv, HoldsOK, BusCall PROVE HoldsOK'
<1>1. /\ \A w : ~Asks(Set("cpu", w))' /\ ~Asks(Clr("cpu", w))'
      /\ \A w \in {"eoi", "nrfd", "ndac", "atn"} :
           Holds(w)' <=> (Holds(w) /\ ~Asks(Clr("cpu", w))) \/ Asks(Set("cpu", w))
  BY CallMoves DEF Holds, Wires
<1>2. pc' = pc
  BY DEF BusCall
<1>3. Types
  BY DEF BusInv
<1>4. Asks(Set("cpu", "atn")) => pc = "attention"
  BY <1>3, AsksAt
<1>5. \A p \in {"attention", "turn", "receive", "reset"} : pc = p => ~Watching /\ ~Latched /\ ~Accepting
  BY DEF Watching, Latched, Accepting
<1>6. Watching' = Watching /\ Latched' = Latched /\ Accepting' = Accepting
  BY <1>2 DEF Watching, Latched, Accepting
<1>7. ~(Watching /\ Latched) /\ ~(Watching /\ Accepting) /\ ~(Latched /\ Accepting)
  BY DEF Watching, Latched, Accepting
<1> QED BY <1>1, <1>2, <1>3, <1>4, <1>5, <1>6, <1>7, HandshakeAt DEF HoldsOK

Reading == pc = "receive" \/ Watching \/ Latched \/ Accepting

(* Nothing of it changes.                                                  *)
LEMMA StillHolds ==
  ASSUME HoldsOK, line' = line, \A call : ~Asks(call),
         ~Reading' \/ pc' = pc,
         Asks(Set("cpu", "nrfd"))' => ~Holds("nrfd") /\ (pc' = "turn" => setup'.machine # "old")
  PROVE  HoldsOK'
<1>1. \A w : Holds(w)' = Holds(w)
  BY DEF Holds
<1>2. pc' = "receive" => pc = "receive"
  BY DEF Reading
<1>3. (Watching' => Watching) /\ (Latched' => Latched) /\ (Accepting' => Accepting)
  BY DEF Reading, Watching, Latched, Accepting
<1> QED BY <1>1, <1>2, <1>3 DEF HoldsOK

(* The calls by which the machine goes to the places of the reading.       *)
LEMMA ReadingHolds ==
  ASSUME BusInv, HoldsOK, calls = <<>>, Ready \/ TakeByte \/ Accept \/ Accepted \/ Turn
  PROVE  HoldsOK'
<1>0. Types /\ \A call : ~Asks(call)
  BY Returned DEF BusInv
<1>1. \A w : Holds(w)' = Holds(w)
  <2>1. line' = line
    BY DEF Ready, TakeByte, Accept, Accepted, Turn, ReleaseAtn, Cpu
  <2> QED BY <2>1 DEF Holds
<1>2. CASE Ready
  <2>1. pc = "receive" /\ Watching' /\ calls' = <<Clr("cpu", "nrfd")>>
    BY <1>2 DEF Ready, Cpu, Watching
  <2>2. \A c : Asks(c)' <=> c = Clr("cpu", "nrfd")
    BY <2>1, Single
  <2>3. pc' # "receive" /\ ~Latched' /\ ~Accepting'
    BY <2>1 DEF Watching, Latched, Accepting
  <2> QED BY <1>0, <1>1, <2>1, <2>2, <2>3, Others DEF HoldsOK
<1>3. CASE TakeByte
  <2>1. Watching /\ Latched' /\ calls' = <<Set("cpu", "nrfd")>> /\ pc' # "turn"
    BY <1>3 DEF TakeByte, Cpu, Watching, Latched
  <2>2. \A c : Asks(c)' <=> c = Set("cpu", "nrfd")
    BY <2>1, Single
  <2>3. pc' # "receive" /\ ~Watching' /\ ~Accepting'
    BY <2>1 DEF Watching, Latched, Accepting
  <2> QED BY <1>0, <1>1, <2>1, <2>2, <2>3 DEF HoldsOK
<1>4. CASE Accept
  <2>1. Latched /\ Accepting' /\ calls' = <<Clr("cpu", "ndac")>>
    BY <1>4 DEF Accept, Cpu, Latched, Accepting
  <2>2. \A c : Asks(c)' <=> c = Clr("cpu", "ndac")
    BY <2>1, Single
  <2>3. pc' # "receive" /\ ~Watching' /\ ~Latched'
    BY <2>1 DEF Watching, Latched, Accepting
  <2> QED BY <1>0, <1>1, <2>1, <2>2, <2>3, Others DEF HoldsOK
<1>5. CASE Accepted
  <2>1. Accepting /\ calls' = <<Set("cpu", "ndac")>> /\ (pc' = "receive" \/ Ended')
    BY <1>5 DEF Accepted, Cpu, Accepting, Ended
  <2>2. \A c : Asks(c)' <=> c = Set("cpu", "ndac")
    BY <2>1, Single
  <2>3. ~Watching' /\ ~Latched' /\ ~Accepting'
    BY <2>1 DEF Watching, Latched, Accepting, Ended
  <2>4. ~Holds("atn")
    <3>1. "cpu" \in line["atn"] => Commanding \/ ToRelease("atn")
      BY Returned
    <3>2. ~Commanding /\ ~ToRelease("atn")
      BY <2>1 DEF Accepting, Commanding, ToRelease
    <3> QED BY <3>1, <3>2 DEF Holds
  <2>5. Set("cpu", "ndac") # Set("cpu", "nrfd")
    BY Distinct DEF Wires
  <2> QED BY <1>0, <1>1, <2>1, <2>2, <2>3, <2>4, <2>5 DEF HoldsOK
<1>6. CASE Turn
  <2>0. setup.machine \in {"new", "old", "cbm610"} /\ setup' = setup /\ pc = "turn"
    BY <1>0, <1>6 DEF Types, Setup, Turn
  <2>1. Holds("atn") => setup.machine = "new"
    <3>1. "cpu" \in line["atn"] => Commanding \/ ToRelease("atn")
      BY Returned
    <3> QED BY <2>0, <3>1 DEF Commanding, ToRelease, Holds
  <2>2. /\ \A w \in ToPull : w \in {"nrfd", "ndac"} /\ ~Holds(w) /\ (w = "nrfd" => setup.machine # "old")
        /\ ToPull = {} => Holds("ndac") /\ (setup.machine # "old" => Holds("nrfd"))
    <3> DEFINE rest == {w \in {"nrfd", "ndac"} : ~Holds(w)}
    <3>1. CASE setup.machine = "new"
      BY <3>1 DEF ToPull
    <3>2. CASE setup.machine = "old"
      BY <3>2 DEF ToPull
    <3>3. CASE setup.machine = "cbm610"
      <4>1. ToPull = IF "nrfd" \in rest THEN {"nrfd"} ELSE rest
        BY <3>3 DEF ToPull
      <4> QED BY <3>3, <4>1
    <3> QED BY <2>0, <3>1, <3>2, <3>3
  <2>3. CASE \E w \in ToPull : Cpu(<<Set("cpu", w)>>, "turn")
    <3>1. PICK w \in ToPull : calls' = <<Set("cpu", w)>> /\ pc' = "turn"
      BY <2>3 DEF Cpu
    <3>2. Asks(Set("cpu", "nrfd"))' => w = "nrfd"
      BY <2>2, <3>1, Single, Distinct DEF Wires
    <3>3. ~Watching' /\ ~Latched' /\ ~Accepting'
      BY <3>1 DEF Watching, Latched, Accepting
    <3> QED BY <1>0, <1>1, <2>0, <2>2, <3>1, <3>2, <3>3 DEF HoldsOK
  <2>4. CASE ToPull = {} /\ pc' = "receive"
             /\ (calls' = <<>> \/ calls' = <<Clr("cpu", "atn")>> \o AtnRisesForDrive)
    <3>1. ~Asks(Set("cpu", "nrfd"))'
      BY <1>0, <2>4, Nothing, FirstOfAtn, Others
    <3>2. ~Watching' /\ ~Latched' /\ ~Accepting'
      BY <2>4 DEF Watching, Latched, Accepting
    <3> QED BY <1>0, <1>1, <2>0, <2>1, <2>2, <2>4, <3>1, <3>2 DEF HoldsOK
  <2> QED BY <1>6, <2>3, <2>4 DEF Turn, ReleaseAtn, Cpu
<1> QED BY <1>2, <1>3, <1>4, <1>5, <1>6

(* Every step keeps what is said of the machine's wires.                   *)
LEMMA NextHolds == ASSUME BusInv, HoldsOK, [Next]_vars PROVE HoldsOK'
<1>1. CASE BusCall
  BY <1>1, CallKeepsHolds
<1>2. CASE calls = <<>> /\ (Ready \/ TakeByte \/ Accept \/ Accepted \/ Turn)
  BY <1>2, ReadingHolds
<1> DEFINE Quietly ==
      /\ line' = line /\ (~Reading' \/ pc' = pc)
      /\ \/ calls' = <<>>
         \/ \E c : calls' = <<c>> /\ c # Set("cpu", "nrfd")
         \/ calls' = <<Clr("cpu", "atn")>> \o AtnRisesForDrive
         \/ calls' = <<Set("cpu", "atn")>> \o AtnFallsForDrive
<1>a. Set("cpu", "dav") # Set("cpu", "nrfd") /\ Set("cpu", "atn") # Set("cpu", "nrfd")
  BY Distinct DEF Wires
<1>3. CASE calls = <<>> /\ Quietly
  <2>1. \A call : ~Asks(call)
    BY <1>3, Returned
  <2>2. ~Asks(Set("cpu", "nrfd"))'
    <3>1. CASE calls' = <<>>
      BY <3>1, Nothing
    <3>2. ASSUME NEW c, calls' = <<c>>, c # Set("cpu", "nrfd")
          PROVE  ~Asks(Set("cpu", "nrfd"))'
      BY <3>2, Single
    <3>3. CASE \/ calls' = <<Clr("cpu", "atn")>> \o AtnRisesForDrive
               \/ calls' = <<Set("cpu", "atn")>> \o AtnFallsForDrive
      BY <1>a, <3>3, FirstOfAtn, Others DEF BusInv
    <3> QED BY <1>3, <3>1, <3>2, <3>3
  <2> QED BY <1>3, <2>1, <2>2, StillHolds
<1>b. \A p \in {"attention", "command", "command dav", "idle", "send", "send dav", "turn", "reset"} :
        pc' = p => ~Reading'
  BY DEF Reading, Watching, Latched, Accepting
<1>4. ASSUME WatchWires \/ SendCommand \/ CommandTaken \/ EndJob \/ StartSending \/ SendByte \/ ByteTaken
             \/ StartListening \/ Release
      PROVE  Quietly
  <2>2. CASE WatchWires
    <3>1. line' = line /\ ~Reading' /\ (calls' = <<>> \/ \E w : calls' = <<Clr("cpu", w)>>)
      BY <1>b, <2>2 DEF WatchWires, Cpu
    <3> QED BY <3>1, Others
  <2>3. CASE SendCommand \/ CommandTaken \/ SendByte \/ ByteTaken
    <3>1. line' = line /\ ~Reading' /\ (calls' = <<Set("cpu", "dav")>> \/ calls' = <<Clr("cpu", "dav")>>)
      <4>1. CASE SendCommand
        BY <1>b, <4>1 DEF SendCommand, Cpu
      <4>2. CASE CommandTaken
        BY <1>b, <4>2 DEF CommandTaken, Cpu
      <4>3. CASE SendByte
        BY <1>b, <4>3 DEF SendByte, Cpu
      <4>4. CASE ByteTaken
        BY <1>b, <4>4 DEF ByteTaken, Cpu
      <4> QED BY <2>3, <4>1, <4>2, <4>3, <4>4
    <3> QED BY <1>a, <3>1, Others
  <2>4. CASE EndJob \/ StartSending \/ StartListening
    <3>1. line' = line /\ ~Reading' /\ (calls' = <<>> \/ calls' = <<Clr("cpu", "atn")>> \o AtnRisesForDrive)
      BY <1>b, <2>4 DEF EndJob, StartSending, StartListening, ReleaseAtn, Cpu
    <3> QED BY <3>1
  <2>5. CASE Release
    <3>1. /\ line' = line /\ ~Reading'
          /\ \/ calls' = <<>> \/ (\E w : calls' = <<Clr("cpu", w)>>)
             \/ calls' = <<Clr("cpu", "atn")>> \o AtnRisesForDrive
      BY <1>b, <2>5 DEF Release, ReleaseAtn, Cpu
    <3> QED BY <3>1, Others
  <2> QED BY <1>4, <2>2, <2>3, <2>4, <2>5
<1>5. ASSUME \/ NotPresent \/ Timeout \/ StopSending \/ StopReceiving
             \/ \E kind \in {"open", "close", "read", "write"}, d \in Device : Start(kind, d)
      PROVE  Quietly
  <2>1. line' = line /\ ~Reading' /\ calls' = <<Set("cpu", "atn")>> \o AtnFallsForDrive
    BY <1>5, <1>b DEF NotPresent, Timeout, StopSending, StopReceiving, Start, PullAtn, Cpu
  <2> QED BY <2>1
<1>6. ASSUME DriveStep PROVE Quietly
  <2>1. /\ line' = line /\ pc' = pc
        /\ \E w : calls' = <<Clr("drv", w)>> \/ calls' = <<Set("drv", w)>>
    BY <1>6 DEF DriveStep, DriveAnswers, DriveBusy, DriveTakes, DriveAgain, DriveLeaves, Drv, wires
  <2> QED BY <2>1, Others
<1>7. ASSUME Reset PROVE Quietly
  BY <1>7, <1>b DEF Reset
<1>8. CASE Poll \/ UNCHANGED vars
  <2>1. line' = line /\ pc' = pc /\ calls' = calls /\ setup' = setup
    BY <1>8 DEF Poll, vars, wires
  <2>2. \A call : Asks(call)' = Asks(call)
    BY <2>1 DEF Asks
  <2>3. (\A w : Holds(w)' = Holds(w)) /\ Watching' = Watching /\ Latched' = Latched /\ Accepting' = Accepting
    BY <2>1 DEF Holds, Watching, Latched, Accepting
  <2> QED BY <2>1, <2>2, <2>3 DEF HoldsOK
<1>9. [Next]_vars => \/ BusCall \/ DriveStep \/ Poll \/ UNCHANGED vars
                     \/ calls = <<>> /\ (Ready \/ TakeByte \/ Accept \/ Accepted \/ Turn)
                     \/ calls = <<>> /\ Quietly
  BY <1>4, <1>5, <1>7 DEF Next, Proceed, Routine
<1> QED BY <1>1, <1>2, <1>3, <1>6, <1>8, <1>9 DEF DriveStep

(* At first nobody pulls a wire.                                           *)
LEMMA InitHolds == ASSUME Init PROVE HoldsOK
<1>1. line = [w \in Wires |-> {}] /\ calls = <<>> /\ pc = "idle"
  BY DEF Init
<1>2. ~Holds("eoi") /\ ~Watching /\ ~Latched /\ ~Accepting
  BY <1>1 DEF Holds, Wires, Watching, Latched, Accepting
<1> QED BY <1>1, <1>2 DEF HoldsOK, Asks

-----------------------------------------------------------------------------
(* The file behind the channel.                                            *)

(* A byte was fetched and is still to be taken.                            *)
Kept(c) == c.lastok /\ "error" \notin c.lastst

(* The bytes of the file that were taken from the channel.                 *)
Given(c) == IF Kept(c) THEN c.pos - 1 ELSE c.pos

(* The byte that is kept is the last one that was read from the file; a    *)
(* byte that could not be fetched was beyond the end.                      *)
ChannelFits(c) ==
  /\ c.pos <= FileLength
  /\ Kept(c) => c.pos # 0 /\ c.lastbyte = c.pos /\ (("eof" \in c.lastst) <=> c.pos = FileLength)
  /\ c.open /\ c.lastok /\ ~Kept(c) => c.pos = FileLength

(* What the program knows of a file that is not open, or has just been     *)
(* opened.                                                                 *)
FreshOK ==
  /\ ~opened => sent = 0 /\ received = <<>> /\ ended = FALSE
  /\ pc = "reset" => ~opened
  /\ job.kind = "open" /\ Over /\ C.open => C.pos = 0 /\ C.stored = <<>> /\ ~C.lastok

(* What it has written: the device has it, but for the byte on the wires.  *)
Writes == job.kind = "write" /\ job.device = V

Delivered == pc = "send dav" /\ ~Gives

Follow(s) == \A i \in 1..Len(s) : s[i] = sent + i

WriteOK ==
  /\ opened => Len(C.stored) = sent + IF Writes /\ Delivered THEN 1 ELSE 0
  /\ Writes /\ Commanded /\ after = "send" => Follow(job.bytes)
  /\ Writes /\ Sending => Follow(todo)

FileInv == ChannelFits(C) /\ FreshOK /\ WriteOK

(* A byte that is fetched is the next one of the file; it is given when it *)
(* is taken for good.                                                      *)
NextOf(c, fake, g) ==
  /\ g \in Channel /\ ChannelFits(g) /\ g.stored = c.stored /\ g.open = c.open /\ g.lastok = fake
  /\ fake => Given(g) = Given(c)
  /\ fake /\ c.open /\ (Kept(c) \/ Given(c) < FileLength) => Kept(g)
  /\ ~fake /\ Kept(c) => Given(g) = Given(c) + 1 /\ g.lastst = c.lastst

(* To fetch a byte keeps the channel fitting.                              *)
LEMMA FetchedFits ==
  ASSUME NEW c \in Channel, ChannelFits(c), NEW fake \in BOOLEAN
  PROVE  NextOf(c, fake, Fetched(c, fake))
<1> DEFINE g == Fetched(c, fake)
<1> SUFFICES NextOf(c, fake, g)
  OBVIOUS
<1>1. /\ g \in Channel /\ g.isopen = c.isopen /\ g.open = c.open /\ g.stored = c.stored
      /\ g.lastok = fake
      /\ c.lastok => g.pos = c.pos /\ g.lastbyte = c.lastbyte /\ g.lastst = c.lastst
      /\ ~c.lastok /\ c.open /\ c.pos < FileLength =>
           /\ g.pos = c.pos + 1 /\ g.lastbyte = c.pos + 1
           /\ g.lastst = IF c.pos + 1 = FileLength THEN {"eof"} ELSE {}
      /\ ~c.lastok /\ ~(c.open /\ c.pos < FileLength) => g.pos = c.pos /\ g.lastst = Failure
  BY FetchedAt
<1>2. c.pos \in Nat /\ c.lastok \in BOOLEAN /\ c.open \in BOOLEAN /\ FileLength \in Nat /\ g.pos \in Nat
  BY <1>1, FileAssumption DEF Channel
<1> HIDE DEF g
<1>3. CASE c.lastok
  BY <1>1, <1>2, <1>3 DEF NextOf, ChannelFits, Kept, Given
<1>4. CASE ~c.lastok /\ c.open /\ c.pos < FileLength
  <2>1. "error" \notin g.lastst /\ ("eof" \in g.lastst <=> c.pos + 1 = FileLength)
    BY <1>1, <1>4
  <2>2. g.pos = c.pos + 1 /\ g.lastbyte = c.pos + 1
    BY <1>1, <1>4
  <2> QED BY <1>1, <1>2, <1>4, <2>1, <2>2 DEF NextOf, ChannelFits, Kept, Given
<1>5. CASE ~c.lastok /\ ~(c.open /\ c.pos < FileLength)
  <2>1. "error" \in g.lastst /\ g.pos = c.pos
    BY <1>1, <1>5 DEF Failure
  <2> QED BY <1>1, <1>2, <1>5, <2>1 DEF NextOf, ChannelFits, Kept, Given
<1> QED BY <1>3, <1>4, <1>5

(* The entries of the table that a talker's handshake meets.               *)
Talking ==
  {<<"OldPet", Low("ndac")>>, <<"OldPet", Low("nrfd")>>, <<"Out1", High("nrfd")>>,
   <<"Out1a", High("ndac")>>, <<"Out1a", Low("nrfd")>>, <<"Out2", High("ndac")>>}

(* What the device makes of a call that brings it no byte.                 *)
LEMMA CallTalks ==
  ASSUME BusInv, OneDevice, BusCall, ~(Asks(Set("cpu", "dav")) /\ state = "In1")
  PROVE  LET c == Head(calls) IN
         \/ Still(Bus, Bus') /\ ~(Falls(Bus, c) /\ <<state, Change(c)>> \in Active)
         \/ c = Set("cpu", "atn") /\ state' = "In1" /\ AtMostAsks(Bus, Bus')
         \/ c = Clr("cpu", "atn") /\ "cpu" \in line["atn"] /\
              IF state = "In1" THEN TurnsRound(Changed(Bus, c), Bus')
              ELSE state = "In2" /\ state' = "WaitATN" /\ trap' = trap
         \/ c = Clr("cpu", "dav") /\ state = "In2" /\ state' = "In1" /\ trap' = trap
         \/ /\ c.wire \in {"nrfd", "ndac"} /\ Falls(Bus, c)
            /\ <<state, Change(c)>> \in Talking /\ Reply(Changed(Bus, c), Change(c), Bus')
<1> DEFINE c == Head(calls)
           b == Changed(Bus, c)
           x == Bus'
<1>0. calls # <<>> /\ Types /\ BusOK(Bus)
  BY DEF BusCall, BusInv, Types
<1>1. c \in Call /\ b.state = state /\ b.trap = trap
  BY <1>0, FoundByHandler
<1>a. b.par_status = par_status /\ b.data = data /\ Mine(b) = Mine(Bus)
  BY <1>0, FoundByHandler
<1>2. /\ ~Falls(Bus, c) => Still(Bus, x)
      /\ Falls(Bus, c) => Reply(b, Change(c), x)
  BY CallReplies
<1>3. x.state = state' /\ x.trap = trap'
  BY DEF Bus
<1>4. /\ c.who = "cpu" => c = IF c.low THEN Set("cpu", c.wire) ELSE Clr("cpu", c.wire)
      /\ c.who = "cpu" => c.wire # "eoi"
      /\ c.who = "drv" => c.wire \in {"nrfd", "ndac"}
      /\ \A call : Asks(call) <=> c = call
  BY <1>0, FirstCall, CallsOfWire DEF Asks
<1>5. Still(b, x) <=> Still(Bus, x)
  BY <1>1, <1>a, BusFields DEF Still
<1>6. c.low \in BOOLEAN /\ c.wire \in {"atn", "dav", "nrfd", "ndac"}
  BY <1>1, <1>4 DEF Call, Wires
<1>7. <<b.state, Change(c)>> \notin Active => Still(Bus, x)
  BY <1>2, <1>5 DEF Reply
<1>8. AtMostAsks(b, x) <=> AtMostAsks(Bus, x)
  BY <1>1, BusFields DEF AtMostAsks
<1> HIDE DEF b
<1> SUFFICES ASSUME ~(Still(Bus, x) /\ ~(Falls(Bus, c) /\ <<state, Change(c)>> \in Active))
    PROVE  \/ c = Set("cpu", "atn") /\ x.state = "In1" /\ AtMostAsks(Bus, x)
           \/ c = Clr("cpu", "atn") /\ "cpu" \in line["atn"] /\
                IF state = "In1" THEN TurnsRound(b, x)
                ELSE state = "In2" /\ x.state = "WaitATN" /\ x.trap = trap
           \/ c = Clr("cpu", "dav") /\ state = "In2" /\ x.state = "In1" /\ x.trap = trap
           \/ /\ c.wire \in {"nrfd", "ndac"} /\ Falls(Bus, c)
              /\ <<state, Change(c)>> \in Talking /\ Reply(b, Change(c), x)
  BY <1>3 DEF b
<1>9. Falls(Bus, c) /\ Reply(b, Change(c), x) /\ <<state, Change(c)>> \in Active
  BY <1>1, <1>2, <1>7
<1>10. CASE c.wire = "atn" /\ c.low
  <2>1. Change(c) = Low("atn") /\ c = Set("cpu", "atn")
    BY <1>4, <1>10, <1>1 DEF Change, Low, Call
  <2> QED BY <1>8, <1>9, <2>1 DEF Reply
<1>11. CASE c.wire = "atn" /\ ~c.low
  <2>1. Change(c) = High("atn") /\ c = Clr("cpu", "atn")
    BY <1>1, <1>4, <1>11 DEF Change, High, Call
  <2>2. "cpu" \in line["atn"]
    BY <1>9, <2>1, Pullers, BusFields DEF Falls, Pulls, Clr
  <2>3. state \in {"In1", "In2"}
    BY <2>2 DEF BusInv, AttentionOK
  <2> QED BY <1>1, <1>9, <2>1, <2>2, <2>3 DEF Reply
<1>12. CASE c.wire = "dav" /\ c.low
  <2>1. Change(c) = Low("dav") /\ c = Set("cpu", "dav")
    BY <1>1, <1>4, <1>12 DEF Change, Low, Call
  <2>2. state # "In1"
    BY <1>4, <2>1
  <2> QED BY <1>9, <2>1, <2>2 DEF Active, Low, High
<1>13. CASE c.wire = "dav" /\ ~c.low
  <2>1. Change(c) = High("dav") /\ c = Clr("cpu", "dav")
    BY <1>1, <1>4, <1>13 DEF Change, High, Call
  <2>2. state = "In2"
    BY <1>9, <2>1 DEF Active, Low, High
  <2> QED BY <1>1, <1>9, <2>1, <2>2 DEF Reply
<1>14. CASE c.wire \in {"nrfd", "ndac"}
  <2>1. <<state, Change(c)>> \in Talking
    BY <1>9, <1>14 DEF Active, Talking, Change, Low, High
  <2> QED BY <1>9, <1>14, <2>1
<1> QED BY <1>6, <1>10, <1>11, <1>12, <1>13, <1>14

(* What such a call does to the channel.                                   *)
LEMMA CallFetches ==
  ASSUME BusInv, OneDevice, BusCall, ~(Asks(Set("cpu", "dav")) /\ state = "In1")
  PROVE  \/ C' = C
         \/ state \in Talks /\ C' = Fetched(C, TRUE)
         \/ state = "Out2" /\ C' = Fetched(C, FALSE)
<1> DEFINE c == Head(calls)
           b == Changed(Bus, c)
           x == Bus'
<1>0. calls # <<>> /\ Types /\ BusOK(Bus) /\ TrapOK(trap)
  BY BusFields DEF BusCall, BusInv, Types, BusOK
<1>1. b.state = state /\ b.trap = trap
  BY <1>0, FoundByHandler
<1>2. x.state = state' /\ x.trap = trap' /\ C' = trap'.channel[V]
  BY DEF Bus, C
<1>3. state \in Talks => trap.device # Nobody
  BY <1>0, TalkerAddressed, BusFields
<1>4. \A fake \in BOOLEAN : state \in Talks /\ x.trap = parallel_trap_receivebyte(trap, fake).t =>
        C' = C \/ C' = Fetched(C, fake)
  <2> SUFFICES ASSUME NEW fake \in BOOLEAN, state \in Talks,
                      trap' = parallel_trap_receivebyte(trap, fake).t
               PROVE  C' = C \/ C' = Fetched(C, fake)
    BY <1>2
  <2>1. parallel_trap_receivebyte(trap, fake).t.channel[V] \in
          {trap.channel[V], Fetched(trap.channel[V], fake)}
    BY <1>0, <1>3, ReceivebyteAt
  <2> QED BY <2>1 DEF C
<1>5. x.trap = trap => C' = C
  BY <1>2 DEF C
<1>6. AtMostAsks(Bus, x) => C' = C \/ (state \in Talks /\ C' = Fetched(C, TRUE))
  BY <1>4, <1>5, BusFields DEF AtMostAsks, Talks
<1>7. Still(Bus, x) => x.trap = trap
  BY BusFields DEF Still
<1>8. TurnsRound(b, x) => x.trap = trap
  BY <1>1 DEF TurnsRound
<1>9. CASE <<state, Change(c)>> \in Talking /\ Reply(b, Change(c), x)
  <2>1. CASE <<state, Change(c)>> = <<"OldPet", Low("ndac")>>
    <3>1. state = "OldPet" /\ Change(c) = Low("ndac")
      BY <2>1
    <3>2. IF Pulled(b, "nrfd") THEN x.state = "Out1" /\ x.trap = b.trap ELSE Sends(b, x)
      BY <1>1, <1>9, <3>1 DEF Reply
    <3> HIDE DEF b, x
    <3> QED BY <1>1, <1>4, <1>5, <3>1, <3>2 DEF Sends, Talks
  <2>2. CASE <<state, Change(c)>> \in {<<"OldPet", Low("nrfd")>>, <<"Out1", High("nrfd")>>}
    <3>1. Sends(b, x) /\ state \in {"OldPet", "Out1"}
      BY <1>1, <1>9, <2>2 DEF Reply
    <3> HIDE DEF b, x
    <3> QED BY <1>1, <1>4, <3>1 DEF Sends, Talks
  <2>3. CASE <<state, Change(c)>> = <<"Out1a", High("ndac")>>
    BY <1>1, <1>5, <1>9, <2>3 DEF Reply, Talks
  <2>4. CASE <<state, Change(c)>> = <<"Out1a", Low("nrfd")>>
    BY <1>1, <1>5, <1>9, <2>4 DEF Reply, Talks
  <2>5. CASE <<state, Change(c)>> = <<"Out2", High("ndac")>>
    <3>1. state = "Out2" /\ GoesOn(b, x)
      BY <1>1, <1>9, <2>5 DEF Reply
    <3> HIDE DEF b, x
    <3> QED BY <1>1, <1>4, <3>1 DEF GoesOn, Talks
  <2> QED BY <1>9, <2>1, <2>2, <2>3, <2>4, <2>5 DEF Talking
<1> HIDE DEF b, x
<1>10. x = Bus' /\ b = Changed(Bus, Head(calls))
  BY DEF x, b
<1> QED BY <1>2, <1>5, <1>6, <1>7, <1>8, <1>9, <1>10, CallTalks

(* The device hears a command byte of the job: what that does to the       *)
(* channel.                                                                *)
LEMMA OrderedAt ==
  ASSUME BusInv, NameInv, OneDevice, BusCall, Orders, ChannelFits(C)
  PROVE  /\ ChannelFits(C')
         /\ opened => C'.stored = C.stored /\ Given(C') = Given(C)
         /\ job.kind = "open" /\ Over' /\ C'.open => C'.pos = 0 /\ C'.stored = <<>> /\ ~C'.lastok
         /\ opened /\ after = "turn" /\ Left' = <<>> =>
              C' = Fetched(C, TRUE) /\ par_status' = [role |-> "talk", low |-> C'.lastst \ {"eof"}]
<1> DEFINE h == Head(todo)
           r == parallel_trap_attention(trap, h)
<1>0. Types /\ JobFits /\ RowFits /\ ToldOK /\ ChannelOK /\ TrapOK(trap)
  BY BusFields DEF BusInv, NameInv, Types, BusOK
<1>1. /\ job' = job /\ after' = after /\ opened' = opened /\ Commanded' /\ Commanded /\ InJob
      /\ Left' = Tail(Left) /\ Left = todo
  BY CallControl DEF Commanded, InJob, Orders
<1>2. state = "In1" /\ "cpu" \in line["atn"] /\ data["cpu"] = h /\ todo # <<>> /\ Fits(todo)
  BY DEF BusInv, BytesOK, CommandsOK, Orders
<1>3. trap' = r.t /\ par_status' = r.status
  <2>1. Heeds(Bus, Bus')
    BY <1>2, CallTells DEF Orders
  <2>2. Pulled(Bus, "atn")
    BY <1>2, BusFields DEF Pulled
  <2> QED BY <1>2, <2>1, <2>2, BusFields DEF Heeds, Bus
<1>4. h \in CommandByte /\ (h.kind \in {"second", "open", "close"} => trap.device # Nobody)
  <2>1. todo \in Seq(CommandByte)
    BY <1>2 DEF Fits, FitsWith
  <2> QED BY <1>2, <2>1, HeadAndTail DEF Fits, FitsWith
<1>5. job.kind \in {"open", "close", "read", "write"} /\ Left \in Rows /\ after \in {"end", Onward}
  BY <1>0, <1>1 DEF JobFits, RowFits
<1>6. /\ Addressing(h) => Tail(Left) # <<>>
      /\ h.kind \in {"second", "open", "close"} => h = Tell
      /\ h = Tell => IF job.kind = "close" THEN Tail(Left) = <<Un>> ELSE Tail(Left) = <<>> /\ after # "end"
      /\ Ending(h) => h = Un /\ Tail(Left) = <<>> /\ after = "end"
      /\ Addressing(h) \/ h.kind \in {"second", "open", "close"} \/ Ending(h)
  <2>1. /\ Addressing(h) => Tail(todo) # <<>>
        /\ h.kind \in {"second", "open", "close"} => h = Tell
             /\ IF job.kind = "close" THEN Tail(todo) = <<Un>> ELSE Tail(todo) = <<>> /\ after # "end"
        /\ Ending(h) => h = Un /\ Tail(todo) = <<>> /\ after = "end"
        /\ Addressing(h) \/ h.kind \in {"second", "open", "close"} \/ Ending(h)
    BY <1>1, <1>2, <1>5, RowStep
  <2>2. Tell.kind \in {"second", "open", "close"}
    BY DEF Tell, Told
  <2> QED BY <1>1, <2>1, <2>2
<1>7. Tell.kind = Told /\ Un.kind \in {"unlisten", "untalk"}
  BY DEF Tell, Told, Un
<1>8. /\ Targeted <=> ~(Left # <<>> /\ Head(Left).kind \in {"listen", "talk"}) /\ ~Over
      /\ Over' <=> Left' = <<>> /\ after' = "end"
      /\ Over <=> Left = <<>> /\ after = "end"
  BY <1>1 DEF Targeted, Over, Awaits
<1>9. C \in Channel /\ C = trap.channel[V]
  BY <1>0, TheDevice DEF TrapOK, TrapState, C
<1>10. job.kind # "write" => job.device = V
  BY <1>0, <1>1 DEF JobFits
<1>11. opened => job.kind \notin {"open", "close"} /\ C.isopen = 2
  BY <1>0, <1>1 DEF JobFits, ChannelOK
<1>a. opened => C.isopen # 0
  BY <1>11
<1>12. r.status = [role |-> r.t.device.role, low |-> r.status.low]
  <2>1. r.status \in Status /\ r.status.role = r.t.device.role
    BY <1>0, <1>4, AttentionIs
  <2> HIDE DEF r
  <2> QED BY <2>1 DEF Status
<1>13. r.t.device = IF Addressing(h) THEN [role |-> h.kind, device |-> h.device]
                    ELSE IF Ending(h) THEN Nobody ELSE trap.device
  BY <1>0, <1>4, AttentionIs
<1>14. Onward \in {"send", "turn", "end"} /\ (Onward = "turn" <=> job.kind = "read")
  BY <1>5 DEF Onward
<1> HIDE DEF h, r
<1>15. C' = r.t.channel[V]
  BY <1>3 DEF C
<1>16. h = Head(Left)
  BY <1>1 DEF h
<1>17. CASE Addressing(h)
  <2>1. r.t.channel = trap.channel
    BY <1>0, <1>4, <1>17, ListenOrTalkAt DEF r
  <2>2. C' = C
    BY <1>9, <1>15, <2>1
  <2> QED BY <1>1, <1>6, <1>8, <1>17, <2>2
<1>18. CASE h.kind \in {"second", "open", "close"}
  <2>1. ~Addressing(h) /\ ~Ending(h) /\ h.kind = Told /\ h = Tell
    BY <1>6, <1>7, <1>18 DEF Addressing, Ending
  <2>2. Targeted /\ trap.device = [role |-> Role, device |-> job.device]
    BY <1>0, <1>1, <1>2, <1>8, <1>16, <1>18, <2>1 DEF Addressing, ToldOK
  <2>3. trap.device.device = job.device /\ trap.device.role = Role /\ r.t.device = trap.device
    BY <1>13, <2>1, <2>2
  <2>4. CASE h.kind = "open"
    <3>1. job.kind = "open" /\ trap.device.device = V
      BY <1>10, <2>1, <2>3, <2>4 DEF Told
    <3>2. C' = [C EXCEPT !.isopen = 1]
      BY <1>0, <1>4, <1>9, <1>15, <1>18, <2>4, <3>1, OpenAt DEF r
    <3>3. C'.pos = C.pos /\ C'.lastok = C.lastok /\ C'.lastst = C.lastst /\ C'.lastbyte = C.lastbyte
          /\ C'.open = C.open
      BY <1>9, <3>2 DEF Channel
    <3>4. ~Over' /\ ~opened
      BY <1>1, <1>6, <1>8, <1>11, <2>1, <3>1
    <3> QED BY <3>3, <3>4 DEF ChannelFits, Kept
  <2>5. CASE h.kind = "close"
    <3>1. job.kind = "close" /\ trap.device.device = V
      BY <1>10, <2>1, <2>3, <2>5 DEF Told
    <3>2. ~C'.lastok /\ C'.pos = C.pos /\ ~C'.open
      BY <1>0, <1>4, <1>9, <1>15, <1>18, <2>5, <3>1, CloseAt DEF r
    <3> QED BY <1>11, <3>1, <3>2 DEF ChannelFits, Kept
  <2>6. CASE h.kind = "second"
    <3>1. job.kind \in {"read", "write"}
      BY <1>5, <2>1, <2>6 DEF Told
    <3>2. /\ trap.device.device # V => C' = C
          /\ trap.device.device = V /\ C.isopen # 0 =>
               IF trap.device.role = "talk"
               THEN C' = Fetched(C, TRUE) /\ r.status.low = C'.lastst \ {"eof"}
               ELSE C' = C
          /\ trap.device.device = V /\ C.isopen = 0 =>
               /\ ~C'.open /\ C'.pos = C.pos
               /\ C'.lastok = C.lastok /\ C'.lastst = C.lastst /\ C'.lastbyte = C.lastbyte
      <4> DEFINE a == parallel_trap_attention(trap, h)
      <4>1. /\ trap.device.device # V => a.t.channel[V] = trap.channel[V]
            /\ trap.device.device = V /\ trap.channel[V].isopen # 0 =>
                 IF trap.device.role = "talk"
                 THEN a.t.channel[V] = Fetched(trap.channel[V], TRUE) /\ a.status.low = a.t.channel[V].lastst \ {"eof"}
                 ELSE a.t.channel[V] = trap.channel[V]
            /\ trap.device.device = V /\ trap.channel[V].isopen = 0 =>
                 /\ ~a.t.channel[V].open /\ a.t.channel[V].pos = trap.channel[V].pos
                 /\ a.t.channel[V].lastok = trap.channel[V].lastok
                 /\ a.t.channel[V].lastst = trap.channel[V].lastst
                 /\ a.t.channel[V].lastbyte = trap.channel[V].lastbyte
        BY <1>0, <1>4, <1>18, <2>6, SecondAt
      <4>2. a = r
        BY DEF r
      <4> HIDE DEF a
      <4> QED BY <1>9, <1>15, <4>1, <4>2
    <3>3. NextOf(C, TRUE, Fetched(C, TRUE))
      BY <1>9, FetchedFits
    <3>4. ChannelFits(C')
      <4>1. CASE C' = C
        BY <4>1
      <4>2. CASE C' = Fetched(C, TRUE)
        BY <3>3, <4>2 DEF NextOf
      <4>3. CASE /\ ~C'.open /\ C'.pos = C.pos
                 /\ C'.lastok = C.lastok /\ C'.lastst = C.lastst /\ C'.lastbyte = C.lastbyte
        BY <4>3 DEF ChannelFits, Kept
      <4> QED BY <3>2, <4>1, <4>2, <4>3
    <3>5. opened => C'.stored = C.stored /\ Given(C') = Given(C)
      <4>1. opened => C' = C \/ C' = Fetched(C, TRUE)
        BY <1>a, <3>2
      <4> QED BY <3>3, <4>1 DEF NextOf
    <3>6. ASSUME opened, after = "turn"
          PROVE  C' = Fetched(C, TRUE) /\ par_status' = [role |-> "talk", low |-> C'.lastst \ {"eof"}]
      <4>1. job.kind = "read"
        BY <1>5, <1>14, <3>6
      <4>2. Role = "talk" /\ trap.device.device = V
        BY <1>10, <2>3, <4>1 DEF Role
      <4>3. C' = Fetched(C, TRUE) /\ r.status.low = C'.lastst \ {"eof"}
        BY <1>a, <2>3, <3>2, <3>6, <4>2
      <4>4. r.t.device.role = "talk"
        BY <2>3, <4>2
      <4> QED BY <1>3, <1>12, <4>3, <4>4
    <3> QED BY <3>1, <3>4, <3>5, <3>6
  <2> QED BY <1>18, <2>4, <2>5, <2>6
<1>19. CASE Ending(h)
  <2>1. after = "end" /\ h = Un
    BY <1>6, <1>19
  <2>2. Targeted /\ ~Over /\ ~Awaits({"second", "open", "close"})
    BY <1>1, <1>2, <1>8, <1>16, <1>19 DEF Ending, Awaits
  <2>3. trap.device = [role |-> Role, device |-> job.device] /\ trap.secondary = Told
    BY <1>0, <2>2 DEF ToldOK, Instructed
  <2>4. CASE job.kind # "open"
    <3>1. trap.secondary # "open"
      BY <2>3, <2>4, <1>5 DEF Told
    <3>2. r.t.channel = trap.channel
      BY <1>0, <1>4, <1>19, <3>1, EndsAt DEF r
    <3>3. C' = C
      BY <1>9, <1>15, <3>2
    <3> QED BY <2>1, <2>4, <3>3
  <2>5. CASE job.kind = "open"
    <3>1. h.kind = "unlisten" /\ trap.secondary = "open" /\ trap.device.device = V
      <4>1. trap.device.device = job.device
        BY <2>3
      <4> QED BY <1>10, <2>1, <2>3, <2>5, <4>1 DEF Un, Told
    <3>2. C.isopen = 1 /\ trap.name # <<>>
      <4>1. Naming
        BY <1>1, <2>2, <2>5 DEF Naming, Instructed
      <4>2. job.bytes # <<>> /\ Remaining = <<>>
        BY <1>0, <1>1, <2>1, <2>5 DEF JobFits, Remaining
      <4> QED BY <1>0, <4>1, <4>2 DEF ChannelOK
    <3>3. /\ ~C'.lastok
          /\ C'.open => C'.pos = 0 /\ C'.stored = <<>>
          /\ ~C'.open => C'.pos = C.pos
      <4> DEFINE a == parallel_trap_attention(trap, h)
      <4>1. /\ ~a.t.channel[V].lastok
            /\ a.t.channel[V].open => a.t.channel[V].pos = 0 /\ a.t.channel[V].stored = <<>>
            /\ ~a.t.channel[V].open => a.t.channel[V].pos = trap.channel[V].pos
        BY <1>0, <1>4, <1>9, <3>1, <3>2, NamedAt
      <4>2. a = r
        BY DEF r
      <4> HIDE DEF a
      <4> QED BY <1>9, <1>15, <4>1, <4>2
    <3>4. 0 <= FileLength
      BY FileAssumption
    <3>5. ChannelFits(C')
      BY <3>3, <3>4 DEF ChannelFits, Kept
    <3> QED BY <1>11, <2>1, <2>5, <3>3, <3>5
  <2> QED BY <2>4, <2>5
<1> QED BY <1>6, <1>17, <1>18, <1>19

(* The device hears a byte of data: what it writes follows what is there.  *)
LEMMA GivenAt ==
  ASSUME BusInv, NameInv, OneDevice, BusCall, Gives, state = "In1", FileInv
  PROVE  /\ ChannelFits(C') /\ Given(C') = Given(C)
         /\ opened => C'.stored = IF Writes THEN Append(C.stored, Len(C.stored) + 1) ELSE C.stored
<1> DEFINE h == Head(todo)
           r == parallel_trap_sendbyte(trap, h)
<1>0. Types /\ JobFits /\ ToldOK /\ HearsOK /\ ChannelOK /\ TrapOK(trap) /\ ChannelFits(C) /\ WriteOK
  BY BusFields DEF BusInv, NameInv, Types, BusOK, FileInv
<1>1. /\ InJob /\ ~Commanded /\ Targeted /\ Instructed /\ Sending
      /\ todo \in Seq(Nat) /\ todo # <<>>
  BY <1>0, AtGiven, Places
<1>2. h \in Nat
  BY <1>1, HeadAndTail
<1>3. trap' = r.t
  <2>1. Heeds(Bus, Bus')
    BY CallTells DEF Gives
  <2>2. data["cpu"] = h
    BY <1>0 DEF HearsOK, Gives
  <2>3. ~Pulled(Bus, "atn")
    <3>1. "cpu" \notin line["atn"]
      BY DEF BusInv, BytesOK, Gives
    <3> QED BY <3>1, Pullers, BusFields DEF Pulled
  <2> QED BY <2>1, <2>2, <2>3, BusFields DEF Heeds, Bus
<1>4. trap.device = [role |-> Role, device |-> job.device]
  BY <1>0, <1>1 DEF ToldOK
<1>5. trap.device.device = job.device
  BY <1>4
<1> HIDE DEF h, r
<1>6. /\ C \in Channel
      /\ trap.device.device # V => C' = C
      /\ trap.device.device = V /\ C.isopen = 1 => C' = C
      /\ trap.device.device = V /\ C.isopen # 1 =>
           C' = IF C.open THEN [C EXCEPT !.stored = Append(C.stored, h)] ELSE C
  <2> DEFINE a == parallel_trap_sendbyte(trap, h)
             k == trap.channel[V]
  <2>1. /\ k \in Channel
        /\ trap.device.device # V => a.t.channel[V] = k
        /\ trap.device.device = V /\ k.isopen = 1 => a.t.channel[V] = k
        /\ trap.device.device = V /\ k.isopen # 1 =>
             a.t.channel[V] = IF k.open THEN [k EXCEPT !.stored = Append(k.stored, h)] ELSE k
    BY <1>0, <1>2, SendbyteAt
  <2>2. C = k /\ C' = a.t.channel[V]
    BY <1>3 DEF C, r
  <2> HIDE DEF a, k
  <2> QED BY <2>1, <2>2
<1> DEFINE s == [C EXCEPT !.stored = Append(C.stored, h)]
<1>7. /\ s.stored = Append(C.stored, h) /\ s.pos = C.pos /\ s.lastok = C.lastok /\ s.lastst = C.lastst
      /\ s.lastbyte = C.lastbyte /\ s.open = C.open
  BY <1>6 DEF Channel
<1>8. C' = C \/ C' = s
  BY <1>6
<1> HIDE DEF s
<1>9. ChannelFits(C') /\ Given(C') = Given(C)
  BY <1>0, <1>7, <1>8 DEF ChannelFits, Given, Kept
<1>10. job.kind \in {"open", "write"} /\ (opened => job.kind # "open" /\ C.open /\ C.isopen = 2)
  BY <1>0, <1>1 DEF JobFits, ChannelOK
<1>11. ASSUME opened, ~Writes PROVE C' = C
  BY <1>5, <1>6, <1>10, <1>11 DEF Writes
<1>12. ASSUME opened, Writes PROVE C'.stored = Append(C.stored, Len(C.stored) + 1)
  <2>0. ~Delivered
    BY DEF Delivered
  <2>1. Follow(todo) /\ Len(C.stored) = sent + 0
    BY <1>0, <1>1, <1>12, <2>0 DEF WriteOK
  <2>2. h = sent + 1
    <3>1. 1 \in 1..Len(todo) /\ Head(todo) = todo[1]
      BY <1>1
    <3> QED BY <2>1, <3>1 DEF Follow, h
  <2>3. h = Len(C.stored) + 1
    <3>1. sent \in Nat
      BY <1>0 DEF Types
    <3> QED BY <2>1, <2>2, <3>1
  <2>4. C.isopen # 1
    BY <1>10, <1>12
  <2>5. C' = s
    BY <1>5, <1>6, <1>10, <1>12, <2>4 DEF Writes, s
  <2> QED BY <1>7, <2>3, <2>5
<1> QED BY <1>9, <1>11, <1>12

(* What a call leaves of the file: a byte that is written comes to its end, *)
(* a byte that is taken from the channel was kept in it.                    *)
LEMMA CallOfFile ==
  ASSUME BusInv, NameInv, OneDevice, BusCall, FileInv
  PROVE  /\ ChannelFits(C')
         /\ opened => C'.stored = IF Gives /\ Writes THEN Append(C.stored, Len(C.stored) + 1) ELSE C.stored
         /\ opened => Given(C') = Given(C) \/ (state = "Out2" /\ C' = Fetched(C, FALSE))
<1>0. Types /\ ChannelFits(C) /\ HearsOK /\ TrapOK(trap)
  BY BusFields DEF BusInv, NameInv, FileInv, Types, BusOK
<1>1. C \in Channel
  BY <1>0, TheDevice DEF TrapOK, TrapState, C
<1>2. Orders => state = "In1"
  BY DEF BusInv, BytesOK, Orders
<1>3. Gives /\ Writes => state = "In1"
  <2> SUFFICES ASSUME Gives, Writes PROVE state = "In1"
    OBVIOUS
  <2>1. Hears
    BY Places DEF Hears, Writes
  <2>2. "cpu" \notin line["dav"]
    BY DEF BusInv, BytesOK, Gives
  <2> QED BY <1>0, <2>1, <2>2 DEF HearsOK
<1>4. Asks(Set("cpu", "dav")) => Orders \/ Gives
  <2>1. Asks(Set("cpu", "dav")) => pc \in {"command dav", "send dav"}
    BY <1>0, AsksAt
  <2> QED BY <2>1 DEF Orders, Gives
<1>5. CASE Orders
  <2>1. ~Gives
    BY <1>5 DEF Orders, Gives
  <2> QED BY <1>0, <1>5, <2>1, OrderedAt
<1>6. CASE Gives /\ state = "In1"
  BY <1>6, GivenAt
<1>7. CASE ~(Asks(Set("cpu", "dav")) /\ state = "In1")
  <2>1. ~(Gives /\ Writes)
    BY <1>3, <1>7 DEF Gives
  <2>2. NextOf(C, TRUE, Fetched(C, TRUE)) /\ NextOf(C, FALSE, Fetched(C, FALSE))
    BY <1>0, <1>1, FetchedFits
  <2>3. ChannelFits(C') /\ C'.stored = C.stored
        /\ (Given(C') = Given(C) \/ (state = "Out2" /\ C' = Fetched(C, FALSE)))
    BY <1>0, <1>7, <2>2, CallFetches DEF NextOf
  <2> QED BY <2>1, <2>3
<1> QED BY <1>2, <1>4, <1>5, <1>6, <1>7

(* A call keeps what is said of the file.                                  *)
LEMMA CallKeepsFile == ASSUME BusInv, NameInv, OneDevice, BusCall, FileInv PROVE FileInv'
<1>0. Types /\ FreshOK /\ WriteOK /\ ChannelFits(C) /\ TrapOK(trap)
  BY BusFields DEF BusInv, FileInv, Types, BusOK
<1>1. UNCHANGED <<sent, received, ended>>
  BY DEF BusCall, file
<1>2. /\ pc' = pc /\ job' = job /\ todo' = todo /\ after' = after /\ opened' = opened
      /\ Commanded' = Commanded /\ Sending' = Sending /\ (~Orders => Over' = Over)
  BY CallControl DEF Orders
<1>3. ChannelFits(C')
  BY CallOfFile
<1>4. FreshOK'
  <2>1. ASSUME job.kind = "open", Over', C'.open
        PROVE  C'.pos = 0 /\ C'.stored = <<>> /\ ~C'.lastok
    <3>1. CASE Orders
      BY <1>0, <2>1, <3>1, OrderedAt
    <3>2. CASE ~Orders
      <4>1. Over /\ Commanded /\ Left = <<>>
        BY <1>2, <2>1, <3>2 DEF Over
      <4>2. ~Asks(Set("cpu", "dav"))
        <5>1. Asks(Set("cpu", "dav")) => Orders \/ Gives
          BY <1>0, AsksAt DEF Orders, Gives
        <5> QED BY <3>2, <4>1, <5>1, Places
      <4>3. state \notin Talks
        <5>1. ~Asks(Set("cpu", "atn"))
          <6>1. Asks(Set("cpu", "atn")) => todo # <<>> /\ ~Showing
            BY <1>0, AsksAt DEF BusInv, AttentionOK, Showing
          <6>2. ~Showing => Left = todo
            BY DEF Left, Showing
          <6> QED BY <4>1, <6>1, <6>2
        <5>2. "cpu" \in line["atn"]
          BY <4>1, <5>1 DEF BusInv, AttentionOK, Commanding, Commanded
        <5> QED BY <5>2 DEF BusInv, AttentionOK, Talks
      <4>4. C' = C
        BY <4>2, <4>3, CallFetches DEF Talks
      <4> QED BY <1>0, <2>1, <4>1, <4>4 DEF FreshOK
    <3> QED BY <3>1, <3>2
  <2> QED BY <1>0, <1>1, <1>2, <2>1 DEF FreshOK
<1>5. WriteOK'
  <2>1. Writes' = Writes
    BY <1>2 DEF Writes
  <2>2. Delivered' <=> Gives \/ Delivered
    <3>1. ~Asks(Set("cpu", "dav"))'
      BY CallMoves
    <3> QED BY <1>2, <3>1 DEF Delivered, Gives
  <2>3. ~(Gives /\ Delivered)
    BY DEF Delivered
  <2>5. Follow(job.bytes)' <=> Follow(job.bytes)
    BY <1>1, <1>2 DEF Follow
  <2>6. Follow(todo)' <=> Follow(todo)
    BY <1>1, <1>2 DEF Follow
  <2>7. opened => Len(C'.stored) = sent + IF Writes /\ Delivered' THEN 1 ELSE 0
    <3> SUFFICES ASSUME opened PROVE Len(C'.stored) = sent + IF Writes /\ Delivered' THEN 1 ELSE 0
      OBVIOUS
    <3>1. C'.stored = IF Gives /\ Writes THEN Append(C.stored, Len(C.stored) + 1) ELSE C.stored
      BY CallOfFile
    <3>2. Len(C.stored) = sent + IF Writes /\ Delivered THEN 1 ELSE 0
      BY <1>0 DEF WriteOK
    <3>3. C.stored \in Seq(Nat) /\ sent \in Nat
      BY <1>0, TheDevice DEF TrapOK, TrapState, C, Channel, Types
    <3>4. Len(Append(C.stored, Len(C.stored) + 1)) = Len(C.stored) + 1
      BY <3>3
    <3> QED BY <2>2, <2>3, <3>1, <3>2, <3>3, <3>4
  <2> QED BY <1>0, <1>1, <1>2, <2>1, <2>5, <2>6, <2>7 DEF WriteOK
<1> QED BY <1>3, <1>4, <1>5 DEF FileInv

(* A step that neither reads nor writes the file.                          *)
LEMMA FileStays ==
  ASSUME FileInv, UNCHANGED <<trap, sent, received, ended, opened, job>>,
         pc' = "reset" => pc = "reset",
         Over' => Over,
         Writes => (Delivered' <=> Delivered),
         Writes /\ Commanded' /\ after' = "send" => Commanded /\ after = "send",
         Writes /\ Sending' => Follow(todo')
  PROVE  FileInv'
<1>1. C' = C /\ (Writes' <=> Writes)
  BY DEF C, Writes
<1>2. (Follow(todo)' <=> Follow(todo')) /\ (Follow(job.bytes)' <=> Follow(job.bytes))
  BY DEF Follow
<1>3. ChannelFits(C') /\ FreshOK'
  BY <1>1 DEF FileInv, FreshOK
<1>4. WriteOK'
  BY <1>1, <1>2 DEF FileInv, WriteOK
<1> QED BY <1>3, <1>4 DEF FileInv

(* A step among the commands leaves the device those it has not heard.     *)
LEMMA SameLeft ==
  ASSUME BusInv, calls = <<>>, WatchWires \/ SendCommand \/ CommandTaken
  PROVE  /\ UNCHANGED <<line, state, par_status, trap, setup, latch, sent, received, ended, opened, job, after>>
         /\ Commanded /\ Commanded' /\ Left' = Left
<1>1. /\ UNCHANGED <<line, state, par_status, trap, setup, latch, sent, received, ended, opened, job, after>>
      /\ Commanded /\ Commanded'
  BY DEF WatchWires, SendCommand, CommandTaken, Cpu, Quiet, Commanded, file, device
<1>2. Left' = Left
  <2>1. CASE WatchWires
    <3>1. ~Showing /\ ~Showing' /\ todo' = todo
      BY <2>1 DEF WatchWires, Cpu, Showing
    <3> QED BY <3>1 DEF Left, Showing
  <2>2. CASE SendCommand
    <3>1. ~Showing /\ todo' = todo /\ calls' = <<Set("cpu", "dav")>>
      BY <2>2 DEF SendCommand, Cpu, Showing
    <3>2. Asks(Set("cpu", "dav"))'
      BY <3>1, Single
    <3> QED BY <3>1, <3>2 DEF Left, Showing
  <2>3. CASE CommandTaken
    <3>1. Showing /\ ~Showing' /\ todo' = Tail(todo) /\ \A call : ~Asks(call)
      BY <2>3, Returned DEF CommandTaken, Cpu, Showing
    <3> QED BY <3>1 DEF Left, Showing
  <2> QED BY <2>1, <2>2, <2>3
<1> QED BY <1>1, <1>2

(* Among the commands nothing is read or written.                          *)
LEMMA CommandingFile ==
  ASSUME BusInv, FileInv, calls = <<>>, WatchWires \/ SendCommand \/ CommandTaken
  PROVE  FileInv'
<1>1. /\ UNCHANGED <<trap, sent, received, ended, opened, job, after>>
      /\ Commanded /\ Commanded' /\ Left' = Left
  BY SameLeft
<1>2. ~Delivered /\ ~Delivered' /\ ~Sending' /\ pc' # "reset"
  <2>1. ~Sending /\ ~Sending' /\ pc' # "reset"
    BY <1>1, Places, PlacesNext
  <2>2. (Delivered => Sending) /\ (Delivered' => Sending')
    BY DEF Delivered, Sending
  <2> QED BY <2>1, <2>2
<1>3. Over' => Over
  BY <1>1 DEF Over
<1> QED BY <1>1, <1>2, <1>3, FileStays

(* A byte of data is shown, and acknowledged.                              *)
LEMMA SendingFile ==
  ASSUME BusInv, NameInv, OneDevice, FileInv, calls = <<>>, SendByte \/ ByteTaken
  PROVE  FileInv'
<1>0. Types /\ FreshOK /\ WriteOK /\ ChannelFits(C) /\ JobFits /\ ChannelOK
  BY DEF BusInv, FileInv, NameInv
<1>1. UNCHANGED <<trap, received, ended, opened, job, after>> /\ Sending' /\ pc' # "reset" /\ Sending
  BY DEF SendByte, ByteTaken, Cpu, Quiet, Sending, file, device
<1>2. ~Commanded' /\ ~Over' /\ InJob
  BY <1>1, Places, PlacesNext
<1>3. CASE SendByte
  <2>1. pc = "send" /\ calls' = <<Set("cpu", "dav")>> /\ pc' = "send dav" /\ sent' = sent /\ todo' = todo
    BY <1>3 DEF SendByte, Cpu, file
  <2>2. ~Delivered
    BY <2>1 DEF Delivered
  <2>3. ~Delivered'
    <3>1. Asks(Set("cpu", "dav"))'
      BY <2>1, Single
    <3> QED BY <3>1 DEF Delivered, Gives
  <2>4. Writes => Follow(todo')
    BY <1>0, <1>1, <2>1 DEF WriteOK
  <2> QED BY <1>1, <1>2, <2>1, <2>2, <2>3, <2>4, FileStays
<1>4. CASE ByteTaken
  <2>1. /\ pc = "send dav" /\ pc' = "send" /\ todo' = Tail(todo)
        /\ sent' = IF job.kind = "write" /\ OnFile THEN sent + 1 ELSE sent
    BY <1>4 DEF ByteTaken, Cpu
  <2>2. Delivered /\ ~Delivered'
    <3>1. ~Asks(Set("cpu", "dav"))
      BY Returned
    <3> QED BY <2>1, <3>1 DEF Delivered, Gives
  <2>3. C' = C /\ (Writes' <=> Writes) /\ (Writes => opened)
    BY <1>0, <1>1, <1>2 DEF C, Writes, JobFits
  <2>4. job.kind = "write" /\ OnFile <=> Writes
    <3>1. job.device \in Virtual <=> job.device = V
      BY TheDevice
    <3> QED BY <2>3, <3>1 DEF Writes, OnFile
  <2>5. sent' = IF Writes THEN sent + 1 ELSE sent
    BY <2>1, <2>4
  <2>6. FreshOK'
    BY <1>0, <1>1, <1>2, <2>3, <2>5 DEF FreshOK
  <2>7. WriteOK'
    <3>1. sent \in Nat
      BY <1>0 DEF Types
    <3>2. opened => Len(C.stored) = sent + IF Writes THEN 1 ELSE 0
      BY <1>0, <2>2 DEF WriteOK
    <3>3. opened => Len(C.stored) = sent' + 0
      BY <2>5, <3>1, <3>2
    <3>4. Writes => Follow(todo)'
      <4> SUFFICES ASSUME Writes PROVE \A i \in 1..Len(Tail(todo)) : Tail(todo)[i] = sent + 1 + i
        BY <2>1, <2>5 DEF Follow
      <4>1. Follow(todo)
        BY <1>0, <1>1 DEF WriteOK
      <4>2. todo \in Seq(Nat) /\ todo # <<>>
        BY <1>0, <2>1 DEF Types
      <4> TAKE i \in 1..Len(Tail(todo))
      <4>3. Tail(todo)[i] = todo[i + 1] /\ i + 1 \in 1..Len(todo) /\ i \in Nat
        BY <4>2
      <4> QED BY <3>1, <4>1, <4>3 DEF Follow
    <3> QED BY <1>1, <1>2, <2>2, <2>3, <3>3, <3>4 DEF WriteOK
  <2> QED BY <1>0, <2>3, <2>6, <2>7 DEF FileInv
<1> QED BY <1>3, <1>4

(* The commands are over, and the machine goes on to send or to listen.    *)
LEMMA OnwardFile ==
  ASSUME BusInv, FileInv, calls = <<>>,
         StartSending \/ StartListening \/ Turn \/ Ready \/ TakeByte \/ Accept
  PROVE  FileInv'
<1>1. UNCHANGED <<trap, sent, received, ended, opened, job, after>>
      /\ pc' \in {"send", "turn", "receive", "receive dav", "receive taken", "receive accepted"}
      /\ pc \in {"command", "turn", "receive", "receive dav", "receive taken"}
  BY DEF StartSending, StartListening, Turn, Ready, TakeByte, Accept, ReleaseAtn, Cpu, Quiet, file, device
<1>2. ~Commanded' /\ pc' # "reset" /\ ~Delivered /\ ~Delivered'
  BY <1>1 DEF Commanded, Delivered
<1>3. ~Over'
  BY <1>2 DEF Over
<1>4. Writes /\ Sending' => Follow(todo')
  <2>1. CASE StartSending
    <3>1. Commanded /\ after = "send" /\ todo' = job.bytes
      BY <2>1 DEF StartSending, Commanded
    <3> QED BY <3>1 DEF FileInv, WriteOK
  <2>2. CASE StartListening \/ Turn \/ Ready \/ TakeByte \/ Accept
    <3>1. pc' \in {"turn", "receive", "receive dav", "receive taken", "receive accepted"}
      BY <2>2 DEF StartListening, Turn, Ready, TakeByte, Accept, ReleaseAtn, Cpu
    <3> QED BY <3>1 DEF Sending
  <2> QED BY <2>1, <2>2
<1> QED BY <1>1, <1>2, <1>3, <1>4, FileStays

(* A byte is read.                                                         *)
LEMMA AcceptedFile == ASSUME FileInv, calls = <<>>, Accepted PROVE FileInv'
<1>1. UNCHANGED <<trap, sent, opened, job, after>> /\ pc' \in {"receive", "receive end"} /\ Accepting
      /\ (~opened => UNCHANGED <<received, ended>>)
  BY DEF Accepted, Cpu, Quiet, OnFile, file, device, Accepting
<1>2. ~Commanded' /\ pc' # "reset" /\ ~Delivered /\ ~Delivered' /\ ~Sending'
  BY <1>1 DEF Commanded, Delivered, Accepting, Sending
<1>3. ~Over'
  BY <1>2 DEF Over
<1>4. C' = C /\ (Writes' <=> Writes)
  BY <1>1 DEF C, Writes
<1>5. FreshOK'
  BY <1>1, <1>2, <1>3, <1>4 DEF FileInv, FreshOK
<1>6. WriteOK'
  BY <1>1, <1>2, <1>4 DEF FileInv, WriteOK
<1> QED BY <1>4, <1>5, <1>6 DEF FileInv

(* ATN for the command that ends a transfer.                               *)
LEMMA BreaksFile ==
  ASSUME FileInv, calls = <<>>, StopSending \/ NotPresent \/ StopReceiving \/ Timeout
  PROVE  FileInv'
<1>1. UNCHANGED <<trap, sent, received, ended, opened, job>>
      /\ (PullAtn(<<[kind |-> "unlisten"]>>, "end") \/ PullAtn(<<[kind |-> "untalk"]>>, "end"))
      /\ pc \in {"send", "receive", "receive dav", "receive taken", "receive end"}
  BY DEF StopSending, NotPresent, StopReceiving, Timeout, PullAtn, Cpu, file, device
<1>2. \A y : <<y>> # <<>>
  OBVIOUS
<1>3. todo' # <<>> /\ after' = "end" /\ pc' = "attention"
  BY <1>1, <1>2 DEF PullAtn, Cpu
<1>4. ~Over' /\ ~Delivered /\ ~Delivered' /\ ~Sending' /\ pc' # "reset"
  <2>1. Left' = todo'
    BY <1>3 DEF Left
  <2> QED BY <1>1, <1>3, <2>1 DEF Over, Delivered, Sending
<1> QED BY <1>1, <1>3, <1>4, FileStays

(* The job is over; what it has opened is there to be read from its start. *)
LEMMA EndJobFile ==
  ASSUME BusInv, NameInv, OneDevice, FileInv, calls = <<>>, EndJob
  PROVE  FileInv'
<1>0. Types /\ FreshOK /\ WriteOK /\ ChannelFits(C) /\ JobFits
  BY DEF BusInv, FileInv, NameInv
<1>1. /\ UNCHANGED <<trap, sent, received, ended>> /\ job' = NoJob /\ pc' = "idle"
      /\ pc = "command" /\ todo = <<>> /\ after = "end"
      /\ IF job.kind = "open" /\ job.device \in Virtual THEN opened' = trap.channel[job.device].open
         ELSE opened' = opened
  BY DEF EndJob, ReleaseAtn, Cpu, Rest, file, device
<1>2. Over /\ InJob
  BY <1>1 DEF Over, Left, Commanded, InJob
<1>3. ~Over' /\ ~Commanded' /\ ~Sending' /\ ~Delivered /\ ~Delivered' /\ pc' # "reset"
  BY <1>1 DEF Over, Commanded, Sending, Delivered
<1>4. C' = C /\ job'.kind = "none"
  BY <1>1 DEF C, NoJob
<1>5. CASE job.kind = "open"
  <2>1. job.device = V /\ ~opened
    BY <1>0, <1>2, <1>5 DEF JobFits
  <2>2. opened' = C.open
    BY <1>1, <1>5, <2>1, TheDevice DEF C
  <2>3. sent = 0 /\ received = <<>> /\ ended = FALSE
    BY <1>0, <2>1 DEF FreshOK
  <2>4. C.open => Len(C.stored) = 0
    BY <1>0, <1>2, <1>5 DEF FreshOK
  <2>5. FreshOK'
    BY <1>1, <1>3, <1>4, <2>3 DEF FreshOK
  <2>6. WriteOK'
    BY <1>1, <1>3, <1>4, <2>2, <2>3, <2>4 DEF WriteOK, Writes
  <2> QED BY <1>0, <1>4, <2>5, <2>6 DEF FileInv
<1>6. CASE job.kind # "open"
  <2>1. opened' = opened
    BY <1>1, <1>6
  <2>2. FreshOK'
    BY <1>0, <1>1, <1>3, <1>4, <2>1 DEF FreshOK
  <2>3. WriteOK'
    BY <1>0, <1>1, <1>3, <1>4, <2>1 DEF WriteOK, Writes
  <2> QED BY <1>0, <1>4, <2>2, <2>3 DEF FileInv
<1> QED BY <1>5, <1>6

(* A reset, and what it releases.                                          *)
LEMMA ResetFile ==
  ASSUME FileInv, calls = <<>>, Reset \/ Release
  PROVE  FileInv'
<1>1. trap' = trap /\ pc' \in {"reset", "idle"} /\ C' = C
  BY DEF Reset, Release, ReleaseAtn, Cpu, device, C
<1>2. ~Commanded' /\ ~Sending' /\ ~Over'
  BY <1>1 DEF Commanded, Sending, Over
<1>3. CASE Reset
  <2>1. ~opened' /\ sent' = 0 /\ received' = <<>> /\ ended' = FALSE
    BY <1>3 DEF Reset, Forget
  <2> QED BY <1>1, <1>2, <2>1 DEF FileInv, FreshOK, WriteOK
<1>4. CASE Release
  <2>1. UNCHANGED <<sent, received, ended, opened, job>> /\ pc = "reset" /\ ~Delivered /\ ~Delivered'
    BY <1>1, <1>4 DEF Release, file, Delivered
  <2> QED BY <1>1, <1>2, <2>1, FileStays
<1> QED BY <1>3, <1>4

(* A job begins.                                                           *)
LEMMA StartFile ==
  ASSUME NameInv, OneDevice, FileInv, calls = <<>>,
         NEW kind \in {"open", "close", "read", "write"}, NEW d \in Device, Start(kind, d)
  PROVE  FileInv'
<1>0. FreshOK /\ WriteOK /\ ChannelFits(C)
  BY DEF FileInv
<1>1. trap' = trap /\ pc = "idle" /\ pc' = "attention" /\ todo' # <<>> /\ C' = C
  <2>1. Commands(kind, d) # <<>>
    BY DEF Commands
  <2> QED BY <2>1 DEF Start, PullAtn, Cpu, device, C
<1>2. ~Over' /\ ~Sending' /\ ~Delivered /\ ~Delivered' /\ pc' # "reset"
  <2>1. Left' = todo'
    BY <1>1 DEF Left
  <2> QED BY <1>1, <2>1 DEF Over, Sending, Delivered
<1>3. PICK bytes \in Bytes(kind) : job' = [kind |-> kind, device |-> d, bytes |-> bytes]
  BY DEF Start
<1>4. job'.kind = kind /\ job'.device = d /\ job'.bytes = bytes
  BY <1>3
<1>5. \/ opened' = FALSE /\ sent' = 0 /\ received' = <<>> /\ ended' = FALSE
      \/ UNCHANGED <<opened, sent, received, ended>>
  BY DEF Start, Forget, file
<1>6. FreshOK'
  BY <1>0, <1>1, <1>2, <1>5 DEF FreshOK
<1>7. opened' => Len(C'.stored) = sent' + 0
  <2>1. opened => Len(C.stored) = sent + 0
    BY <1>0, <1>2 DEF WriteOK
  <2> QED BY <1>1, <1>5, <2>1
<1>8. Writes' => Follow(job.bytes)'
  <2> SUFFICES ASSUME Writes' PROVE \A i \in 1..Len(bytes) : bytes[i] = sent' + i
    BY <1>4 DEF Follow
  <2>1. kind = "write"
    BY <1>4 DEF Writes
  <2>2. UNCHANGED file
    BY <2>1 DEF Start
  <2>3. sent' = sent
    BY <2>2 DEF file
  <2>4. PICK n \in 1..MaxBytes - sent : bytes = [i \in 1..n |-> sent + i]
    BY <2>1 DEF Bytes
  <2>5. n \in Nat
    BY <2>4
  <2>6. Len(bytes) = n
    BY <2>4, <2>5
  <2> QED BY <2>3, <2>4, <2>6
<1>9. WriteOK'
  BY <1>2, <1>7, <1>8 DEF WriteOK
<1> QED BY <1>0, <1>1, <1>6, <1>9 DEF FileInv

(* Nothing happens.                                                        *)
LEMMA StutterFile == ASSUME FileInv, UNCHANGED vars PROVE FileInv'
<1>1. UNCHANGED <<trap, sent, received, ended, opened, job, pc, after, todo, calls>>
  BY DEF vars, device, file
<1>2. Over' = Over /\ Delivered' = Delivered /\ Commanded' = Commanded /\ Sending' = Sending
  BY <1>1 DEF Over, Delivered, Commanded, Sending, Left, Gives, Asks
<1> QED BY <1>1, <1>2, FileStays DEF FileInv, WriteOK

(* The drive's CPU does not touch the file.                                *)
LEMMA DriveFile == ASSUME BusInv, FileInv, DriveStep PROVE FileInv'
<1>1. UNCHANGED <<trap, sent, received, ended, opened, job, pc, after, todo>>
  BY DEF DriveStep, DriveAnswers, DriveBusy, DriveTakes, DriveAgain, DriveLeaves, Drv, device, file
<1>2. PICK call : calls' = <<call>> /\ (\E w : call = Set("drv", w) \/ call = Clr("drv", w))
  BY DEF DriveStep, DriveAnswers, DriveBusy, DriveTakes, DriveAgain, DriveLeaves, Drv
<1>3. ~Asks(Set("cpu", "dav"))' /\ ~Asks(Set("cpu", "dav"))
  <2>1. ~Asks(Set("cpu", "dav"))
    BY Returned DEF DriveStep
  <2> QED BY <1>2, <2>1, Single, Others
<1>4. (Over' <=> Over) /\ (Delivered' <=> Delivered) /\ (Commanded' <=> Commanded) /\ (Sending' <=> Sending)
  BY <1>1, <1>3 DEF Over, Delivered, Commanded, Sending, Left, Gives
<1> QED BY <1>1, <1>4, FileStays DEF FileInv, WriteOK

(* Every step keeps what is said of the file.                              *)
LEMMA NextFile == ASSUME BusInv, NameInv, OneDevice, FileInv, [Next]_vars PROVE FileInv'
<1>1. CASE BusCall
  BY <1>1, CallKeepsFile
<1>2. CASE Proceed
  <2>1. calls = <<>> /\ Routine
    BY <1>2 DEF Proceed
  <2>2. CASE WatchWires \/ SendCommand \/ CommandTaken
    BY <2>1, <2>2, CommandingFile
  <2>3. CASE SendByte \/ ByteTaken
    BY <2>1, <2>3, SendingFile
  <2>4. CASE EndJob
    BY <2>1, <2>4, EndJobFile
  <2>5. CASE StartSending \/ StartListening \/ Turn \/ Ready \/ TakeByte \/ Accept
    BY <2>1, <2>5, OnwardFile
  <2>6. CASE NotPresent \/ Timeout
    BY <2>1, <2>6, BreaksFile
  <2>7. CASE Release
    BY <2>1, <2>7, ResetFile
  <2>8. CASE Accepted
    BY <2>1, <2>8, AcceptedFile
  <2> QED BY <2>1, <2>2, <2>3, <2>4, <2>5, <2>6, <2>7, <2>8 DEF Routine
<1>3. CASE DriveStep
  BY <1>3, DriveFile
<1>4. CASE calls = <<>> /\ (StopSending \/ StopReceiving)
  BY <1>4, BreaksFile
<1>5. CASE calls = <<>> /\ Reset
  BY <1>5, ResetFile
<1>6. CASE Poll \/ UNCHANGED vars
  BY <1>6, StutterFile DEF Poll
<1>7. CASE calls = <<>> /\ \E kind \in {"open", "close", "read", "write"}, d \in Device : Start(kind, d)
  BY <1>7, StartFile
<1> QED BY <1>1, <1>2, <1>3, <1>4, <1>5, <1>6, <1>7 DEF Next

(* At first no file is open.                                               *)
LEMMA InitFile == ASSUME OneDevice, Init PROVE FileInv
<1>1. C = ClosedChannel
  BY TheDevice DEF Init, InitTrap, C
<1>2. C.pos = 0 /\ ~C.lastok /\ ~C.open /\ 0 <= FileLength
  BY <1>1, FileAssumption DEF ClosedChannel
<1>3. pc = "idle" /\ ~opened /\ sent = 0 /\ received = <<>> /\ ended = FALSE
  BY DEF Init
<1>4. ~Commanded /\ ~Sending /\ pc # "reset"
  BY <1>3 DEF Commanded, Sending
<1> QED BY <1>2, <1>3, <1>4 DEF FileInv, ChannelFits, Kept, FreshOK, WriteOK, Over

-----------------------------------------------------------------------------
(* The device as a talker.                                                 *)

(* It has been told to talk, and ATN has not risen yet.                    *)
ToTalk == (Commanded /\ after = "turn" /\ Left = <<>>) \/ (pc \in {"turn", "receive"} /\ Holds("atn"))

AnswerOK ==
  /\ ToTalk /\ opened =>
       /\ par_status.role = "talk"
       /\ par_status.low = {} => Kept(C)
       /\ Given(C) < FileLength => par_status.low = {}
  /\ Asks(Clr("cpu", "atn")) /\ pc = "idle" => par_status.role # "talk"

(* The byte on the bus, with its end signal.                               *)
ByteOK ==
  opened /\ state \in {"Out1a", "Out2"} =>
    /\ Kept(C) /\ data["emu"] = C.lastbyte /\ ("emu" \in line["eoi"] <=> "eof" \in C.lastst)
    /\ "emu" \in line["dav"]

(* Where the talker is, and where the machine is then.                     *)
TalkOK ==
  opened /\ state \in Talks =>
    /\ job.kind = "read"
    /\ state = "OldPet" =>
         /\ pc = "turn" /\ Kept(C) /\ ~Holds("ndac") /\ ~setup.drive
         /\ Asks(Set("cpu", "ndac")) => Holds("nrfd") \/ setup.machine = "old"
    /\ state = "Out1" => line["nrfd"] # {} /\ Given(C) < FileLength
    /\ state = "Out1a" /\ ~Asks(Set("cpu", "atn")) =>
         /\ ~DrivePulls("nrfd")
         /\ pc \in {"turn", "receive"} \/ Watching \/ Asks(Set("cpu", "nrfd"))
         /\ pc = "turn" => Holds("nrfd") \/ setup.machine = "old"
    /\ state = "Out2" /\ ~Asks(Set("cpu", "atn")) => Latched \/ Accepting

(* A talker that has more to say is still talking.                         *)
MoreOK ==
  opened /\ job.kind = "read" /\ ~Holds("atn") /\ ~Commanded /\ ~Ended /\ Given(C) < FileLength
  => state \in Talks

(* What the machine has read, and the byte it has in its hands.            *)
NextByte == latch = [byte |-> Len(received) + 1, eoi |-> Len(received) + 1 = FileLength]

ReadOK ==
  opened =>
    /\ Given(C) = Len(received) + IF Accepting /\ state # "Out2" THEN 1 ELSE 0
    /\ Latched => state = "Out2" \/ (state = "Out1a" /\ Asks(Set("cpu", "nrfd")))
    /\ Latched \/ Accepting => NextByte
    /\ Ended => Len(received) = FileLength

TalkInv == received \in Seq(Nat) /\ AnswerOK /\ ByteOK /\ TalkOK /\ MoreOK /\ ReadOK

(* Where the machine reads.                                                *)
LEMMA ReadPlaces ==
  /\ Watching => ~Latched /\ ~Accepting /\ ~Ended /\ pc # "turn" /\ pc # "receive"
  /\ Latched => ~Watching /\ ~Accepting /\ ~Ended /\ pc # "turn" /\ pc # "receive"
  /\ Accepting => ~Watching /\ ~Latched /\ ~Ended /\ pc # "turn" /\ pc # "receive"
  /\ Ended => ~Watching /\ ~Latched /\ ~Accepting /\ pc # "turn" /\ pc # "receive"
  /\ pc \in {"turn", "receive"} \/ Watching \/ Latched \/ Accepting \/ Ended =>
       InJob /\ ~Commanded /\ ~Sending /\ pc # "reset" /\ pc # "idle" /\ pc # "attention"
  /\ pc = "reset" \/ pc = "idle" => ~Commanded /\ ~Sending
  /\ Types /\ InJob /\ ~Commanded /\ ~Sending =>
       pc = "turn" \/ pc = "receive" \/ Watching \/ Latched \/ Accepting \/ Ended
  BY Zenon DEF Watching, Latched, Accepting, Ended, InJob, Commanded, Sending, Types, PlaceOfMachine

(* The same of the next moment.                                            *)
LEMMA ReadPlacesNext ==
  /\ Watching' => ~Latched' /\ ~Accepting' /\ ~Ended' /\ pc' # "turn" /\ pc' # "receive"
  /\ Latched' => ~Watching' /\ ~Accepting' /\ ~Ended' /\ pc' # "turn" /\ pc' # "receive"
  /\ Accepting' => ~Watching' /\ ~Latched' /\ ~Ended' /\ pc' # "turn" /\ pc' # "receive"
  /\ Ended' => ~Watching' /\ ~Latched' /\ ~Accepting' /\ pc' # "turn" /\ pc' # "receive"
  /\ pc' \in {"turn", "receive"} \/ Watching' \/ Latched' \/ Accepting' \/ Ended' =>
       InJob' /\ ~Commanded' /\ ~Sending' /\ pc' # "reset" /\ pc' # "idle" /\ pc' # "attention"
  /\ pc' = "reset" \/ pc' = "idle" => ~Commanded' /\ ~Sending'
  BY Zenon DEF Watching, Latched, Accepting, Ended, InJob, Commanded, Sending

(* What a call leaves of the machine's place.                              *)
LEMMA CallOfTalk ==
  ASSUME BusInv, BusCall
  PROVE  /\ pc' = pc /\ setup' = setup /\ job' = job /\ todo' = todo /\ after' = after
         /\ latch' = latch /\ opened' = opened /\ received' = received
         /\ (Watching' <=> Watching) /\ (Latched' <=> Latched)
         /\ (Accepting' <=> Accepting) /\ (Ended' <=> Ended) /\ (Commanded' <=> Commanded)
         /\ (NextByte' <=> NextByte)
         /\ ToTalk' => ToTalk \/ (Orders /\ after = "turn" /\ Left' = <<>>)
         /\ \A w : ~Asks(Set("cpu", w))' /\ ~Asks(Clr("cpu", w))'
         /\ \A w \in Wires : Holds(w)' <=> (Holds(w) /\ ~Asks(Clr("cpu", w))) \/ Asks(Set("cpu", w))
         /\ DrivePulls("nrfd")' => DrivePulls("nrfd")
<1>0. Types /\ calls # <<>> /\ calls' = Tail(calls) /\ calls \in Seq(Call)
  BY DEF BusCall, BusInv, Types, CallsOK
<1>1. /\ pc' = pc /\ setup' = setup /\ job' = job /\ todo' = todo /\ after' = after
      /\ latch' = latch /\ opened' = opened /\ received' = received
  BY DEF BusCall, file
<1>2. /\ (Watching' <=> Watching) /\ (Latched' <=> Latched)
      /\ (Accepting' <=> Accepting) /\ (Ended' <=> Ended)
  BY <1>1, Zenon DEF Watching, Latched, Accepting, Ended
<1>3. NextByte' <=> NextByte
  BY <1>1 DEF NextByte
<1>4. /\ \A w : ~Asks(Set("cpu", w))' /\ ~Asks(Clr("cpu", w))'
      /\ \A w \in Wires : Holds(w)' <=> (Holds(w) /\ ~Asks(Clr("cpu", w))) \/ Asks(Set("cpu", w))
  BY CallMoves DEF Holds
<1>5. Asks(Set("cpu", "atn")) => pc = "attention"
  BY <1>0, AsksAt
<1>6. /\ Commanded' = Commanded
      /\ ~Orders => Left' = Left
      /\ Orders => Commanded
  <2>1. /\ Commanded' = Commanded
        /\ Left' = IF Orders THEN Tail(Left) ELSE Left
    BY CallControl, Zenon DEF Orders
  <2>2. Orders => Commanded
    BY Zenon DEF Orders, Commanded
  <2> QED BY <2>1, <2>2
<1>7. ToTalk' => ToTalk \/ (Orders /\ after = "turn" /\ Left' = <<>>)
  <2>1. pc \in {"turn", "receive"} /\ Holds("atn")' => Holds("atn")
    BY <1>4, <1>5 DEF Wires
  <2> QED BY <1>1, <1>6, <2>1 DEF ToTalk
<1>8. DrivePulls("nrfd")' => DrivePulls("nrfd")
  <2>1. Comes("nrfd")' => Comes("nrfd")
    <3> SUFFICES ASSUME NEW i \in DOMAIN calls', calls'[i] = Set("drv", "nrfd")
                 PROVE  Comes("nrfd")
      BY DEF Comes
    <3>1. i + 1 \in DOMAIN calls /\ calls[i + 1] = calls'[i]
      BY <1>0
    <3> QED BY <3>1 DEF Comes
  <2>2. ASSUME "drv" \in line'["nrfd"], "drv" \notin line["nrfd"]
        PROVE  Comes("nrfd")
    <3> DEFINE c == Head(calls)
    <3>1. line'["nrfd"] \ {"emu"} = (IF "nrfd" = c.wire THEN Pulls(Bus, c) ELSE line["nrfd"]) \ {"emu"}
      BY BusCallIs DEF Wires
    <3>2. c \in Call /\ c = calls[1]
      BY <1>0, FirstCall
    <3>3. "nrfd" = c.wire /\ "drv" \in Pulls(Bus, c)
      BY <2>2, <3>1
    <3>4. c.who = "drv" /\ c.low
      BY <2>2, <3>3, BusFields DEF Pulls
    <3>5. c = Set("drv", "nrfd")
      BY <3>2, <3>3, <3>4 DEF Call, Set
    <3>6. 1 \in DOMAIN calls
      BY <1>0
    <3> QED BY <3>2, <3>5, <3>6 DEF Comes
  <2> QED BY <2>1, <2>2 DEF DrivePulls
<1> QED BY <1>1, <1>2, <1>3, <1>4, <1>6, <1>7, <1>8

(* The bus beside a talker: ATN is released, or the machine is about to    *)
(* pull it for commands.                                                   *)
LEMMA TalkerIs ==
  ASSUME BusInv, state \in Talks
  PROVE  /\ ~Holds("atn") /\ line["atn"] = {}
         /\ Commanded => Asks(Set("cpu", "atn"))
         /\ setup.machine = "new" => pc # "turn"
         /\ setup.drive => setup.machine = "new"
         /\ \A w \in {"nrfd", "ndac"} :
              /\ "emu" \notin line[w] /\ ("drv" \in line[w] => setup.drive)
              /\ ~Holds(w) /\ "drv" \notin line[w] => line[w] = {}
<1>1. ~Holds("atn")
  BY DEF BusInv, AttentionOK, Holds, Talks
<1>2. line["atn"] = {}
  BY <1>1, Pullers DEF Holds
<1>3. Commanded => Commanding
  BY Zenon DEF Commanded, Commanding
<1>4. Commanded => Asks(Set("cpu", "atn"))
  BY <1>1, <1>3 DEF BusInv, AttentionOK, Holds
<1>5. setup.machine = "new" => pc # "turn"
  <2>1. pc = "turn" => ~Asks(Set("cpu", "atn"))
    BY AsksAt DEF BusInv
  <2>2. pc = "turn" /\ setup.machine = "new" => Commanding
    BY Zenon DEF Commanding
  <2> QED BY <1>1, <2>1, <2>2 DEF BusInv, AttentionOK, Holds
<1>6. setup.drive => setup.machine = "new"
  BY DEF BusInv, Types
<1>7. \A w \in {"nrfd", "ndac"} : "emu" \notin line[w] /\ ("drv" \in line[w] => setup.drive)
  <2>1. Placed(Bus)
    BY DEF BusInv, Types, BusOK
  <2>2. Mine(Bus) \subseteq MayPull(state)
    BY <2>1, BusFields DEF Placed
  <2>3. "nrfd" \notin MayPull(state) /\ "ndac" \notin MayPull(state)
    BY DEF MayPull, Talks
  <2> QED BY <2>2, <2>3, Pullers DEF BusInv, WiresOK, Wires
<1>8. \A w \in {"nrfd", "ndac"} : ~Holds(w) /\ "drv" \notin line[w] => line[w] = {}
  <2>1. line \in [Wires -> SUBSET Driver]
    BY BusFields DEF BusInv, Types, BusOK, BusState
  <2> QED BY <1>7, <2>1 DEF Wires, Driver, Holds
<1> QED BY <1>1, <1>2, <1>4, <1>5, <1>6, <1>7, <1>8

(* A wire changes when the first pulls it and when the last lets go.       *)
LEMMA WireFalls ==
  ASSUME NEW who \in {"cpu", "drv"}, NEW w \in Wires
  PROVE  /\ Change(Set(who, w)) = Low(w) /\ Change(Clr(who, w)) = High(w)
         /\ Falls(Bus, Set(who, w)) <=> line[w] = {}
         /\ Falls(Bus, Clr(who, w)) <=> line[w] = {who}
<1>1. /\ Set(who, w).who = who /\ Set(who, w).wire = w /\ Set(who, w).low = TRUE
      /\ Clr(who, w).who = who /\ Clr(who, w).wire = w /\ Clr(who, w).low = FALSE
  BY DEF Set, Clr
<1>2. Change(Set(who, w)) = Low(w) /\ Change(Clr(who, w)) = High(w)
  BY <1>1 DEF Change, Low, High
<1>3. /\ Pulls(Bus, Set(who, w)) = line[w] \cup {who}
      /\ Pulls(Bus, Clr(who, w)) = line[w] \ {who}
  BY <1>1, BusFields DEF Pulls
<1>4. Falls(Bus, Set(who, w)) <=> line[w] = {}
  BY <1>1, <1>3, BusFields DEF Falls
<1>5. Falls(Bus, Clr(who, w)) <=> line[w] = {who}
  BY <1>1, <1>3, BusFields DEF Falls
<1> QED BY <1>2, <1>4, <1>5

(* A call that the device makes nothing of.                                *)
LEMMA StillTalk ==
  ASSUME BusInv, DriveInv, HoldsOK, TalkInv, BusCall, ~Orders, Still(Bus, Bus'),
         ~(Falls(Bus, Head(calls)) /\ <<state, Change(Head(calls))>> \in Active)
  PROVE  TalkInv'
<1> DEFINE c == Head(calls)
<1>0. Types /\ calls # <<>> /\ c \in Call /\ \A call : Asks(call) <=> c = call
  BY FirstCall DEF BusCall, BusInv, Types, Asks
<1>1. /\ state' = state /\ C' = C /\ par_status' = par_status /\ data'["emu"] = data["emu"]
      /\ \A w \in Wires : "emu" \in line'[w] <=> "emu" \in line[w]
  BY DEF Still, Bus, C, Mine
<1>2. /\ pc' = pc /\ setup' = setup /\ job' = job /\ todo' = todo /\ after' = after
      /\ latch' = latch /\ opened' = opened /\ received' = received
      /\ (Watching' <=> Watching) /\ (Latched' <=> Latched)
      /\ (Accepting' <=> Accepting) /\ (Ended' <=> Ended) /\ (Commanded' <=> Commanded)
      /\ (NextByte' <=> NextByte)
      /\ ToTalk' => ToTalk
      /\ \A w : ~Asks(Set("cpu", w))' /\ ~Asks(Clr("cpu", w))'
      /\ \A w \in Wires : Holds(w)' <=> (Holds(w) /\ ~Asks(Clr("cpu", w))) \/ Asks(Set("cpu", w))
      /\ DrivePulls("nrfd")' => DrivePulls("nrfd")
  BY CallOfTalk
<1>a. Kept(C)' <=> Kept(C)
  BY <1>1
<1>b. Given(C)' = Given(C)
  BY <1>1
<1> HIDE DEF c
<1>3. \A w \in Wires : Asks(Set("cpu", w)) /\ line[w] = {} => <<state, Low(w)>> \notin Active
  BY <1>0, WireFalls DEF c
<1>4. \A w \in Wires, who \in {"cpu", "drv"} :
        c = Clr(who, w) /\ line[w] = {who} => <<state, High(w)>> \notin Active
  BY <1>0, WireFalls DEF c
<1>5. state \in Talks => ~Asks(Set("cpu", "atn"))
  BY <1>3, TalkerIs DEF Active, Low, Talks, Wires
<1>6. state = "OldPet" /\ ~Holds("ndac") /\ ~setup.drive => ~Asks(Set("cpu", "ndac"))
  <2>1. state = "OldPet" /\ ~Holds("ndac") /\ ~setup.drive => line["ndac"] = {}
    BY TalkerIs DEF Talks
  <2> QED BY <1>3, <2>1 DEF Active, Low, Wires
<1>7. state = "Out1a" /\ ~DrivePulls("nrfd") => ~Asks(Set("cpu", "nrfd"))
  <2>1. state = "Out1a" /\ ~DrivePulls("nrfd") /\ ~Holds("nrfd") => line["nrfd"] = {}
    BY TalkerIs DEF Talks, DrivePulls
  <2>2. Asks(Set("cpu", "nrfd")) => ~Holds("nrfd")
    BY DEF HoldsOK
  <2> QED BY <1>3, <2>1, <2>2 DEF Active, Low, Wires
<1>8. Asks(Clr("cpu", "atn")) => ~Holds("atn")
  <2>1. Holds("atn") => line["atn"] = {"cpu"} /\ state \in {"In1", "In2"}
    BY Pullers DEF Holds, BusInv, AttentionOK
  <2> QED BY <1>0, <1>4, <2>1 DEF Active, High, Wires
<1>9. state = "Out1" /\ line["nrfd"] # {} => line'["nrfd"] # {}
  <2> SUFFICES ASSUME state = "Out1", line["nrfd"] # {}, line'["nrfd"] = {}
               PROVE  FALSE
    OBVIOUS
  <2>1. "emu" \notin line["nrfd"]
    BY TalkerIs DEF Talks
  <2>2. line'["nrfd"] \ {"emu"} = (IF "nrfd" = c.wire THEN Pulls(Bus, c) ELSE line["nrfd"]) \ {"emu"}
    BY BusCallIs DEF Wires, c
  <2>3. "nrfd" = c.wire /\ Pulls(Bus, c) \subseteq {"emu"}
    BY <2>1, <2>2
  <2>4. ~c.low /\ line["nrfd"] = {c.who}
    BY <1>0, <2>1, <2>3, BusFields DEF Pulls, Call
  <2>5. c = Clr(c.who, "nrfd") /\ c.who \in {"cpu", "drv"}
    BY <1>0, <2>3, <2>4 DEF Call, Clr
  <2> QED BY <1>4, <2>4, <2>5 DEF Active, High, Wires
<1>10. AnswerOK'
  BY <1>1, <1>2, <1>a, <1>b DEF TalkInv, AnswerOK
<1>11. ByteOK'
  BY <1>1, <1>2, <1>a DEF TalkInv, ByteOK, Wires
<1>12. TalkOK'
  <2> SUFFICES ASSUME opened, state \in Talks
               PROVE  TalkOK'
    BY <1>1, <1>2 DEF TalkOK
  <2>1. ~Asks(Set("cpu", "atn")) /\ job.kind = "read"
    BY <1>5 DEF TalkInv, TalkOK
  <2>2. CASE state = "OldPet"
    <3>1. pc = "turn" /\ Kept(C) /\ ~Holds("ndac") /\ ~setup.drive
      BY <2>2 DEF TalkInv, TalkOK
    <3>2. ~Holds("ndac")'
      BY <1>2, <1>6, <2>2, <3>1 DEF Wires
    <3> QED BY <1>1, <1>2, <1>a, <2>1, <2>2, <3>1, <3>2 DEF TalkOK
  <2>3. CASE state = "Out1"
    <3>1. line["nrfd"] # {} /\ Given(C) < FileLength
      BY <2>3 DEF TalkInv, TalkOK
    <3> QED BY <1>1, <1>2, <1>b, <1>9, <2>1, <2>3, <3>1 DEF TalkOK
  <2>4. CASE state = "Out1a"
    <3>1. /\ ~DrivePulls("nrfd")
          /\ pc \in {"turn", "receive"} \/ Watching \/ Asks(Set("cpu", "nrfd"))
          /\ pc = "turn" => Holds("nrfd") \/ setup.machine = "old"
      BY <2>1, <2>4 DEF TalkInv, TalkOK
    <3>2. pc = "turn" => ~Asks(Clr("cpu", "nrfd"))
      BY <1>0, HandshakeAt, ReadPlaces
    <3>3. pc = "turn" /\ Holds("nrfd") => Holds("nrfd")'
      BY <1>2, <3>2 DEF Wires
    <3> QED BY <1>1, <1>2, <1>7, <2>1, <2>4, <3>1, <3>3 DEF TalkOK
  <2>5. CASE state = "Out2"
    <3>1. Latched \/ Accepting
      BY <2>1, <2>5 DEF TalkInv, TalkOK
    <3> QED BY <1>1, <1>2, <2>1, <2>5, <3>1 DEF TalkOK
  <2> QED BY <2>2, <2>3, <2>4, <2>5 DEF Talks
<1>13. MoreOK'
  <2>1. ~Holds("atn")' => ~Holds("atn")
    BY <1>2, <1>8 DEF Wires
  <2> QED BY <1>1, <1>2, <1>b, <2>1 DEF TalkInv, MoreOK
<1>14. ReadOK'
  <2>1. opened /\ Latched => state = "Out2"
    <3>1. Asks(Set("cpu", "nrfd")) => ~Asks(Set("cpu", "atn"))
      BY <1>0, AsksAt, Distinct DEF Wires
    <3>2. opened /\ state = "Out1a" /\ Asks(Set("cpu", "nrfd")) => ~DrivePulls("nrfd")
      BY <3>1 DEF TalkInv, TalkOK, Talks
    <3> QED BY <1>7, <3>2 DEF TalkInv, ReadOK
  <2> QED BY <1>1, <1>2, <1>b, <2>1 DEF TalkInv, ReadOK
<1> QED BY <1>2, <1>10, <1>11, <1>12, <1>13, <1>14 DEF TalkInv

(* The channel of the file.                                                *)
LEMMA TheChannel == ASSUME BusInv, OneDevice PROVE C \in Channel
<1>1. trap \in TrapState
  BY BusFields DEF BusInv, Types, BusOK, TrapOK
<1> QED BY <1>1, TheDevice DEF TrapState, C

(* ATN falls under a talker, or where nobody talks.                        *)
LEMMA AttentionTalk ==
  ASSUME BusInv, OneDevice, FileInv, TalkInv, BusCall,
         Asks(Set("cpu", "atn")), state' = "In1", AtMostAsks(Bus, Bus')
  PROVE  TalkInv'
<1>0. Types /\ pc = "attention"
  BY AsksAt DEF BusInv
<1>1. /\ after' = after /\ opened' = opened /\ received' = received
      /\ (Latched' <=> Latched) /\ (Accepting' <=> Accepting) /\ (Ended' <=> Ended)
      /\ (Commanded' <=> Commanded)
      /\ ToTalk' => ToTalk \/ (Orders /\ after = "turn" /\ Left' = <<>>)
      /\ \A w : ~Asks(Set("cpu", w))' /\ ~Asks(Clr("cpu", w))'
  BY CallOfTalk
<1>2. Commanded /\ ~Latched /\ ~Accepting /\ ~Ended
  <2>1. Commanded
    BY <1>0 DEF Commanded
  <2> QED BY <2>1, ReadPlaces
<1>3. ~Orders
  BY <1>0, AsksAt, Distinct DEF Orders, Wires
<1>4. ~ToTalk
  <2>1. Left = todo
    BY <1>0 DEF Left
  <2>2. todo # <<>>
    BY DEF BusInv, AttentionOK
  <2>3. pc \notin {"turn", "receive"}
    BY <1>0
  <2> QED BY <2>1, <2>2, <2>3 DEF ToTalk
<1>5. Given(C)' = Given(C)
  <2>1. C \in Channel /\ ChannelFits(C)
    BY TheChannel DEF FileInv
  <2>2. Given(Fetched(C, TRUE)) = Given(C)
    BY <2>1, FetchedFits DEF NextOf
  <2>3. state \notin Talks \/ state = "Out2" => C' = C
    BY BusFields DEF AtMostAsks, Bus, C, Talks
  <2>4. C' = C \/ C' = Fetched(C, TRUE)
    BY <2>3, CallFetches, <1>0, AsksAt, Distinct DEF Wires
  <2> HIDE DEF C
  <2> QED BY <2>2, <2>4
<1>6. AnswerOK' /\ ByteOK' /\ TalkOK'
  BY <1>1, <1>3, <1>4 DEF AnswerOK, ByteOK, TalkOK, Talks
<1>7. MoreOK'
  BY <1>1, <1>2 DEF MoreOK
<1>8. ReadOK'
  BY <1>1, <1>2, <1>5 DEF TalkInv, ReadOK
<1> QED BY <1>1, <1>6, <1>7, <1>8 DEF TalkInv

(* ATN rises after the commands: the device turns round for a machine that *)
(* has not pulled NDAC yet, or that has pulled NRFD as well.               *)
LEMMA TurningTalk ==
  ASSUME BusInv, NameInv, OneDevice, HoldsOK, FileInv, TalkInv, BusCall,
         Asks(Clr("cpu", "atn")), Holds("atn"), opened,
         IF state = "In1" THEN TurnsRound(Changed(Bus, Head(calls)), Bus')
         ELSE state = "In2" /\ state' = "WaitATN" /\ trap' = trap
  PROVE  TalkInv'
<1> DEFINE b == Changed(Bus, Head(calls))
<1>0. Types /\ calls # <<>> /\ Head(calls) = Clr("cpu", "atn") /\ pc # "reset"
  BY DEF BusInv, Asks, FileInv, FreshOK
<1>1. /\ pc' = pc /\ setup' = setup /\ job' = job /\ opened' = opened /\ received' = received
      /\ (Latched' <=> Latched) /\ (Accepting' <=> Accepting) /\ (Ended' <=> Ended)
      /\ (Commanded' <=> Commanded)
      /\ ToTalk' => ToTalk \/ (Orders /\ after = "turn" /\ Left' = <<>>)
      /\ \A w : ~Asks(Set("cpu", w))' /\ ~Asks(Clr("cpu", w))'
      /\ \A w \in Wires : Holds(w)' <=> (Holds(w) /\ ~Asks(Clr("cpu", w))) \/ Asks(Set("cpu", w))
  BY CallOfTalk
<1>2. pc \in {"turn", "send", "receive", "idle"}
  BY <1>0, AsksAt
<1>3. ~Commanded /\ ~Latched /\ ~Accepting /\ ~Ended
  BY <1>2, Zenon DEF Commanded, Latched, Accepting, Ended
<1>4. ~Holds("atn")' /\ \A w \in {"nrfd", "ndac"} : Holds(w)' <=> Holds(w)
  <2>1. \A w \in {"nrfd", "ndac"} : ~Asks(Set("cpu", w)) /\ ~Asks(Clr("cpu", w))
    BY <1>0, AsksAt, Distinct DEF Wires
  <2>2. ~Asks(Set("cpu", "atn"))
    BY <1>0, AsksAt
  <2> QED BY <1>1, <2>1, <2>2 DEF Wires
<1>5. ~Orders
  BY <1>0, AsksAt DEF Orders
<1>6. ~ToTalk'
  BY <1>1, <1>3, <1>4 DEF ToTalk
<1>7. /\ b.par_status = par_status /\ b.line["ndac"] = line["ndac"] /\ b.line["nrfd"] = line["nrfd"]
      /\ b.state = state /\ b.trap = trap
  <2>1. Clr("cpu", "atn").wire = "atn"
    BY DEF Clr
  <2> QED BY <1>0, <2>1, FoundByHandler DEF Wires
<1>8. state = "In1"
  <2>1. Hears
    BY <1>0 DEF Hears, Holds
  <2>2. state = "In2" => "cpu" \in line["dav"]
    BY <2>1 DEF NameInv, HearsOK
  <2> QED BY <2>2 DEF BusInv, ReleaseOK
<1>9. TurnsRound(b, Bus')
  BY <1>8
<1>10. /\ trap' = trap
       /\ IF par_status.low = {} /\ par_status.role = "listen" THEN state' = "In1"
          ELSE IF par_status.low = {} /\ par_status.role = "talk"
          THEN IF line["ndac"] \ {"emu"} = {} THEN state' = "OldPet"
               ELSE state' = "Out1" /\ line["nrfd"] \ {"emu"} # {}
          ELSE state' = "WaitATN"
  <2>1. Bus'.state = state' /\ Bus'.trap = trap'
    BY DEF Bus
  <2> HIDE DEF b
  <2> QED BY <1>7, <1>8, <1>9, <2>1 DEF TurnsRound, Still
<1>11. C' = C /\ Given(C)' = Given(C) /\ (Kept(C)' <=> Kept(C))
  BY <1>10 DEF C
<1>12. job.kind = "read" => ToTalk
  <2>1. job.kind = "read" => InJob /\ ~Sending
    BY DEF NameInv, JobFits
  <2>2. job.kind = "read" => pc \in {"turn", "receive"}
    BY <1>2, <2>1, Zenon DEF InJob, Sending
  <2> QED BY <2>2 DEF ToTalk
<1>13. job.kind = "read" /\ Given(C) < FileLength => state' \in Talks
  BY <1>10, <1>12 DEF TalkInv, AnswerOK, Talks
<1>14. ASSUME state' \in Talks
       PROVE  /\ par_status.low = {} /\ par_status.role = "talk"
              /\ pc \in {"turn", "receive"} /\ job.kind = "read" /\ Kept(C) /\ Given(C) < FileLength
  <2>1. par_status.low = {} /\ par_status.role = "talk"
    BY <1>10, <1>14 DEF Talks
  <2>2. pc \in {"turn", "receive"}
    BY <1>2, <2>1 DEF BusInv, ReleaseOK, TalkInv, AnswerOK
  <2>3. ToTalk
    BY <2>2 DEF ToTalk
  <2>4. job.kind = "read"
    BY <2>2, ReadPlaces DEF NameInv, JobFits
  <2>5. Kept(C)
    BY <2>1, <2>3 DEF TalkInv, AnswerOK
  <2>6. Given(C) < FileLength
    BY <2>5, TheChannel, FileAssumption DEF FileInv, ChannelFits, Given, Channel
  <2> QED BY <2>1, <2>2, <2>4, <2>5, <2>6
<1>15. ByteOK' /\ AnswerOK' /\ state' \notin {"Out1a", "Out2"}
  <2>1. state' \notin {"Out1a", "Out2"}
    BY <1>10
  <2> QED BY <1>1, <1>6, <2>1 DEF ByteOK, AnswerOK
<1>16. TalkOK'
  <2>1. CASE state' = "OldPet"
    <3>1. line["ndac"] \ {"emu"} = {} /\ Kept(C) /\ pc \in {"turn", "receive"} /\ job.kind = "read"
      BY <1>10, <1>14, <2>1 DEF Talks
    <3>2. ~Holds("ndac")
      BY <3>1 DEF Holds
    <3>3. pc = "turn"
      BY <3>1, <3>2 DEF HoldsOK
    <3>4. ~setup.drive
      <4>1. setup.drive => setup.machine = "new"
        BY <1>0 DEF Types
      <4>2. ~Commanding
        BY DEF BusInv, ReleaseOK
      <4> QED BY <3>3, <4>1, <4>2, Zenon DEF Commanding
    <3> QED BY <1>1, <1>4, <1>11, <2>1, <3>1, <3>2, <3>3, <3>4 DEF TalkOK
  <2>2. CASE state' = "Out1"
    <3>1. line["nrfd"] \ {"emu"} # {} /\ job.kind = "read" /\ Given(C) < FileLength
      BY <1>10, <1>14, <2>2 DEF Talks
    <3>2. line'["nrfd"] \ {"emu"} = line["nrfd"] \ {"emu"}
      <4>1. Clr("cpu", "atn").wire = "atn"
        BY DEF Clr
      <4> QED BY <1>0, <4>1, BusCallIs DEF Wires
    <3> QED BY <1>1, <1>11, <2>2, <3>1, <3>2 DEF TalkOK
  <2> QED BY <1>15, <2>1, <2>2 DEF TalkOK, Talks
<1>17. MoreOK'
  BY <1>1, <1>11, <1>13 DEF MoreOK
<1>18. ReadOK'
  BY <1>1, <1>3, <1>11 DEF TalkInv, ReadOK
<1> QED BY <1>1, <1>15, <1>16, <1>17, <1>18 DEF TalkInv

(* The device hears the machine: it is no talker, but may be told to be.   *)
LEMMA HearingTalk ==
  ASSUME BusInv, NameInv, OneDevice, FileInv, TalkInv, BusCall,
         \/ Asks(Clr("cpu", "dav")) /\ state = "In2" /\ state' = "In1" /\ trap' = trap
         \/ Orders /\ state = "In1" /\ state' = "In2"
         \/ Gives /\ state = "In1" /\ state' = "In2"
  PROVE  TalkInv'
<1>0. Types
  BY DEF BusInv
<1>1. /\ job' = job /\ after' = after /\ opened' = opened /\ received' = received
      /\ (Latched' <=> Latched) /\ (Accepting' <=> Accepting) /\ (Ended' <=> Ended)
      /\ (Commanded' <=> Commanded)
      /\ ToTalk' => ToTalk \/ (Orders /\ after = "turn" /\ Left' = <<>>)
      /\ \A w : ~Asks(Set("cpu", w))' /\ ~Asks(Clr("cpu", w))'
  BY CallOfTalk
<1>2. state' \notin Talks /\ state \notin Talks
  BY DEF Talks
<1>3. ByteOK' /\ TalkOK'
  BY <1>2 DEF ByteOK, TalkOK, Talks
<1>4. Commanded \/ Sending \/ pc = "reset"
  <2>1. Asks(Clr("cpu", "dav")) => pc \in {"command", "send", "reset"}
    BY <1>0, AsksAt
  <2> QED BY <2>1, Zenon DEF Commanded, Sending, Orders, Gives
<1>5. ~Latched /\ ~Accepting /\ ~Ended /\ pc \notin {"turn", "receive"}
  BY <1>4, ReadPlaces
<1>6. MoreOK'
  <2>1. opened => Commanded \/ job.kind # "read"
    BY <1>4 DEF NameInv, JobFits, FileInv, FreshOK
  <2> QED BY <1>1, <2>1 DEF MoreOK
<1>7. CASE Asks(Clr("cpu", "dav")) /\ state = "In2" /\ state' = "In1" /\ trap' = trap
  <2>1. C' = C /\ Given(C)' = Given(C) /\ (Kept(C)' <=> Kept(C))
    BY <1>7 DEF C
  <2>2. par_status' = par_status
    BY <1>7, CallTells
  <2>3. ~Orders
    BY <1>0, <1>7, AsksAt DEF Orders
  <2>4. ToTalk' => ToTalk
    BY <1>1, <2>3
  <2>5. AnswerOK'
    BY <1>1, <2>1, <2>2, <2>4 DEF TalkInv, AnswerOK
  <2>6. ReadOK'
    BY <1>1, <1>5, <2>1 DEF TalkInv, ReadOK
  <2> QED BY <1>1, <1>3, <1>6, <2>5, <2>6 DEF TalkInv
<1>8. CASE Orders
  <2>1. /\ opened => Given(C)' = Given(C)
        /\ opened /\ after = "turn" /\ Left' = <<>> =>
             par_status' = [role |-> "talk", low |-> C'.lastst \ {"eof"}] /\ C' = Fetched(C, TRUE)
        /\ ChannelFits(C')
    BY <1>8, OrderedAt DEF FileInv
  <2>2. ~ToTalk
    <3>1. Left # <<>>
      <4>1. Left = todo
        BY <1>8, CallControl, Zenon DEF Orders
      <4>2. todo # <<>>
        BY <1>8, Zenon DEF BusInv, CommandsOK, Orders
      <4> QED BY <4>1, <4>2
    <3> QED BY <1>5, <3>1 DEF ToTalk
  <2>3. C' \in Channel
    BY CallKeeps, TheChannel, TheDevice DEF BusInv, Types, BusOK, Bus, TrapOK, TrapState, C
  <2>4. ASSUME opened, ToTalk'
        PROVE  /\ par_status'.role = "talk"
               /\ par_status'.low = {} => Kept(C')
               /\ Given(C') < FileLength => par_status'.low = {}
    <3>1. par_status' = [role |-> "talk", low |-> C'.lastst \ {"eof"}] /\ C' = Fetched(C, TRUE)
      BY <1>1, <2>1, <2>2, <2>4
    <3>2. C'.lastok = TRUE /\ C'.open = C.open
      BY <3>1, FetchedAt, TheChannel
    <3>3. C.open
      BY <2>4 DEF NameInv, ChannelOK
    <3>4. C'.lastst \subseteq {"eof", "error"}
      BY <2>3 DEF Channel
    <3>5. C'.lastst \ {"eof"} = {} <=> "error" \notin C'.lastst
      BY <3>4
    <3>6. ~Kept(C') => Given(C') = FileLength
      BY <2>1, <3>2, <3>3 DEF ChannelFits, Given
    <3>7. FileLength \in Nat
      BY FileAssumption
    <3> HIDE DEF C
    <3>8. Kept(C') <=> "error" \notin C'.lastst
      BY <3>2 DEF Kept
    <3>9. ~(FileLength < FileLength)
      BY <3>7
    <3> QED BY <3>1, <3>5, <3>6, <3>8, <3>9
  <2>5. AnswerOK'
    BY <1>1, <2>4 DEF AnswerOK
  <2>6. ReadOK'
    BY <1>1, <1>5, <2>1 DEF TalkInv, ReadOK
  <2> QED BY <1>1, <1>3, <1>6, <2>5, <2>6 DEF TalkInv
<1>9. CASE Gives /\ state = "In1"
  <2>1. Given(C)' = Given(C)
    BY <1>9, GivenAt
  <2>2. ~Orders /\ ~Commanded
    BY <1>9, Places DEF Orders, Commanded
  <2>3. ~ToTalk'
    BY <1>1, <1>5, <2>2 DEF ToTalk
  <2>4. AnswerOK'
    BY <1>1, <2>3 DEF AnswerOK
  <2>5. ReadOK'
    BY <1>1, <1>5, <2>1 DEF TalkInv, ReadOK
  <2> QED BY <1>1, <1>3, <1>6, <2>4, <2>5 DEF TalkInv
<1> QED BY <1>7, <1>8, <1>9

(* The device sends the byte that is to be read next.                      *)
LEMMA SentAt ==
  ASSUME BusInv, NameInv, OneDevice, FileInv, BusCall, opened,
         trap.device = [role |-> "talk", device |-> V], Kept(C) \/ Given(C) < FileLength,
         NEW b, b.trap = trap, Sends(b, Bus')
  PROVE  /\ state' = "Out1a" /\ ByteOK' /\ Given(C)' = Given(C)
<1>1. Bus'.state = state' /\ Bus'.trap = trap' /\ Bus'.data = data' /\ Bus'.line = line'
  BY DEF Bus
<1>2. TrapOK(trap) /\ trap.device # Nobody /\ trap.device.device = V
  <2>1. TrapOK(trap)
    BY BusFields DEF BusInv, Types, BusOK
  <2>2. trap.device.role = "talk" /\ trap.device.device = V
    OBVIOUS
  <2>3. Nobody.role = "none"
    BY DEF Nobody
  <2> QED BY <2>1, <2>2, <2>3
<1> DEFINE r == parallel_trap_receivebyte(trap, TRUE)
<1>3. r.t.channel[V] = Fetched(C, TRUE) /\ r.byte = Fetched(C, TRUE).lastbyte
      /\ r.status.low = Fetched(C, TRUE).lastst
  <2>1. /\ r.t.channel[V] = Fetched(trap.channel[V], TRUE)
        /\ r.byte = Fetched(trap.channel[V], TRUE).lastbyte
        /\ r.status = [role |-> trap.device.role, low |-> Fetched(trap.channel[V], TRUE).lastst]
    BY <1>2, ReceivebyteAt
  <2> HIDE DEF r
  <2>2. r.status.low = Fetched(trap.channel[V], TRUE).lastst
    BY <2>1
  <2> QED BY <2>1, <2>2 DEF C
<1>4. /\ state' = "Out1a" /\ trap' = r.t /\ data'["emu"] = r.byte
      /\ "dav" \in Mine(Bus') /\ ("eoi" \in Mine(Bus') <=> "eof" \in r.status.low)
  BY <1>1 DEF Sends
<1>5. /\ "dav" \in Mine(Bus') <=> "emu" \in line'["dav"]
      /\ "eoi" \in Mine(Bus') <=> "emu" \in line'["eoi"]
  BY <1>1 DEF Mine, Wires
<1>6. C' = Fetched(C, TRUE)
  BY <1>3, <1>4 DEF C
<1>7. NextOf(C, TRUE, Fetched(C, TRUE)) /\ C.open
  BY TheChannel, FetchedFits DEF FileInv, NameInv, ChannelOK
<1>8. Kept(C') /\ Given(C') = Given(C)
  BY <1>6, <1>7 DEF NextOf
<1> QED BY <1>3, <1>4, <1>5, <1>6, <1>8 DEF ByteOK

(* The handshake of a talker: machine and drive change NRFD and NDAC.      *)
LEMMA ShakingTalk ==
  ASSUME BusInv, NameInv, OneDevice, DriveInv, HoldsOK, FileInv, TalkInv, BusCall, opened,
         Head(calls).wire \in {"nrfd", "ndac"}, Falls(Bus, Head(calls)),
         <<state, Change(Head(calls))>> \in Talking,
         Reply(Changed(Bus, Head(calls)), Change(Head(calls)), Bus')
  PROVE  TalkInv'
<1> DEFINE c == Head(calls)
           b == Changed(Bus, c)
           x == Bus'
<1>0. Types /\ calls # <<>> /\ c \in Call
  BY FirstCall DEF BusInv, BusCall
<1>0a. CallsOK
  BY <1>0 DEF Types
<1>1. /\ pc' = pc /\ setup' = setup /\ job' = job /\ after' = after
      /\ opened' = opened /\ received' = received
      /\ (Watching' <=> Watching) /\ (Latched' <=> Latched)
      /\ (Accepting' <=> Accepting) /\ (Ended' <=> Ended) /\ (Commanded' <=> Commanded)
      /\ (NextByte' <=> NextByte)
      /\ ToTalk' => ToTalk \/ (Orders /\ after = "turn" /\ Left' = <<>>)
      /\ \A w : ~Asks(Set("cpu", w))' /\ ~Asks(Clr("cpu", w))'
      /\ \A w \in Wires : Holds(w)' <=> (Holds(w) /\ ~Asks(Clr("cpu", w))) \/ Asks(Set("cpu", w))
      /\ DrivePulls("nrfd")' => DrivePulls("nrfd")
  BY CallOfTalk
<1>2. b.state = state /\ b.trap = trap /\ b.data = data
  BY <1>0, FoundByHandler
<1>2a. Mine(b) = Mine(Bus) /\ \A u \in Wires : b.line[u] = IF u = c.wire THEN Pulls(Bus, c) ELSE line[u]
  BY <1>0, FoundByHandler
<1>3. state \in Talks
  BY DEF Talking, Talks
<1>4. x.state = state' /\ x.trap = trap' /\ x.data = data' /\ x.line = line'
  BY DEF Bus
<1>5. \A call : Asks(call) <=> c = call
  BY <1>0 DEF Asks
<1>6. /\ c.who \in {"cpu", "drv"} /\ c.low \in BOOLEAN
      /\ c = IF c.low THEN Set(c.who, c.wire) ELSE Clr(c.who, c.wire)
      /\ c.who = "drv" => setup.drive
  BY <1>0, FirstCall DEF Call, Set, Clr
<1> HIDE DEF c, b, x
<1>7. \A w \in {"nrfd", "ndac"} :
        /\ Change(c) = Low(w) => c = Set(c.who, w) /\ line[w] = {}
        /\ Change(c) = High(w) => c = Clr(c.who, w) /\ line[w] = {c.who}
  <2>1. Change(c) = <<c.wire, IF c.low THEN "low" ELSE "high">>
    BY DEF Change
  <2>2. \A w \in {"nrfd", "ndac"} : Change(c) = Low(w) => c.wire = w /\ c.low
    BY <1>6, <2>1 DEF Low
  <2>3. \A w \in {"nrfd", "ndac"} : Change(c) = High(w) => c.wire = w /\ ~c.low
    BY <1>6, <2>1 DEF High
  <2>4. Falls(Bus, c)
    BY DEF c
  <2> QED BY <1>6, <2>2, <2>3, <2>4, WireFalls DEF Wires
<1>8. ~Asks(Set("cpu", "atn")) /\ ~Orders
  <2>1. c.wire \in {"nrfd", "ndac"}
    BY DEF c
  <2>2. Set("cpu", "atn").wire = "atn" /\ Set("cpu", "dav").wire = "dav"
    BY DEF Set
  <2> QED BY <1>5, <2>1, <2>2 DEF Orders
<1>9. /\ ~Holds("atn") /\ ~Commanded /\ (pc = "turn" => setup.machine # "new")
      /\ setup.drive => setup.machine = "new"
      /\ \A w \in {"nrfd", "ndac"} : "emu" \notin line[w] /\ ("drv" \in line[w] => setup.drive)
  BY <1>3, <1>8, TalkerIs
<1>10. job.kind = "read" /\ InJob /\ ~Sending
  BY <1>3 DEF TalkInv, TalkOK, NameInv, JobFits
<1>11. trap.device = [role |-> "talk", device |-> V] /\ C.open
  BY <1>9, <1>10, Places DEF NameInv, JobFits, ToldOK, Role, ChannelOK
<1>12. pc = "turn" \/ pc = "receive" \/ Watching \/ Latched \/ Accepting \/ Ended
  BY <1>0, <1>9, <1>10, ReadPlaces
<1>13. AnswerOK'
  <2>1. ~ToTalk'
    BY <1>1, <1>8, <1>9 DEF ToTalk
  <2> QED BY <1>1, <2>1 DEF AnswerOK
<1>14. received' \in Seq(Nat)
  BY <1>1 DEF TalkInv
<1>15. C \in Channel /\ ChannelFits(C) /\ FileLength \in Nat
  BY TheChannel, FileAssumption DEF FileInv
<1>16. Kept(C) => Given(C) < FileLength
  BY <1>15 DEF ChannelFits, Given, Channel
<1>17. Sends(b, x) /\ (Kept(C) \/ Given(C) < FileLength) =>
         state' = "Out1a" /\ ByteOK' /\ Given(C)' = Given(C)
  BY <1>2, <1>11, SentAt DEF x
<1>18. ASSUME state' = "Out1a", ByteOK', Given(C)' = Given(C), state # "Out2",
              ~DrivePulls("nrfd")', pc \in {"turn", "receive"} \/ Watching,
              pc = "turn" => Holds("nrfd")' \/ setup.machine = "old"
       PROVE  TalkInv'
  <2>1. TalkOK'
    BY <1>1, <1>10, <1>18 DEF TalkOK
  <2>2. MoreOK'
    BY <1>18 DEF MoreOK, Talks
  <2>3. ReadOK'
    <3>1. ~Latched /\ ~Accepting /\ ~Ended
      BY <1>18, ReadPlaces
    <3> QED BY <1>1, <1>18, <3>1 DEF TalkInv, ReadOK
  <2> QED BY <1>13, <1>14, <1>18, <2>1, <2>2, <2>3 DEF TalkInv
<1>19. CASE state = "OldPet"
  <2>1. /\ pc = "turn" /\ Kept(C) /\ ~Holds("ndac") /\ ~setup.drive
        /\ Asks(Set("cpu", "ndac")) => Holds("nrfd") \/ setup.machine = "old"
    BY <1>19 DEF TalkInv, TalkOK, Talks
  <2>2. c.who = "cpu" /\ ~DrivePulls("nrfd")'
    <3>1. c.who = "cpu"
      BY <1>6, <2>1
    <3>2. ~Comes("nrfd")
      <4> SUFFICES ASSUME NEW i \in DOMAIN calls, calls[i] = Set("drv", "nrfd")
                   PROVE  FALSE
        BY DEF Comes
      <4>1. calls[i].who = "drv"
        BY DEF Set
      <4>2. i \in 1..Len(calls)
        BY <1>0, <1>0a DEF CallsOK
      <4> QED BY <1>0a, <2>1, <4>1, <4>2 DEF CallsOK
    <3> QED BY <1>1, <1>9, <2>1, <3>1, <3>2 DEF DrivePulls
  <2>3. CASE Change(c) = Low("ndac")
    <3>1. Asks(Set("cpu", "ndac"))
      BY <1>5, <1>7, <2>2, <2>3
    <3>2. IF Pulled(b, "nrfd") THEN x.state = "Out1" /\ x.trap = b.trap ELSE Sends(b, x)
      BY <1>2, <1>19, <2>3 DEF Reply, c, b, x
    <3>3. b.line["nrfd"] = line["nrfd"]
      <4>1. c.wire = "ndac"
        BY <1>7, <2>3 DEF Set
      <4> QED BY <1>2a, <4>1 DEF Wires
    <3>4. Holds("nrfd")' <=> Holds("nrfd")
      BY <1>1, <1>5, <3>1, Distinct DEF Wires
    <3>5. CASE Pulled(b, "nrfd")
      <4>1. state' = "Out1" /\ trap' = trap
        BY <1>2, <1>4, <3>2, <3>5
      <4>2. Holds("nrfd")
        <5>1. line["nrfd"] # {}
          BY <3>3, <3>5 DEF Pulled
        <5> QED BY <1>3, <1>9, <2>1, <5>1, TalkerIs
      <4>3. line'["nrfd"] # {}
        BY <3>4, <4>2 DEF Holds
      <4>4. C' = C /\ Given(C)' = Given(C)
        BY <4>1 DEF C
      <4>5. TalkOK' /\ ByteOK'
        BY <1>1, <1>10, <1>16, <2>1, <4>1, <4>3, <4>4 DEF TalkOK, ByteOK
      <4>6. MoreOK'
        BY <4>1 DEF MoreOK, Talks
      <4>7. ReadOK'
        <5>1. ~Latched /\ ~Accepting /\ ~Ended
          BY <2>1, ReadPlaces
        <5> QED BY <1>1, <4>4, <5>1 DEF TalkInv, ReadOK
      <4> QED BY <1>13, <1>14, <4>5, <4>6, <4>7 DEF TalkInv
    <3>6. CASE ~Pulled(b, "nrfd")
      <4>1. ~Holds("nrfd")
        BY <3>3, <3>6 DEF Pulled, Holds
      <4>2. state' = "Out1a" /\ ByteOK' /\ Given(C)' = Given(C)
        BY <1>17, <2>1, <3>2, <3>6
      <4> QED BY <1>18, <1>19, <2>1, <2>2, <3>1, <4>1, <4>2
    <3> QED BY <3>5, <3>6
  <2>4. CASE Change(c) = Low("nrfd")
    <3>1. Asks(Set("cpu", "nrfd"))
      BY <1>5, <1>7, <2>2, <2>4
    <3>2. Sends(b, x)
      BY <1>2, <1>19, <2>4 DEF Reply, c, b, x
    <3>3. Holds("nrfd")'
      BY <1>1, <3>1 DEF Wires
    <3>4. state' = "Out1a" /\ ByteOK' /\ Given(C)' = Given(C)
      BY <1>17, <2>1, <3>2
    <3> QED BY <1>18, <1>19, <2>1, <2>2, <3>3, <3>4
  <2> QED BY <1>19, <2>3, <2>4 DEF Talking, c
<1>20. CASE state = "Out1"
  <2>1. Given(C) < FileLength
    BY <1>20 DEF TalkInv, TalkOK, Talks
  <2>2. Change(c) = High("nrfd")
    BY <1>20 DEF Talking, c
  <2>3. Sends(b, x)
    BY <1>2, <1>20, <2>2 DEF Reply, c, b, x
  <2>4. state' = "Out1a" /\ ByteOK' /\ Given(C)' = Given(C)
    BY <1>17, <2>1, <2>3
  <2>5. c = Clr(c.who, "nrfd") /\ line["nrfd"] = {c.who}
    BY <1>7, <2>2
  <2>6. ~DrivePulls("nrfd")'
    <3>1. calls' = Tail(calls) /\ Tail(calls) = <<>>
      BY <1>0, <1>5, <1>6, <2>5 DEF DriveInv, QueueOK, BusCall
    <3>2. ~Comes("nrfd")'
      BY <3>1 DEF Comes
    <3>3. line'["nrfd"] \ {"emu"} = Pulls(Bus, c) \ {"emu"}
      <4>1. c.wire = "nrfd"
        BY <2>5 DEF Clr
      <4> QED BY <4>1, BusCallIs DEF Wires, c
    <3>4. Pulls(Bus, c) = {}
      <4>1. c.wire = "nrfd" /\ ~c.low
        BY <2>5 DEF Clr
      <4> QED BY <2>5, <4>1, BusFields DEF Pulls
    <3> QED BY <3>2, <3>3, <3>4 DEF DrivePulls
  <2>7. ~Latched /\ ~Ended
    <3>1. ~Latched
      BY <1>5, <1>20, <2>5, Distinct DEF TalkInv, ReadOK
    <3>2. Ended => Given(C) = FileLength
      BY <1>15, ReadPlaces DEF TalkInv, ReadOK
    <3>3. ~(FileLength < FileLength)
      BY <1>15
    <3> QED BY <2>1, <3>1, <3>2, <3>3
  <2>8. c.who = "cpu" => Watching
    <3>1. c.who = "cpu" => pc \in {"attention", "reset"} \/ Watching
      BY <1>0, <1>5, <2>5, HandshakeAt
    <3>2. pc = "attention" => Commanded
      BY DEF Commanded
    <3> QED BY <1>9, <1>10, <3>1, <3>2 DEF InJob
  <2>9. pc \in {"turn", "receive"} \/ Watching
    <3>1. c.who = "drv" => ~Holds("nrfd")
      BY <2>5 DEF Holds
    <3>2. c.who = "drv" => ~Accepting
      BY <3>1 DEF HoldsOK
    <3> QED BY <1>6, <1>12, <2>7, <2>8, <3>2
  <2>10. pc # "turn"
    <3>1. pc = "turn" => c.who # "cpu" /\ ~setup.drive
      BY <1>9, <2>8, ReadPlaces
    <3> QED BY <1>6, <3>1
  <2> QED BY <1>18, <1>20, <2>4, <2>6, <2>9, <2>10
<1>21. CASE state = "Out1a"
  <2>1. /\ ~DrivePulls("nrfd")
        /\ pc \in {"turn", "receive"} \/ Watching \/ Asks(Set("cpu", "nrfd"))
        /\ pc = "turn" => Holds("nrfd") \/ setup.machine = "old"
    BY <1>8, <1>21 DEF TalkInv, TalkOK, Talks
  <2>2. Change(c) = High("ndac") \/ Change(c) = Low("nrfd")
    BY <1>21 DEF Talking, c
  <2>3. ~(Change(c) = High("ndac"))
    <3> SUFFICES ASSUME Change(c) = High("ndac")
                 PROVE  FALSE
      OBVIOUS
    <3>1. c = Clr(c.who, "ndac") /\ line["ndac"] = {c.who}
      BY <1>7
    <3>2. ~Asks(Set("cpu", "nrfd")) /\ ~Asks(Set("cpu", "ndac"))
      <4>1. ~c.low
        BY <3>1 DEF Clr
      <4>2. Set("cpu", "nrfd").low /\ Set("cpu", "ndac").low
        BY DEF Set
      <4> QED BY <1>5, <4>1, <4>2
    <3>3. pc \in {"turn", "receive"} \/ Watching
      BY <2>1, <3>2
    <3>4. c.who = "cpu" => pc \in {"attention", "reset"} \/ Accepting
      BY <1>0, <1>5, <3>1, HandshakeAt
    <3>5. c.who = "drv"
      BY <1>6, <3>3, <3>4, ReadPlaces
    <3>6. pc # "turn"
      BY <1>6, <1>9, <3>5
    <3>7. Holds("ndac")
      BY <3>2, <3>3, <3>6 DEF HoldsOK
    <3> QED BY <3>1, <3>5, <3>7 DEF Holds
  <2>4. Change(c) = Low("nrfd")
    BY <2>2, <2>3
  <2>5. c = Set(c.who, "nrfd")
    BY <1>7, <2>4
  <2>6. c.who = "cpu"
    <3>1. c.who = "drv" => Comes("nrfd")
      <4>1. c = calls[1]
        BY <1>0, FirstCall DEF c
      <4>2. 1 \in DOMAIN calls
        BY <1>0, <1>0a DEF CallsOK
      <4> QED BY <2>5, <4>1, <4>2 DEF Comes
    <3> QED BY <1>6, <2>1, <3>1 DEF DrivePulls
  <2>7. Latched
    <3>1. Asks(Set("cpu", "nrfd"))
      BY <1>5, <2>5, <2>6
    <3>2. pc = "turn" \/ Latched
      BY <1>0, <3>1, HandshakeAt
    <3> QED BY <2>1, <3>1, <3>2 DEF HoldsOK
  <2>8. state' = "Out2" /\ trap' = trap /\ data' = data /\ Mine(x) = Mine(Bus)
    BY <1>2, <1>2a, <1>4, <1>21, <2>4 DEF Reply, c, b, x
  <2>9. C' = C /\ Given(C)' = Given(C) /\ (Kept(C)' <=> Kept(C))
    BY <2>8 DEF C
  <2>10. \A w \in Wires : "emu" \in line'[w] <=> "emu" \in line[w]
    BY <1>4, <2>8, BusFields DEF Mine
  <2>11. ByteOK'
    BY <1>1, <1>21, <2>8, <2>9, <2>10 DEF TalkInv, ByteOK, Wires
  <2>12. TalkOK'
    BY <1>1, <1>10, <2>7, <2>8 DEF TalkOK
  <2>13. MoreOK'
    BY <2>8 DEF MoreOK, Talks
  <2>14. ReadOK'
    <3>1. ~Accepting /\ ~Ended
      BY <2>7, ReadPlaces
    <3> QED BY <1>1, <2>8, <2>9, <3>1 DEF TalkInv, ReadOK
  <2> QED BY <1>13, <1>14, <2>11, <2>12, <2>13, <2>14 DEF TalkInv
<1>22. CASE state = "Out2"
  <2>1. Latched \/ Accepting
    BY <1>8, <1>22 DEF TalkInv, TalkOK, Talks
  <2>2. Change(c) = High("ndac")
    BY <1>22 DEF Talking, c
  <2>3. c = Clr(c.who, "ndac") /\ line["ndac"] = {c.who}
    BY <1>7, <2>2
  <2>4. Accepting /\ ~Latched /\ ~Ended
    <3>1. Latched => c.who = "cpu"
      BY <2>3 DEF HoldsOK, Holds
    <3>2. c.who = "cpu" => pc \in {"attention", "reset"} \/ Accepting
      BY <1>0, <1>5, <2>3, HandshakeAt
    <3> QED BY <2>1, <3>1, <3>2, ReadPlaces
  <2>5. GoesOn(b, x)
    BY <1>2, <1>22, <2>2 DEF Reply, c, b, x
  <2> DEFINE r == parallel_trap_receivebyte(trap, FALSE)
  <2>6. trap' = r.t /\ state' = IF r.status.low = {} THEN "Out1" ELSE "WaitATN"
    BY <1>2, <1>4, <2>5 DEF GoesOn
  <2>7. /\ r.t.channel[V] = Fetched(trap.channel[V], FALSE)
        /\ r.status = [role |-> trap.device.role, low |-> Fetched(trap.channel[V], FALSE).lastst]
    <3>1. TrapOK(trap) /\ trap.device # Nobody /\ trap.device.device = V
      <4>1. TrapOK(trap) /\ trap.device # Nobody
        BY <1>3, BusFields, TalkerAddressed DEF BusInv, Types
      <4>2. trap.device.device = V
        BY <1>11
      <4> QED BY <4>1, <4>2
    <3> QED BY <3>1, ReceivebyteAt
  <2> HIDE DEF r
  <2>8. r.status.low = Fetched(trap.channel[V], FALSE).lastst
    BY <2>7
  <2>9. C' = Fetched(C, FALSE) /\ r.status.low = Fetched(C, FALSE).lastst
    BY <2>6, <2>7, <2>8 DEF C
  <2>10. Kept(C)
    BY <1>22 DEF TalkInv, ByteOK
  <2>11. Given(C') = Given(C) + 1 /\ C'.lastst = C.lastst
    BY <1>15, <2>9, <2>10, FetchedFits DEF NextOf
  <2>12. C.lastst = {} <=> C.pos # FileLength
    <3>1. C.lastst \subseteq {"eof", "error"} /\ "error" \notin C.lastst
      BY <1>15, <2>10 DEF Channel, Kept
    <3>2. "eof" \in C.lastst <=> C.pos = FileLength
      BY <1>15, <2>10 DEF ChannelFits
    <3> QED BY <3>1, <3>2
  <2>13. C.pos \in Nat /\ C.pos # 0 /\ C.pos <= FileLength /\ Given(C) = C.pos - 1
    BY <1>15, <2>10 DEF ChannelFits, Given, Channel
  <2>14. Given(C') = C.pos
    BY <2>11, <2>13
  <2>15. state' = IF C.pos # FileLength THEN "Out1" ELSE "WaitATN"
    BY <2>6, <2>9, <2>11, <2>12
  <2>16. TalkOK' /\ ByteOK'
    <3>1. Holds("nrfd")
      BY <2>4 DEF HoldsOK
    <3>2. ~Asks(Clr("cpu", "nrfd"))
      <4>1. c.wire = "ndac"
        BY <2>3 DEF Clr
      <4> QED BY <1>5, <4>1 DEF Clr
    <3>3. line'["nrfd"] # {}
      BY <1>1, <3>1, <3>2 DEF Wires, Holds
    <3>4. state' = "Out1" => Given(C') < FileLength
      BY <1>15, <2>13, <2>14, <2>15
    <3> QED BY <1>1, <1>10, <2>15, <3>3, <3>4 DEF TalkOK, ByteOK, Talks
  <2>17. MoreOK'
    <3>1. Given(C') < FileLength => C.pos # FileLength
      BY <1>15, <2>14
    <3> QED BY <2>15, <3>1 DEF MoreOK, Talks
  <2>18. ReadOK'
    <3>1. Given(C) = Len(received) /\ NextByte
      BY <1>1, <1>22, <2>4 DEF TalkInv, ReadOK
    <3>2. state' # "Out2"
      BY <2>15
    <3> QED BY <1>1, <2>4, <2>11, <3>1, <3>2 DEF ReadOK
  <2> QED BY <1>13, <1>14, <2>16, <2>17, <2>18 DEF TalkInv
<1> QED BY <1>3, <1>19, <1>20, <1>21, <1>22 DEF Talks

(* Where the program has no file, there is nothing to say.                 *)
LEMMA UnopenedTalk ==
  ASSUME ~opened', received' \in Seq(Nat),
         Asks(Clr("cpu", "atn"))' /\ pc' = "idle" => par_status'.role # "talk"
  PROVE  TalkInv'
  BY DEF TalkInv, AnswerOK, ByteOK, TalkOK, MoreOK, ReadOK

(* A call keeps what is said of the talker.                                *)
LEMMA CallKeepsTalk ==
  ASSUME BusInv, NameInv, DriveInv, OneDevice, HoldsOK, FileInv, TalkInv, BusCall
  PROVE  TalkInv'
<1>0. Types /\ calls # <<>>
  BY DEF BusInv, BusCall
<1>1. /\ opened' = opened /\ received' = received
      /\ \A w : ~Asks(Set("cpu", w))' /\ ~Asks(Clr("cpu", w))'
  BY CallOfTalk
<1>2. \A call : Asks(call) <=> Head(calls) = call
  BY <1>0 DEF Asks
<1>3. CASE ~opened
  BY <1>1, <1>3, UnopenedTalk DEF TalkInv
<1>4. CASE Asks(Set("cpu", "dav")) /\ state = "In1"
  <2>1. state' = "In2"
    BY <1>4, CallTells
  <2>2. Orders \/ Gives
    BY <1>0, <1>4, AsksAt, Zenon DEF Orders, Gives
  <2> QED BY <1>4, <2>1, <2>2, HearingTalk
<1>5. CASE opened /\ ~(Asks(Set("cpu", "dav")) /\ state = "In1")
  <2>1. ~Orders
    <3>1. Orders => Asks(Set("cpu", "dav")) /\ state = "In1"
      BY Zenon DEF Orders, BusInv, BytesOK
    <3> QED BY <1>5, <3>1
  <2>2. CASE Still(Bus, Bus') /\ ~(Falls(Bus, Head(calls)) /\ <<state, Change(Head(calls))>> \in Active)
    BY <2>1, <2>2, StillTalk
  <2>3. CASE Head(calls) = Set("cpu", "atn") /\ state' = "In1" /\ AtMostAsks(Bus, Bus')
    BY <1>2, <2>3, AttentionTalk
  <2>4. CASE Head(calls) = Clr("cpu", "atn") /\ "cpu" \in line["atn"] /\
               IF state = "In1" THEN TurnsRound(Changed(Bus, Head(calls)), Bus')
               ELSE state = "In2" /\ state' = "WaitATN" /\ trap' = trap
    BY <1>2, <1>5, <2>4, TurningTalk DEF Holds
  <2>5. CASE Head(calls) = Clr("cpu", "dav") /\ state = "In2" /\ state' = "In1" /\ trap' = trap
    BY <1>2, <2>5, HearingTalk
  <2>6. CASE /\ Head(calls).wire \in {"nrfd", "ndac"} /\ Falls(Bus, Head(calls))
             /\ <<state, Change(Head(calls))>> \in Talking
             /\ Reply(Changed(Bus, Head(calls)), Change(Head(calls)), Bus')
    BY <1>5, <2>6, ShakingTalk
  <2> QED BY <1>5, <2>2, <2>3, <2>4, <2>5, <2>6, CallTalks
<1> QED BY <1>3, <1>4, <1>5

(* A step of the machine where nobody talks.                               *)
LEMMA SilentTalk ==
  ASSUME TalkInv, UNCHANGED <<line, state, par_status, trap, received, opened>>, state \notin Talks,
         ToTalk' => ToTalk,
         Asks(Clr("cpu", "atn"))' /\ pc' = "idle" => par_status.role # "talk",
         opened /\ job'.kind = "read" => Commanded' \/ Holds("atn"),
         ~Accepting, ~Accepting', ~Latched', ~Ended'
  PROVE  TalkInv'
<1>1. C' = C /\ Given(C)' = Given(C) /\ (Kept(C)' <=> Kept(C))
  BY DEF C
<1>2. (Holds("atn")' <=> Holds("atn")) /\ state' \notin Talks
  BY DEF Holds
<1>3. AnswerOK'
  BY <1>1 DEF TalkInv, AnswerOK
<1>4. ByteOK' /\ TalkOK'
  BY <1>2 DEF ByteOK, TalkOK, Talks
<1>5. MoreOK'
  BY <1>2 DEF MoreOK
<1>6. ReadOK'
  BY <1>1 DEF TalkInv, ReadOK
<1> QED BY <1>3, <1>4, <1>5, <1>6 DEF TalkInv

(* Among the commands nobody talks.                                        *)
LEMMA CommandingTalk ==
  ASSUME BusInv, TalkInv, calls = <<>>, WatchWires \/ SendCommand \/ CommandTaken
  PROVE  TalkInv'
<1>1. /\ UNCHANGED <<line, state, par_status, trap, received, opened, after>>
      /\ Commanded /\ Commanded' /\ Left' = Left
  BY SameLeft
<1>2. /\ ~Accepting /\ ~Accepting' /\ ~Latched' /\ ~Ended'
      /\ pc' # "idle" /\ pc' \notin {"turn", "receive"}
  BY <1>1, ReadPlaces, ReadPlacesNext
<1>3. state \notin Talks
  BY <1>1, TalkerIs, Returned
<1>4. ToTalk' => ToTalk
  BY <1>1, <1>2 DEF ToTalk
<1> QED BY <1>1, <1>2, <1>3, <1>4, SilentTalk

(* The machine sends data.                                                 *)
LEMMA SendingTalk ==
  ASSUME BusInv, NameInv', TalkInv, calls = <<>>, StartSending \/ SendByte \/ ByteTaken
  PROVE  TalkInv'
<1>1. /\ UNCHANGED <<line, state, par_status, trap, received, opened>> /\ Sending'
      /\ Commanded \/ Sending
  BY DEF StartSending, SendByte, ByteTaken, ReleaseAtn, Cpu, Quiet, Sending, Commanded, file, device
<1>2. ~Commanded' /\ job'.kind # "read"
  BY <1>1, PlacesNext DEF NameInv, JobFits
<1>3. /\ ~Accepting /\ ~Accepting' /\ ~Latched' /\ ~Ended'
      /\ pc' # "idle" /\ pc' \notin {"turn", "receive"}
  BY <1>1, <1>2, ReadPlaces, ReadPlacesNext
<1>4. state \notin Talks
  <2>1. Sending => state \notin Talks
    BY Zenon DEF Sending, BusInv, BytesOK
  <2> QED BY <1>1, <2>1, TalkerIs, Returned
<1>5. ~ToTalk'
  BY <1>2, <1>3 DEF ToTalk
<1> QED BY <1>1, <1>2, <1>3, <1>4, <1>5, SilentTalk

(* The machine is to listen.                                               *)
LEMMA StartListeningTalk ==
  ASSUME BusInv, TalkInv, calls = <<>>, StartListening
  PROVE  TalkInv'
<1>1. /\ UNCHANGED <<line, state, par_status, trap, received, opened>> /\ pc' = "turn"
      /\ pc = "command" /\ todo = <<>> /\ after = "turn"
  BY DEF StartListening, ReleaseAtn, Cpu, file, device
<1>2. Commanded /\ Left = todo
  BY <1>1 DEF Commanded, Left
<1>3. ~Accepting /\ ~Accepting' /\ ~Latched' /\ ~Ended'
  BY <1>1, <1>2, ReadPlaces, ReadPlacesNext
<1>4. state \notin Talks /\ Holds("atn")
  BY <1>1, <1>2, TalkerIs, Returned DEF Commanding, Holds
<1>5. ToTalk
  BY <1>1, <1>2 DEF ToTalk
<1> QED BY <1>1, <1>3, <1>4, <1>5, SilentTalk

(* ATN for the commands that end a transfer: the talker's byte may still   *)
(* be on the bus.                                                          *)
LEMMA BreaksTalk ==
  ASSUME BusInv, NameInv, OneDevice, TalkInv, calls = <<>>,
         StopSending \/ NotPresent \/ StopReceiving \/ Timeout
  PROVE  TalkInv'
<1>1. UNCHANGED <<line, data, state, par_status, trap, received, opened, job, setup>>
      /\ (PullAtn(<<[kind |-> "unlisten"]>>, "end") \/ PullAtn(<<[kind |-> "untalk"]>>, "end"))
  BY DEF StopSending, NotPresent, StopReceiving, Timeout, PullAtn, Cpu, file, device
<1>2. \A y : <<y>> # <<>>
  OBVIOUS
<1>3. todo' # <<>> /\ pc' = "attention" /\ calls' = <<Set("cpu", "atn")>> \o AtnFallsForDrive
  BY <1>1, <1>2 DEF PullAtn, Cpu
<1>4. Asks(Set("cpu", "atn"))' /\ ~Asks(Clr("cpu", "atn"))'
  BY <1>3, FirstOfAtn, Others DEF BusInv
<1>5. Commanded' /\ Left' = todo'
  BY <1>3 DEF Commanded, Left
<1>6. ~Accepting' /\ ~Latched' /\ ~Ended' /\ ~ToTalk' /\ pc' # "idle"
  BY <1>3, <1>5, ReadPlacesNext DEF ToTalk
<1>7. ~Accepting /\ pc # "turn"
  BY Zenon DEF Accepting, StopSending, NotPresent, StopReceiving, Timeout
<1>8. C' = C /\ Given(C)' = Given(C) /\ (Kept(C)' <=> Kept(C))
  BY <1>1 DEF C
<1>9. AnswerOK' /\ MoreOK'
  BY <1>5, <1>6 DEF AnswerOK, MoreOK
<1>10. ByteOK'
  BY <1>1, <1>8 DEF TalkInv, ByteOK
<1>11. TalkOK'
  BY <1>1, <1>4, <1>7, <1>8 DEF TalkInv, TalkOK
<1>12. ReadOK'
  BY <1>1, <1>6, <1>7, <1>8 DEF TalkInv, ReadOK
<1> QED BY <1>1, <1>9, <1>10, <1>11, <1>12 DEF TalkInv

(* A job begins.                                                           *)
LEMMA StartTalk ==
  ASSUME BusInv, NameInv, OneDevice, TalkInv, calls = <<>>,
         NEW kind \in {"open", "close", "read", "write"}, NEW d \in Device, Start(kind, d)
  PROVE  TalkInv'
<1>1. /\ UNCHANGED <<line, state, par_status, trap>> /\ pc = "idle" /\ pc' = "attention" /\ todo' # <<>>
      /\ calls' = <<Set("cpu", "atn")>> \o AtnFallsForDrive
  <2>1. Commands(kind, d) # <<>>
    BY DEF Commands
  <2> QED BY <2>1 DEF Start, PullAtn, Cpu, device
<1>2. \/ opened' = FALSE /\ received' = <<>>
      \/ UNCHANGED <<opened, received>>
  BY DEF Start, Forget, file
<1>3. ~Asks(Clr("cpu", "atn"))'
  BY <1>1, FirstOfAtn, Others DEF BusInv
<1>4. received' \in Seq(Nat)
  <2>1. received \in Seq(Nat)
    BY DEF TalkInv
  <2>2. received' = <<>> \/ received' = received
    BY <1>2
  <2>3. <<>> \in Seq(Nat)
    OBVIOUS
  <2> QED BY <2>1, <2>2, <2>3
<1>5. CASE ~opened'
  BY <1>3, <1>4, <1>5, UnopenedTalk
<1>6. CASE opened'
  <2>1. UNCHANGED <<opened, received>>
    BY <1>2, <1>6
  <2>2. ~InJob
    BY <1>1 DEF InJob
  <2>3. state \notin Talks
    BY <1>6, <2>1, <2>2 DEF NameInv, JobFits, TalkInv, TalkOK
  <2>4. Commanded' /\ Left' = todo'
    BY <1>1 DEF Commanded, Left
  <2>5. ~Accepting /\ ~Accepting' /\ ~Latched' /\ ~Ended'
    BY <1>1, <2>2, <2>4, ReadPlaces, ReadPlacesNext
  <2>6. ~ToTalk'
    BY <1>1, <2>4 DEF ToTalk
  <2> QED BY <1>1, <1>3, <2>1, <2>3, <2>4, <2>5, <2>6, SilentTalk
<1> QED BY <1>5, <1>6

(* The job is over: what it has opened was not read from yet.              *)
LEMMA EndJobTalk ==
  ASSUME BusInv, NameInv, OneDevice, FileInv, TalkInv, calls = <<>>, EndJob
  PROVE  TalkInv'
<1>1. /\ UNCHANGED <<line, state, par_status, trap, received>> /\ job' = NoJob /\ pc' = "idle"
      /\ pc = "command" /\ todo = <<>> /\ after = "end"
      /\ IF job.kind = "open" /\ job.device \in Virtual THEN opened' = trap.channel[job.device].open
         ELSE opened' = opened
  BY DEF EndJob, ReleaseAtn, Cpu, Rest, file, device
<1>2. Over /\ InJob /\ Commanded
  BY <1>1 DEF Over, Left, Commanded, InJob
<1>3. ~Accepting /\ ~Accepting' /\ ~Latched' /\ ~Ended' /\ ~Commanded' /\ ~ToTalk'
  BY <1>1, <1>2, ReadPlaces, ReadPlacesNext DEF ToTalk
<1>4. C' = C /\ job'.kind = "none" /\ Given(C)' = Given(C)
  BY <1>1 DEF C, NoJob
<1>5. state \notin Talks /\ par_status.role # "talk"
  BY <1>1, <1>2, TalkerIs, Returned, AfterCommands
<1>6. CASE job.kind = "open"
  <2>1. job.device = V /\ ~opened
    BY <1>2, <1>6 DEF NameInv, JobFits
  <2>2. opened' = C.open
    BY <1>1, <1>6, <2>1, TheDevice DEF C
  <2>3. received = <<>>
    BY <2>1 DEF FileInv, FreshOK
  <2>4. C.open => C.pos = 0 /\ ~C.lastok
    BY <1>2, <1>6 DEF FileInv, FreshOK
  <2>5. C.open => Given(C) = 0
    BY <2>4 DEF Given, Kept
  <2>6. AnswerOK' /\ ByteOK' /\ TalkOK' /\ MoreOK'
    BY <1>1, <1>3, <1>4, <1>5 DEF AnswerOK, ByteOK, TalkOK, MoreOK, Talks
  <2>7. ReadOK'
    BY <1>1, <1>3, <1>4, <2>2, <2>3, <2>5 DEF ReadOK
  <2> QED BY <1>1, <2>6, <2>7 DEF TalkInv
<1>7. CASE job.kind # "open"
  BY <1>1, <1>3, <1>4, <1>5, <1>7, SilentTalk
<1> QED BY <1>6, <1>7

(* A reset, and what it releases.                                          *)
LEMMA ResetTalk ==
  ASSUME FileInv, TalkInv, calls = <<>>, Reset \/ Release
  PROVE  TalkInv'
<1>1. CASE Reset
  <2>1. ~opened' /\ received' = <<>> /\ calls' = <<>>
    BY <1>1 DEF Reset, Forget
  <2> QED BY <2>1, Nothing, UnopenedTalk
<1>2. CASE Release
  <2>1. UNCHANGED <<received, opened>> /\ ~opened
    BY <1>2 DEF Release, file, FileInv, FreshOK
  <2>2. pc' = "reset" \/ calls' = <<>>
    BY <1>2 DEF Release, ReleaseAtn, Cpu
  <2> QED BY <2>1, <2>2, Nothing, UnopenedTalk DEF TalkInv
<1> QED BY <1>1, <1>2

(* A step of the reading that the device sees nothing of.                  *)
LEMMA ReadingTalk ==
  ASSUME BusInv, NameInv, TalkInv, calls = <<>>,
         Ready \/ TakeByte \/ Accept \/ Accepted \/ Turn
  PROVE  /\ UNCHANGED <<line, state, par_status, trap, opened, job, setup>>
         /\ InJob /\ ~Commanded /\ ~Sending /\ job.kind = "read" /\ job.device = V /\ ~Ended
         /\ C' = C /\ Given(C)' = Given(C) /\ (Kept(C)' <=> Kept(C))
         /\ \A w : Holds(w)' <=> Holds(w)
         /\ \A c : ~Asks(c)
         /\ AnswerOK' /\ ByteOK' /\ MoreOK'
<1>1. /\ UNCHANGED <<line, state, par_status, trap, opened, job, setup>> /\ data' = data
      /\ pc' # "idle" /\ ~Ended
      /\ pc \in {"turn", "receive"} \/ Watching \/ Latched \/ Accepting
      /\ pc' \in {"turn", "receive"} \/ Watching' \/ Latched' \/ Accepting' \/ Ended'
      /\ pc' \in {"turn", "receive"} => pc \in {"turn", "receive"} \/ Accepting
  <2>1. CASE Ready
    BY <2>1, Zenon DEF Ready, Cpu, Quiet, file, device, Watching, Latched, Accepting, Ended
  <2>2. CASE TakeByte
    BY <2>2, Zenon DEF TakeByte, Cpu, file, device, Watching, Latched, Accepting, Ended
  <2>3. CASE Accept
    BY <2>3, Zenon DEF Accept, Cpu, Quiet, file, device, Watching, Latched, Accepting, Ended
  <2>4. CASE Accepted
    <3>1. pc' = IF latch.eoi THEN "receive end" ELSE "receive"
      BY <2>4, Zenon DEF Accepted, Cpu
    <3>2. pc' = "receive" \/ pc' = "receive end"
      BY <3>1
    <3>3. UNCHANGED <<line, state, par_status, trap, job, setup>> /\ data' = data /\ Accepting
      BY <2>4, Zenon DEF Accepted, Cpu, Quiet, device, Accepting
    <3>4. opened' = opened
      BY <2>4, Zenon DEF Accepted, file
    <3> QED BY <3>2, <3>3, <3>4, ReadPlaces, Zenon DEF Ended
  <2>5. CASE Turn
    <3>1. /\ UNCHANGED <<line, state, par_status, trap, opened, job, setup>> /\ data' = data
          /\ pc = "turn" /\ pc' \in {"turn", "receive"}
      BY <2>5 DEF Turn, ReleaseAtn, Cpu, file, device
    <3> QED BY <3>1, ReadPlaces
  <2> QED BY <2>1, <2>2, <2>3, <2>4, <2>5
<1>2. InJob /\ ~Commanded /\ ~Sending /\ ~Commanded'
  BY <1>1, ReadPlaces, ReadPlacesNext
<1>3. job.kind = "read" /\ job.device = V
  BY <1>2 DEF NameInv, JobFits
<1>4. /\ C' = C /\ Given(C)' = Given(C) /\ (Kept(C)' <=> Kept(C))
      /\ \A w : Holds(w)' <=> Holds(w)
  BY <1>1 DEF C, Holds
<1>5. ToTalk' => ToTalk
  <2>1. ToTalk' => pc' \in {"turn", "receive"} /\ Holds("atn")
    BY <1>2, <1>4 DEF ToTalk
  <2>2. Accepting => ~Holds("atn")
    <3>1. Accepting => ~Commanding /\ ~ToRelease("atn")
      BY Zenon DEF Accepting, Commanding, ToRelease
    <3> QED BY <3>1, Returned DEF Holds
  <2> QED BY <1>1, <2>1, <2>2 DEF ToTalk
<1>6. AnswerOK'
  BY <1>1, <1>4, <1>5 DEF TalkInv, AnswerOK
<1>7. ByteOK'
  BY <1>1, <1>4 DEF TalkInv, ByteOK
<1>8. MoreOK'
  BY <1>1, <1>2, <1>4 DEF TalkInv, MoreOK
<1> QED BY <1>1, <1>2, <1>3, <1>4, <1>6, <1>7, <1>8, Returned

(* What the machine pulls when it turns round, and in which order.         *)
LEMMA TurnsBy ==
  ASSUME Types
  PROVE  /\ \A w \in ToPull : /\ w \in {"nrfd", "ndac"} /\ ~Holds(w)
                              /\ w = "ndac" => Holds("nrfd") \/ setup.machine # "cbm610"
         /\ ToPull = {} => Holds("ndac") /\ (setup.machine # "old" => Holds("nrfd"))
<1> DEFINE rest == {w \in {"nrfd", "ndac"} : ~Holds(w)}
<1>0. setup.machine \in {"new", "old", "cbm610"}
  BY DEF Types, Setup
<1>1. CASE setup.machine = "new"
  BY <1>1 DEF ToPull
<1>2. CASE setup.machine = "old"
  BY <1>2 DEF ToPull
<1>3. CASE setup.machine = "cbm610"
  <2>1. ToPull = IF "nrfd" \in rest THEN {"nrfd"} ELSE rest
    BY <1>3 DEF ToPull
  <2> QED BY <1>3, <2>1
<1> QED BY <1>0, <1>1, <1>2, <1>3

(* The machine turns round.                                                *)
LEMMA TurnTalk ==
  ASSUME BusInv, NameInv, TalkInv, calls = <<>>, Turn
  PROVE  TalkInv'
<1>0. Types /\ pc = "turn" /\ received' = received
  BY DEF Turn, file, BusInv
<1>1. /\ UNCHANGED <<line, state, par_status, trap, opened, job, setup>>
      /\ job.kind = "read"
      /\ C' = C /\ Given(C)' = Given(C) /\ (Kept(C)' <=> Kept(C))
      /\ \A w : Holds(w)' <=> Holds(w)
      /\ AnswerOK' /\ ByteOK' /\ MoreOK'
  BY ReadingTalk
<1>2. pc' \in {"turn", "receive"} /\ ~Latched /\ ~Accepting
  BY <1>0, ReadPlaces DEF Turn, ReleaseAtn, Cpu
<1>3. ~Latched' /\ ~Accepting' /\ ~Ended'
  BY <1>2, ReadPlacesNext
<1>4. ReadOK'
  BY <1>0, <1>1, <1>2, <1>3 DEF TalkInv, ReadOK
<1>5. TalkOK'
  <2> SUFFICES ASSUME opened, state \in Talks
               PROVE  TalkOK'
    BY <1>1 DEF TalkOK
  <2>1. setup.machine \in {"old", "cbm610"}
    BY <1>0, TalkerIs DEF Types, Setup
  <2>2. /\ state = "OldPet" => Kept(C) /\ ~Holds("ndac") /\ ~setup.drive
        /\ state = "Out1" => line["nrfd"] # {} /\ Given(C) < FileLength
        /\ state = "Out1a" => ~DrivePulls("nrfd") /\ (Holds("nrfd") \/ setup.machine = "old")
        /\ state # "Out2"
    BY <1>0, <1>2, Returned DEF TalkInv, TalkOK
  <2>3. /\ \A w : (Comes(w)' => FALSE)
        /\ state = "OldPet" => pc' = "turn"
        /\ Asks(Set("cpu", "ndac"))' => Holds("nrfd") \/ setup.machine = "old"
    <3>1. CASE \E w \in ToPull : Cpu(<<Set("cpu", w)>>, "turn")
      <4>1. PICK w \in ToPull : calls' = <<Set("cpu", w)>> /\ pc' = "turn"
        BY <3>1 DEF Cpu
      <4>2. w \in {"nrfd", "ndac"} /\ (w = "ndac" => Holds("nrfd") \/ setup.machine = "old")
        BY <1>0, <2>1, <4>1, TurnsBy
      <4>3. \A v : ~Comes(v)'
        BY <4>1, Single, Others
      <4>4. Asks(Set("cpu", "ndac"))' => w = "ndac"
        BY <4>1, <4>2, Single, Distinct DEF Wires
      <4> QED BY <4>1, <4>2, <4>3, <4>4
    <3>2. CASE ToPull = {} /\ ~Pulled(Bus, "atn") /\ Cpu(<<>>, "receive")
      <4>1. calls' = <<>>
        BY <3>2 DEF Cpu
      <4>2. \A v : ~Comes(v)'
        BY <4>1 DEF Comes
      <4>3. Holds("ndac")
        BY <1>0, <3>2, TurnsBy
      <4> QED BY <2>2, <4>1, <4>2, <4>3, Nothing
    <3>3. ~Pulled(Bus, "atn")
      BY TalkerIs, BusFields DEF Pulled
    <3> QED BY <3>1, <3>2, <3>3 DEF Turn
  <2>4. DrivePulls("nrfd")' => DrivePulls("nrfd")
    BY <1>1, <2>3 DEF DrivePulls
  <2> QED BY <1>0, <1>1, <1>2, <2>2, <2>3, <2>4 DEF TalkOK
<1> QED BY <1>0, <1>1, <1>4, <1>5 DEF TalkInv

(* Where a talker is when the machine waits for a byte, has it, or has     *)
(* acknowledged it.                                                        *)
LEMMA TalkerAt ==
  ASSUME BusInv, TalkInv, calls = <<>>, opened, state \in Talks
  PROVE  /\ state = "OldPet" => pc = "turn"
         /\ state = "Out1" => line["nrfd"] # {} /\ Given(C) < FileLength
         /\ state = "Out1a" => ~DrivePulls("nrfd") /\ ~Latched /\ ~Accepting
         /\ state = "Out2" => Latched \/ Accepting
<1>1. \A c : ~Asks(c)
  BY Returned
<1>2. state = "Out1a" => ~DrivePulls("nrfd") /\ (pc \in {"turn", "receive"} \/ Watching)
  BY <1>1 DEF TalkInv, TalkOK
<1>3. state = "Out1a" => ~Latched /\ ~Accepting
  BY <1>2, ReadPlaces
<1> QED BY <1>1, <1>2, <1>3 DEF TalkInv, TalkOK

(* One call of the machine on NRFD or NDAC.                                *)
LEMMA Handshakes ==
  ASSUME NEW call, calls' = <<call>>, NEW w \in {"nrfd", "ndac"},
         call \in {Set("cpu", w), Clr("cpu", w)}
  PROVE  /\ \A c : Asks(c)' <=> c = call
         /\ ~Asks(Set("cpu", "atn"))'
         /\ \A v : ~Comes(v)'
<1>1. Set("cpu", "atn") # Set("cpu", w) /\ Set("cpu", "atn") # Clr("cpu", w)
  BY Distinct DEF Wires
<1> QED BY <1>1, Single, Others

(* The machine waits for a byte.                                           *)
LEMMA ReadyTalk ==
  ASSUME BusInv, NameInv, TalkInv, calls = <<>>, Ready
  PROVE  TalkInv'
<1>0. pc = "receive" /\ Watching' /\ calls' = <<Clr("cpu", "nrfd")>> /\ received' = received
  BY Zenon DEF Ready, Cpu, Watching, file
<1>1. /\ UNCHANGED <<line, state, par_status, trap, opened, job, setup>>
      /\ job.kind = "read"
      /\ C' = C /\ Given(C)' = Given(C) /\ (Kept(C)' <=> Kept(C))
      /\ AnswerOK' /\ ByteOK' /\ MoreOK'
  BY ReadingTalk
<1>2. ~Accepting /\ ~Latched /\ ~Latched' /\ ~Accepting' /\ ~Ended' /\ pc' # "turn"
  BY <1>0, ReadPlaces, ReadPlacesNext
<1>3. ReadOK'
  BY <1>0, <1>1, <1>2 DEF TalkInv, ReadOK
<1>4. TalkOK'
  <2>1. ~Asks(Set("cpu", "atn"))' /\ \A v : ~Comes(v)'
    BY <1>0, Handshakes
  <2>2. DrivePulls("nrfd")' => DrivePulls("nrfd")
    BY <1>1, <2>1 DEF DrivePulls
  <2> QED BY <1>0, <1>1, <1>2, <2>1, <2>2, TalkerAt DEF TalkOK
<1> QED BY <1>0, <1>1, <1>3, <1>4 DEF TalkInv

(* It takes a byte: it is the next one of the file, and comes with EOI if  *)
(* it is the last.                                                         *)
LEMMA TakenIs ==
  ASSUME BusInv, HoldsOK, OneDevice, FileInv, TalkInv, calls = <<>>, opened,
         Watching, Pulled(Bus, "dav")
  PROVE  /\ state = "Out1a"
         /\ data["emu"] = Len(received) + 1
         /\ Pulled(Bus, "eoi") <=> Len(received) + 1 = FileLength
<1>1. line \in [Wires -> SUBSET Driver] /\ \A w \in Wires : w \in Mine(Bus) <=> "emu" \in line[w]
  BY BusFields, Pullers DEF BusInv, Types, BusOK, BusState
<1>2. "emu" \in line["dav"]
  <2>1. "cpu" \notin line["dav"]
    <3>1. Watching => pc # "command dav" /\ pc # "send dav" /\ pc # "reset"
      BY Zenon DEF Watching
    <3>2. "cpu" \in line["dav"] => pc \in {"command dav", "send dav"} \/ ToRelease("dav")
      BY Returned
    <3> QED BY <3>1, <3>2, Zenon DEF ToRelease
  <2>2. "drv" \notin line["dav"]
    BY DEF BusInv, WiresOK, Wires
  <2> QED BY <1>1, <2>1, <2>2, BusFields DEF Pulled, Wires, Driver
<1>3. state \in {"Out1a", "Out2"}
  <2>1. Placed(Bus)
    BY DEF BusInv, Types, BusOK
  <2>2. Mine(Bus) \subseteq MayPull(state)
    BY <2>1, BusFields DEF Placed
  <2>3. "dav" \in MayPull(state)
    BY <1>1, <1>2, <2>2 DEF Wires
  <2> QED BY <2>3 DEF MayPull
<1>4. state = "Out1a"
  BY <1>3, TalkerAt, ReadPlaces DEF Talks
<1>5. Kept(C) /\ data["emu"] = C.lastbyte /\ ("emu" \in line["eoi"] <=> "eof" \in C.lastst)
  BY <1>4 DEF TalkInv, ByteOK
<1>6. Pulled(Bus, "eoi") <=> "emu" \in line["eoi"]
  <2>1. "cpu" \notin line["eoi"] /\ "drv" \notin line["eoi"]
    BY DEF HoldsOK, Holds, BusInv, WiresOK, Wires
  <2> QED BY <1>1, <2>1, BusFields DEF Pulled, Wires, Driver
<1>7. C.pos # 0 /\ C.lastbyte = C.pos /\ ("eof" \in C.lastst <=> C.pos = FileLength)
  BY <1>5 DEF FileInv, ChannelFits
<1>8. C.pos - 1 = Len(received)
  <2>1. Given(C) = Len(received)
    BY ReadPlaces DEF TalkInv, ReadOK
  <2> QED BY <1>5, <2>1 DEF Given
<1>9. C.pos = Len(received) + 1
  BY <1>8, TheChannel DEF Channel, TalkInv
<1> QED BY <1>4, <1>5, <1>6, <1>7, <1>9

(* So it has the next byte in its hands.                                   *)
LEMMA TakeByteTalk ==
  ASSUME BusInv, NameInv, OneDevice, HoldsOK, FileInv, TalkInv, calls = <<>>, TakeByte
  PROVE  TalkInv'
<1>0. /\ Watching /\ Pulled(Bus, "dav") /\ Latched' /\ calls' = <<Set("cpu", "nrfd")>>
      /\ received' = received /\ latch' = [byte |-> data["emu"], eoi |-> Pulled(Bus, "eoi")]
  BY Zenon DEF TakeByte, Cpu, Watching, Latched, file
<1>1. /\ UNCHANGED <<line, state, par_status, trap, opened, job, setup>>
      /\ job.kind = "read"
      /\ C' = C /\ Given(C)' = Given(C) /\ (Kept(C)' <=> Kept(C))
      /\ AnswerOK' /\ ByteOK' /\ MoreOK'
  BY ReadingTalk
<1>2. ~Accepting /\ ~Latched /\ ~Accepting' /\ ~Ended' /\ pc' # "turn" /\ pc # "turn"
  BY <1>0, ReadPlaces, ReadPlacesNext
<1>3. CASE ~opened
  <2>1. received' \in Seq(Nat) /\ ~opened'
    BY <1>0, <1>1, <1>3 DEF TalkInv
  <2>2. pc' # "idle"
    BY <1>0, ReadPlacesNext
  <2> QED BY <2>1, <2>2, UnopenedTalk
<1>4. CASE opened
  <2>1. /\ state = "Out1a" /\ data["emu"] = Len(received) + 1
        /\ Pulled(Bus, "eoi") <=> Len(received) + 1 = FileLength
    BY <1>0, <1>4, TakenIs
  <2>2. Asks(Set("cpu", "nrfd"))' /\ ~Asks(Set("cpu", "atn"))' /\ \A v : ~Comes(v)'
    BY <1>0, Handshakes
  <2>3. NextByte'
    <3>1. Pulled(Bus, "eoi") = (Len(received) + 1 = FileLength)
      BY <2>1 DEF Pulled
    <3> QED BY <1>0, <2>1, <3>1 DEF NextByte
  <2>4. ReadOK'
    BY <1>0, <1>1, <1>2, <2>1, <2>2, <2>3 DEF TalkInv, ReadOK
  <2>5. TalkOK'
    <3>1. ~DrivePulls("nrfd")
      BY <1>4, <2>1, TalkerAt DEF Talks
    <3>2. ~DrivePulls("nrfd")'
      BY <1>1, <2>2, <3>1 DEF DrivePulls
    <3> QED BY <1>1, <1>2, <2>1, <2>2, <3>2 DEF TalkOK
  <2> QED BY <1>0, <1>1, <2>4, <2>5 DEF TalkInv
<1> QED BY <1>3, <1>4

(* It acknowledges the byte.                                               *)
LEMMA AcceptTalk ==
  ASSUME BusInv, NameInv, TalkInv, calls = <<>>, Accept
  PROVE  TalkInv'
<1>0. /\ Latched /\ Accepting' /\ calls' = <<Clr("cpu", "ndac")>>
      /\ received' = received /\ latch' = latch
  BY Zenon DEF Accept, Cpu, Quiet, Accepting, Latched, file
<1>1. /\ UNCHANGED <<line, state, par_status, trap, opened, job, setup>>
      /\ job.kind = "read" /\ (\A c : ~Asks(c))
      /\ C' = C /\ Given(C)' = Given(C) /\ (Kept(C)' <=> Kept(C))
      /\ AnswerOK' /\ ByteOK' /\ MoreOK'
  BY ReadingTalk
<1>2. ~Accepting /\ ~Latched' /\ ~Ended'
  BY <1>0, ReadPlaces, ReadPlacesNext
<1>3. opened => state = "Out2" /\ NextByte
  BY <1>0, <1>1 DEF TalkInv, ReadOK
<1>4. NextByte' <=> NextByte
  BY <1>0 DEF NextByte
<1>5. ReadOK'
  BY <1>0, <1>1, <1>2, <1>3, <1>4 DEF TalkInv, ReadOK
<1>6. TalkOK'
  BY <1>0, <1>1, <1>3 DEF TalkOK
<1> QED BY <1>0, <1>1, <1>5, <1>6 DEF TalkInv

(* The byte in its hands.                                                  *)
LEMMA NextByteIs ==
  ASSUME NextByte
  PROVE  /\ latch.byte = Len(received) + 1 /\ (latch.eoi = (Len(received) + 1 = FileLength))
         /\ latch.eoi <=> Len(received) + 1 = FileLength
<1> DEFINE last == Len(received) + 1 = FileLength
           byte == Len(received) + 1
<1>1. latch = [byte |-> byte, eoi |-> last]
  BY DEF NextByte
<1> HIDE DEF last, byte
<1>2. latch.byte = byte /\ latch.eoi = last
  BY <1>1
<1>3. latch.eoi <=> last
  BY <1>2
<1> QED BY <1>2, <1>3 DEF last, byte

(* The talker takes its byte away, and the machine has it.                 *)
LEMMA AcceptedIs ==
  ASSUME BusInv, NameInv, OneDevice, TalkInv, calls = <<>>, Accepted
  PROVE  /\ Accepting /\ calls' = <<Set("cpu", "ndac")>> /\ (pc' = "receive" \/ Ended')
         /\ Ended' => latch.eoi
         /\ OnFile <=> opened
         /\ ~opened => UNCHANGED <<opened, sent, received, ended>>
         /\ opened =>
              /\ received' = Append(received, latch.byte) /\ ended' = latch.eoi /\ sent' = sent
              /\ NextByte /\ Given(C) = Len(received) + 1 /\ state # "Out1a" /\ state # "Out2"
<1>0. /\ Accepting /\ calls' = <<Set("cpu", "ndac")>> /\ ~Pulled(Bus, "dav")
      /\ pc' = IF latch.eoi THEN "receive end" ELSE "receive"
  BY Zenon DEF Accepted, Cpu, Accepting
<1>1. (pc' = "receive" \/ Ended') /\ (Ended' => latch.eoi)
  <2>1. CASE latch.eoi
    BY <1>0, <2>1 DEF Ended
  <2>2. CASE ~latch.eoi
    <3>1. pc' = "receive"
      BY <1>0, <2>2
    <3> QED BY <3>1, ReadPlacesNext
  <2> QED BY <2>1, <2>2
<1>2. OnFile <=> opened
  BY ReadingTalk, TheDevice DEF OnFile
<1>3. IF OnFile
      THEN received' = Append(received, latch.byte) /\ ended' = latch.eoi /\ UNCHANGED <<opened, sent>>
      ELSE UNCHANGED <<opened, sent, received, ended>>
  BY Zenon DEF Accepted, file
<1>4. opened => "emu" \notin line["dav"]
  BY <1>0, BusFields DEF Pulled
<1>5. opened => state # "Out1a" /\ state # "Out2"
  BY <1>4 DEF TalkInv, ByteOK
<1>6. opened => NextByte /\ Given(C) = Len(received) + 1
  BY <1>0, <1>5 DEF TalkInv, ReadOK
<1> QED BY <1>0, <1>1, <1>2, <1>3, <1>5, <1>6

(* So it has read one byte more.                                           *)
LEMMA AcceptedTalk ==
  ASSUME BusInv, NameInv, OneDevice, TalkInv, calls = <<>>, Accepted
  PROVE  TalkInv'
<1>0. /\ Accepting /\ calls' = <<Set("cpu", "ndac")>> /\ (pc' = "receive" \/ Ended')
      /\ Ended' => latch.eoi
      /\ ~opened => received' = received
      /\ opened =>
           /\ received' = Append(received, latch.byte)
           /\ NextByte /\ Given(C) = Len(received) + 1 /\ state # "Out1a" /\ state # "Out2"
  BY AcceptedIs
<1>1. /\ UNCHANGED <<line, state, par_status, trap, opened, job, setup>>
      /\ job.kind = "read"
      /\ C' = C /\ Given(C)' = Given(C) /\ (Kept(C)' <=> Kept(C))
      /\ AnswerOK' /\ ByteOK' /\ MoreOK'
  BY ReadingTalk
<1>2. ~Accepting' /\ ~Latched' /\ pc # "turn" /\ pc' # "idle"
  BY <1>0, ReadPlaces, ReadPlacesNext
<1>3. received \in Seq(Nat)
  BY DEF TalkInv
<1>4. CASE ~opened
  BY <1>0, <1>1, <1>2, <1>3, <1>4, UnopenedTalk
<1>5. CASE opened
  <2>1. latch.byte = Len(received) + 1 /\ (latch.eoi <=> Len(received) + 1 = FileLength)
    BY <1>0, <1>5, NextByteIs
  <2>2. received' \in Seq(Nat) /\ Len(received') = Len(received) + 1
    BY <1>0, <1>3, <1>5, <2>1
  <2>3. ReadOK'
    BY <1>0, <1>1, <1>2, <1>5, <2>1, <2>2 DEF ReadOK
  <2>4. TalkOK'
    <3>1. state \in Talks => state = "Out1" /\ line["nrfd"] # {} /\ Given(C) < FileLength
      BY <1>0, <1>2, <1>5, TalkerAt DEF Talks
    <3> QED BY <1>1, <3>1 DEF TalkOK
  <2> QED BY <1>1, <2>2, <2>3, <2>4 DEF TalkInv
<1> QED BY <1>4, <1>5

(* The drive's CPU: it is busy with a byte only while the machine writes.  *)
LEMMA DriveTalk ==
  ASSUME BusInv, DriveInv, TalkInv, DriveStep
  PROVE  TalkInv'
<1>0. /\ UNCHANGED <<line, data, state, par_status, trap, setup, job, pc, todo, after, latch,
                     opened, received>>
      /\ calls = <<>>
  BY DEF DriveStep, DriveAnswers, DriveBusy, DriveTakes, DriveAgain, DriveLeaves, Drv, wires, device, file
<1>1. PICK call : /\ calls' = <<call>>
                  /\ \E w : call = Set("drv", w) \/ call = Clr("drv", w)
                  /\ call = Set("drv", "nrfd") => DriveBusy
  <2>1. /\ DriveAnswers => calls' = <<Clr("drv", "nrfd")>>
        /\ DriveTakes => calls' = <<Clr("drv", "ndac")>>
        /\ DriveAgain => calls' \in {<<Set("drv", "ndac")>>, <<Clr("drv", "nrfd")>>}
        /\ DriveLeaves => \/ calls' = <<Set("drv", "ndac")>>
                          \/ \E w : calls' = <<Clr("drv", w)>>
        /\ DriveBusy => calls' = <<Set("drv", "nrfd")>>
    BY DEF DriveAnswers, DriveBusy, DriveTakes, DriveAgain, DriveLeaves, Drv
  <2>2. Set("drv", "ndac") # Set("drv", "nrfd")
    BY DEF Set
  <2>3. DriveAnswers \/ DriveBusy \/ DriveTakes \/ DriveAgain \/ DriveLeaves
    BY DEF DriveStep
  <2> QED BY <2>1, <2>2, <2>3, Others
<1>2. /\ \A c : ~Asks(c)
      /\ \A w : ~Asks(Set("cpu", w))' /\ ~Asks(Clr("cpu", w))'
      /\ Comes("nrfd")' => DriveBusy
  <2>1. \A c : ~Asks(c)
    BY <1>0, Returned
  <2>2. /\ \A c : Asks(c)' <=> c = call
        /\ \A w : Comes(w)' <=> call = Set("drv", w)
    BY <1>1, Single
  <2>3. \A w : call # Set("cpu", w) /\ call # Clr("cpu", w)
    BY <1>1, Others
  <2> QED BY <1>1, <2>1, <2>2, <2>3
<1>3. /\ (Watching' <=> Watching) /\ (Latched' <=> Latched)
      /\ (Accepting' <=> Accepting) /\ (Ended' <=> Ended) /\ (Commanded' <=> Commanded)
  BY <1>0, Zenon DEF Watching, Latched, Accepting, Ended, Commanded
<1>4. /\ C' = C /\ Given(C)' = Given(C) /\ (Kept(C)' <=> Kept(C)) /\ (NextByte' <=> NextByte)
      /\ \A w : Holds(w)' <=> Holds(w)
  BY <1>0 DEF C, NextByte, Holds
<1>5. ToTalk' => ToTalk
  <2>1. Left' = Left
    BY <1>0, <1>2 DEF Left
  <2> QED BY <1>0, <1>3, <1>4, <2>1 DEF ToTalk
<1>6. AnswerOK' /\ ByteOK' /\ MoreOK' /\ ReadOK'
  <2>1. AnswerOK'
    BY <1>0, <1>2, <1>4, <1>5 DEF TalkInv, AnswerOK
  <2>2. ByteOK'
    BY <1>0, <1>4 DEF TalkInv, ByteOK
  <2>3. MoreOK'
    BY <1>0, <1>3, <1>4 DEF TalkInv, MoreOK
  <2>4. ReadOK'
    BY <1>0, <1>2, <1>3, <1>4 DEF TalkInv, ReadOK
  <2> QED BY <2>1, <2>2, <2>3, <2>4
<1>7. opened /\ state = "Out1a" => ~DriveBusy
  <2> SUFFICES ASSUME opened, state = "Out1a", DriveBusy PROVE FALSE
    OBVIOUS
  <2>1. job.kind = "read" /\ ~Pulled(Bus, "atn")
    BY TalkerIs, BusFields DEF TalkInv, TalkOK, Talks, Pulled
  <2>2. drive.listens
    BY <2>1 DEF DriveBusy
  <2> QED BY <2>1, <2>2 DEF DriveInv, ListenerOK
<1>8. TalkOK'
  <2>1. opened /\ state = "Out1a" /\ ~DrivePulls("nrfd") => ~DrivePulls("nrfd")'
    BY <1>0, <1>2, <1>7 DEF DrivePulls
  <2> QED BY <1>0, <1>2, <1>3, <1>4, <2>1 DEF TalkInv, TalkOK, Talks
<1> QED BY <1>0, <1>6, <1>8 DEF TalkInv

(* Nothing happens.                                                        *)
LEMMA StutterTalk == ASSUME TalkInv, UNCHANGED vars PROVE TalkInv'
<1>1. UNCHANGED <<line, data, state, par_status, trap, setup, job, pc, todo, after, latch,
                  opened, received, calls>>
  BY DEF vars, wires, device, file
<1>2. /\ (Watching' <=> Watching) /\ (Latched' <=> Latched)
      /\ (Accepting' <=> Accepting) /\ (Ended' <=> Ended) /\ (Commanded' <=> Commanded)
  BY <1>1, Zenon DEF Watching, Latched, Accepting, Ended, Commanded
<1>3. \A c : Asks(c)' <=> Asks(c)
  BY <1>1 DEF Asks
<1>4. /\ C' = C /\ Given(C)' = Given(C) /\ (Kept(C)' <=> Kept(C)) /\ (NextByte' <=> NextByte)
      /\ (\A w : Holds(w)' <=> Holds(w)) /\ (\A w : DrivePulls(w)' <=> DrivePulls(w))
  BY <1>1 DEF C, NextByte, Holds, DrivePulls, Comes
<1>5. ToTalk' <=> ToTalk
  <2>1. Left' = Left
    BY <1>1, <1>3 DEF Left
  <2> QED BY <1>1, <1>2, <1>4, <2>1 DEF ToTalk
<1>6. AnswerOK' /\ ByteOK' /\ MoreOK' /\ ReadOK'
  <2>1. AnswerOK'
    BY <1>1, <1>3, <1>4, <1>5 DEF TalkInv, AnswerOK
  <2>2. ByteOK'
    BY <1>1, <1>4 DEF TalkInv, ByteOK
  <2>3. MoreOK'
    BY <1>1, <1>2, <1>4 DEF TalkInv, MoreOK
  <2>4. ReadOK'
    BY <1>1, <1>2, <1>3, <1>4 DEF TalkInv, ReadOK
  <2> QED BY <2>1, <2>2, <2>3, <2>4
<1>7. TalkOK'
  BY <1>1, <1>2, <1>3, <1>4 DEF TalkInv, TalkOK
<1> QED BY <1>1, <1>6, <1>7 DEF TalkInv

(* What was read came from the file, whatever machine, drive and device do. *)
LEMMA NextTalk ==
  ASSUME BusInv, NameInv, DriveInv, OneDevice, HoldsOK, FileInv, TalkInv, [Next]_vars
  PROVE  TalkInv'
<1>1. CASE BusCall
  BY <1>1, CallKeepsTalk
<1>2. CASE Proceed
  <2>1. calls = <<>> /\ Routine
    BY <1>2 DEF Proceed
  <2>2. CASE WatchWires \/ SendCommand \/ CommandTaken
    BY <2>1, <2>2, CommandingTalk
  <2>3. CASE StartSending \/ SendByte \/ ByteTaken
    BY <2>1, <2>3, SendingTalk, NextName
  <2>4. CASE EndJob
    BY <2>1, <2>4, EndJobTalk
  <2>5. CASE StartListening
    BY <2>1, <2>5, StartListeningTalk
  <2>6. CASE Turn
    BY <2>1, <2>6, TurnTalk
  <2>7. CASE Ready
    BY <2>1, <2>7, ReadyTalk
  <2>8. CASE TakeByte
    BY <2>1, <2>8, TakeByteTalk
  <2>9. CASE Accept
    BY <2>1, <2>9, AcceptTalk
  <2>10. CASE Accepted
    BY <2>1, <2>10, AcceptedTalk
  <2>11. CASE NotPresent \/ Timeout
    BY <2>1, <2>11, BreaksTalk
  <2>12. CASE Release
    BY <2>1, <2>12, ResetTalk
  <2> QED BY <2>1, <2>2, <2>3, <2>4, <2>5, <2>6, <2>7, <2>8, <2>9, <2>10, <2>11, <2>12 DEF Routine
<1>3. CASE DriveStep
  BY <1>3, DriveTalk
<1>4. CASE calls = <<>> /\ (StopSending \/ StopReceiving)
  BY <1>4, BreaksTalk
<1>5. CASE calls = <<>> /\ Reset
  BY <1>5, ResetTalk
<1>6. CASE Poll \/ UNCHANGED vars
  BY <1>6, StutterTalk DEF Poll
<1>7. CASE calls = <<>> /\ \E kind \in {"open", "close", "read", "write"}, d \in Device : Start(kind, d)
  BY <1>7, StartTalk
<1> QED BY <1>1, <1>2, <1>3, <1>4, <1>5, <1>6, <1>7 DEF Next

(* At first nothing was read.                                              *)
LEMMA InitTalk == ASSUME Init PROVE TalkInv
<1>1. ~opened /\ received = <<>> /\ calls = <<>>
  BY DEF Init
<1>2. ~Asks(Clr("cpu", "atn")) /\ <<>> \in Seq(Nat)
  BY <1>1 DEF Asks
<1> QED BY <1>1, <1>2 DEF TalkInv, AnswerOK, ByteOK, TalkOK, MoreOK, ReadOK

-----------------------------------------------------------------------------
(* All that is known of the bus, the job and the file.                     *)
StreamInv == BusInv /\ NameInv /\ DriveInv /\ HoldsOK /\ FileInv /\ TalkInv

(* Every step keeps all of it.                                             *)
LEMMA NextStream == ASSUME OneDevice, StreamInv, [Next]_vars PROVE StreamInv'
  BY NextKeeps, NextName, NextDrive, NextHolds, NextFile, NextTalk DEF StreamInv

(* A machine that sends to the device finds it on the wires.               *)
LEMMA DeviceIsPresent ==
  ASSUME StreamInv, pc = "send", job.device = V
  PROVE  Pulled(Bus, "ndac") \/ Pulled(Bus, "nrfd")
<1>1. state \in {"In1", "In2"}
  BY DEF StreamInv, NameInv, HearsOK, Hears, Sending
<1>2. state = "In1" => "emu" \in line["ndac"]
  BY DEF StreamInv, NameInv, HearsOK
<1>3. state = "In2" => "emu" \in line["nrfd"]
  <2>1. Placed(Bus)
    BY DEF StreamInv, BusInv, Types, BusOK
  <2>2. state = "In2" => "nrfd" \in Mine(Bus)
    BY <2>1, BusFields DEF Placed
  <2> QED BY <2>2, Pullers DEF StreamInv, Wires
<1> QED BY <1>1, <1>2, <1>3, BusFields DEF Pulled

(* A machine that waits in vain for a byte has read them all.              *)
LEMMA NothingToRead ==
  ASSUME StreamInv, calls = <<>>, Watching, OnFile, ~Pulled(Bus, "dav"), ~Pulled(Bus, "nrfd")
  PROVE  ~(Len(received) < FileLength)
<1> SUFFICES ASSUME Len(received) < FileLength PROVE FALSE
  OBVIOUS
<1>0. BusInv /\ NameInv /\ TalkInv /\ opened
  BY DEF StreamInv, OnFile
<1>1. InJob /\ ~Commanded /\ ~Sending /\ ~Ended /\ ~Latched /\ ~Accepting /\ pc # "turn"
  BY ReadPlaces
<1>2. job.kind = "read"
  BY <1>0, <1>1 DEF NameInv, JobFits
<1>3. ~Holds("atn")
  <2>1. ~Commanding /\ ~ToRelease("atn")
    BY Zenon DEF Watching, Commanding, ToRelease
  <2> QED BY <1>0, <2>1, Returned DEF Holds
<1>4. Given(C) < FileLength
  <2>1. Given(C) = Len(received) + IF Accepting /\ state # "Out2" THEN 1 ELSE 0
    BY <1>0 DEF TalkInv, ReadOK
  <2>2. Len(received) \in Nat
    BY <1>0 DEF TalkInv
  <2> QED BY <1>1, <2>1, <2>2
<1>5. state \in Talks
  BY <1>0, <1>1, <1>2, <1>3, <1>4 DEF TalkInv, MoreOK
<1>6. line["nrfd"] = {} /\ "emu" \notin line["dav"]
  BY BusFields DEF Pulled
<1>7. state = "Out1a" => "emu" \in line["dav"]
  BY <1>0 DEF TalkInv, ByteOK
<1> QED BY <1>0, <1>1, <1>5, <1>6, <1>7, TalkerAt DEF Talks

(* A machine gives up on a device only between its calls.                  *)
LEMMA GivesUp ==
  ASSUME [Next]_vars, NotPresent \/ Timeout
  PROVE  calls = <<>>
<1>1. pc' # pc
  BY DEF NotPresent, Timeout, PullAtn, Cpu
<1>2. ~BusCall
  BY <1>1 DEF BusCall
<1>3. ~(UNCHANGED vars)
  BY <1>1 DEF vars
<1> QED BY <1>2, <1>3 DEF Next, Proceed, DriveStep

(* So it gives up only where there is nothing to wait for.                 *)
LEMMA NoAlarm ==
  ASSUME OneDevice, StreamInv, [Next]_vars
  PROVE  /\ NotPresent => ~OnFile /\ (job.kind = "open" => job.device \notin Virtual)
         /\ Timeout => ~(OnFile /\ Len(received) < FileLength)
<1>1. ASSUME NotPresent PROVE job.device \notin Virtual
  <2>1. pc = "send" /\ ~Pulled(Bus, "ndac") /\ ~Pulled(Bus, "nrfd")
    BY <1>1 DEF NotPresent
  <2> QED BY <2>1, DeviceIsPresent, TheDevice
<1>2. ASSUME Timeout, OnFile PROVE ~(Len(received) < FileLength)
  <2>1. Watching /\ ~Pulled(Bus, "dav") /\ ~Pulled(Bus, "nrfd")
    BY <1>2 DEF Timeout, Watching
  <2> QED BY <1>2, <2>1, GivesUp, NothingToRead
<1> QED BY <1>1, <1>2 DEF OnFile

-----------------------------------------------------------------------------
(* The stream of bytes.                                                    *)
Stored == IF opened THEN C.stored ELSE <<>>

(* What the steps of the stream are here.                                  *)
LEMMA StreamIs ==
  /\ Stored' = Stored /\ UNCHANGED <<sent, received, ended>> => UNCHANGED Stream!vars
  /\ Stream!Init <=> Stored = <<>> /\ sent = 0 /\ received = <<>> /\ ended = FALSE
  /\ Stored' = <<>> /\ sent' = 0 /\ received' = <<>> /\ ended' = FALSE => Stream!Next
  /\ /\ Stored' = Append(Stored, Len(Stored) + 1) /\ Len(Stored) = sent
     /\ UNCHANGED <<sent, received, ended>>
     => Stream!Next
  /\ /\ sent < Len(Stored) /\ sent' = sent + 1
     /\ Stored' = Stored /\ UNCHANGED <<received, ended>>
     => Stream!Next
  /\ /\ Len(received) < FileLength
     /\ received' = Append(received, Len(received) + 1)
     /\ ended' = (Len(received) + 1 = FileLength)
     /\ Stored' = Stored /\ sent' = sent
     => Stream!Next
  BY DEF Stream!vars, Stream!Init, Stream!Next, Stream!Fresh, Stream!Open, Stream!Put,
         Stream!Acknowledge, Stream!Get, Stored, C, V

(* A step that leaves file and channel alone.                              *)
LEMMA SameStream ==
  ASSUME UNCHANGED <<trap, file>>
  PROVE  UNCHANGED Stream!vars
<1>1. Stored' = Stored /\ UNCHANGED <<sent, received, ended>>
  BY DEF Stored, C, file
<1> QED BY <1>1, StreamIs

(* The device takes a byte that is written.                                *)
LEMMA CallIsPut == ASSUME OneDevice, StreamInv, BusCall PROVE [Stream!Next]_(Stream!vars)
<1>1. UNCHANGED <<opened, sent, received, ended>>
  BY DEF BusCall, file
<1>2. opened => C'.stored = IF Gives /\ Writes THEN Append(C.stored, Len(C.stored) + 1) ELSE C.stored
  BY CallOfFile DEF StreamInv
<1>3. CASE opened /\ Gives /\ Writes
  <2>1. Stored = C.stored /\ Stored' = Append(Stored, Len(Stored) + 1)
    BY <1>1, <1>2, <1>3 DEF Stored
  <2>2. Len(Stored) = sent
    <3>1. ~Delivered
      BY <1>3 DEF Delivered
    <3>2. Len(C.stored) = sent + IF Writes /\ Delivered THEN 1 ELSE 0
      BY <1>3 DEF StreamInv, FileInv, WriteOK
    <3>3. sent \in Nat
      BY DEF StreamInv, BusInv, Types
    <3> QED BY <2>1, <3>1, <3>2, <3>3
  <2> QED BY <1>1, <2>1, <2>2, StreamIs
<1>4. CASE ~(opened /\ Gives /\ Writes)
  <2>1. Stored' = Stored
    BY <1>1, <1>2, <1>4 DEF Stored
  <2> QED BY <1>1, <2>1, StreamIs
<1> QED BY <1>3, <1>4

(* The machine learns that a byte is with the device.                      *)
LEMMA TakenIsAcknowledge ==
  ASSUME OneDevice, StreamInv, calls = <<>>, ByteTaken
  PROVE  [Stream!Next]_(Stream!vars)
<1>1. /\ UNCHANGED <<trap, opened, received, ended>>
      /\ sent' = IF job.kind = "write" /\ OnFile THEN sent + 1 ELSE sent
  BY DEF ByteTaken, Cpu, device
<1>2. Stored' = Stored
  BY <1>1 DEF Stored, C
<1>3. CASE job.kind = "write" /\ OnFile
  <2>1. Writes /\ opened
    BY <1>3, TheDevice DEF OnFile, Writes
  <2>2. Delivered
    <3>1. ~Gives
      BY Returned DEF Gives, StreamInv
    <3> QED BY <3>1, Zenon DEF Delivered, ByteTaken
  <2>3. Len(C.stored) = sent + 1
    BY <2>1, <2>2 DEF StreamInv, FileInv, WriteOK
  <2>4. sent < Len(Stored)
    <3>1. sent \in Nat
      BY DEF StreamInv, BusInv, Types
    <3> QED BY <2>1, <2>3, <3>1 DEF Stored
  <2> QED BY <1>1, <1>2, <1>3, <2>4, StreamIs
<1>4. CASE ~(job.kind = "write" /\ OnFile)
  BY <1>1, <1>2, <1>4, StreamIs
<1> QED BY <1>3, <1>4

(* The machine has read a byte.                                            *)
LEMMA AcceptedIsGet ==
  ASSUME OneDevice, StreamInv, calls = <<>>, Accepted
  PROVE  [Stream!Next]_(Stream!vars)
<1>1. /\ ~opened => UNCHANGED <<opened, sent, received, ended>>
      /\ opened =>
           /\ received' = Append(received, latch.byte) /\ ended' = latch.eoi /\ sent' = sent
           /\ NextByte /\ Given(C) = Len(received) + 1
  BY AcceptedIs DEF StreamInv
<1>2. trap' = trap /\ opened' = opened
  BY ReadingTalk DEF StreamInv
<1>3. Stored' = Stored
  BY <1>2 DEF Stored, C
<1>4. CASE ~opened
  BY <1>1, <1>3, <1>4, StreamIs
<1>5. CASE opened
  <2>1. latch.byte = Len(received) + 1 /\ (latch.eoi = (Len(received) + 1 = FileLength))
    BY <1>1, <1>5, NextByteIs
  <2>2. Len(received) < FileLength
    <3>1. C.pos <= FileLength /\ C.pos \in Nat /\ Len(received) \in Nat
      BY TheChannel DEF StreamInv, FileInv, ChannelFits, Channel, TalkInv
    <3>2. Given(C) <= C.pos
      BY <3>1 DEF Given
    <3> QED BY <1>1, <1>5, <3>1, <3>2, FileAssumption
  <2> QED BY <1>1, <1>3, <1>5, <2>1, <2>2, StreamIs
<1> QED BY <1>4, <1>5

(* A file is opened anew, or the machine forgets it.                       *)
LEMMA FreshIsOpen ==
  ASSUME Forget
  PROVE  Stream!Next
<1>1. Stored' = <<>>
  BY DEF Forget, Stored
<1> QED BY <1>1, StreamIs DEF Forget

(* The job is over: a file that was opened is fresh.                       *)
LEMMA EndJobIsOpen ==
  ASSUME OneDevice, StreamInv, calls = <<>>, EndJob
  PROVE  [Stream!Next]_(Stream!vars)
<1>1. /\ trap' = trap /\ pc = "command" /\ todo = <<>> /\ after = "end"
      /\ IF job.kind = "open" /\ job.device \in Virtual
         THEN opened' = trap.channel[job.device].open /\ UNCHANGED <<sent, received, ended>>
         ELSE UNCHANGED file
  BY DEF EndJob, ReleaseAtn, Cpu, device
<1>2. CASE ~(job.kind = "open" /\ job.device \in Virtual)
  BY <1>1, <1>2, SameStream
<1>3. CASE job.kind = "open" /\ job.device \in Virtual
  <2>1. Over /\ InJob
    BY <1>1 DEF Over, Left, Commanded, InJob
  <2>2. ~opened
    BY <1>3, <2>1 DEF StreamInv, NameInv, JobFits
  <2>3. sent = 0 /\ received = <<>> /\ ended = FALSE
    BY <2>2 DEF StreamInv, FileInv, FreshOK
  <2>4. opened' = C.open /\ C' = C
    BY <1>1, <1>3, TheDevice DEF C
  <2>5. Stored' = <<>>
    BY <1>3, <2>1, <2>4 DEF Stored, StreamInv, FileInv, FreshOK
  <2> QED BY <1>1, <1>3, <2>3, <2>5, StreamIs
<1> QED BY <1>2, <1>3

(* A job that opens or closes begins with no file.                         *)
LEMMA StartIsOpen ==
  ASSUME NEW kind, NEW d, Start(kind, d)
  PROVE  [Stream!Next]_(Stream!vars)
<1>1. trap' = trap /\ (Forget \/ UNCHANGED file)
  BY DEF Start, PullAtn, Cpu, device
<1> QED BY <1>1, FreshIsOpen, SameStream

(* Whatever machine, drive and device do is a step of the stream, or none  *)
(* of its business.                                                        *)
LEMMA StreamStep == ASSUME OneDevice, StreamInv, [Next]_vars PROVE [Stream!Next]_(Stream!vars)
<1>1. CASE BusCall
  BY <1>1, CallIsPut
<1>2. ASSUME calls = <<>>,
             \/ WatchWires \/ SendCommand \/ CommandTaken
             \/ StartSending \/ SendByte \/ NotPresent
             \/ StartListening \/ Turn \/ Ready \/ TakeByte \/ Accept \/ Timeout
             \/ Release \/ StopSending \/ StopReceiving
      PROVE  UNCHANGED <<trap, file>>
  <2>1. CASE WatchWires \/ SendCommand \/ CommandTaken
    BY <2>1 DEF WatchWires, SendCommand, CommandTaken, Cpu, device
  <2>2. CASE StartSending \/ SendByte
    BY <2>2 DEF StartSending, SendByte, ReleaseAtn, Cpu, device
  <2>3. CASE StartListening \/ Turn \/ Ready \/ TakeByte \/ Accept
    BY <2>3 DEF StartListening, Turn, Ready, TakeByte, Accept, ReleaseAtn, Cpu, device
  <2>4. CASE NotPresent \/ Timeout \/ StopSending \/ StopReceiving
    BY <2>4 DEF NotPresent, Timeout, StopSending, StopReceiving, PullAtn, Cpu, device
  <2>5. CASE Release
    BY <2>5 DEF Release, ReleaseAtn, Cpu, device
  <2> QED BY <1>2, <2>1, <2>2, <2>3, <2>4, <2>5
<1>3. CASE Proceed
  <2>1. calls = <<>> /\ Routine
    BY <1>3 DEF Proceed
  <2>2. CASE EndJob
    BY <2>1, <2>2, EndJobIsOpen
  <2>3. CASE ByteTaken
    BY <2>1, <2>3, TakenIsAcknowledge
  <2>4. CASE Accepted
    BY <2>1, <2>4, AcceptedIsGet
  <2> QED BY <1>2, <2>1, <2>2, <2>3, <2>4, SameStream DEF Routine
<1>4. CASE DriveStep
  <2>1. UNCHANGED <<trap, file>>
    BY <1>4 DEF DriveStep, DriveAnswers, DriveBusy, DriveTakes, DriveAgain, DriveLeaves, Drv, device
  <2> QED BY <2>1, SameStream
<1>5. CASE calls = <<>> /\ (StopSending \/ StopReceiving)
  BY <1>2, <1>5, SameStream
<1>6. CASE calls = <<>> /\ Reset
  BY <1>6, FreshIsOpen DEF Reset
<1>7. CASE Poll \/ UNCHANGED vars
  <2>1. UNCHANGED <<trap, file>>
    BY <1>7 DEF Poll, vars, device
  <2> QED BY <2>1, SameStream
<1>8. CASE calls = <<>> /\ \E kind \in {"open", "close", "read", "write"}, d \in Device : Start(kind, d)
  BY <1>8, StartIsOpen
<1> QED BY <1>1, <1>3, <1>4, <1>5, <1>6, <1>7, <1>8 DEF Next

-----------------------------------------------------------------------------
(* The invariant that all of this rests on: what the device and the drive  *)
(* do on the wires, what the trap layer has of the name and of the file,   *)
(* and what the machine knows of it, fit together at every moment.         *)
THEOREM StreamInvariant == ASSUME DrivesBesideNew, OneDevice PROVE Spec => []StreamInv
<1>1. Init => StreamInv
  BY InitKeeps, InitName, InitDrive, InitHolds, InitFile, InitTalk DEF StreamInv
<1>2. StreamInv /\ [Next]_vars => StreamInv'
  BY NextStream
<1> QED BY <1>1, <1>2, PTL DEF Spec

(* A machine that reports a device as not present, or times out waiting    *)
(* for a byte, is right: parallel.c answers every byte and offers every    *)
(* byte it has, however ATN, a drive and the machine interleave.           *)
THEOREM NoFalseAlarms == ASSUME DrivesBesideNew, OneDevice PROVE Spec => NoFalseAlarm
<1>1. StreamInv /\ [Next]_vars =>
        [/\ NotPresent => ~OnFile /\ (job.kind = "open" => job.device \notin Virtual)
         /\ Timeout => ~(OnFile /\ Len(received) < FileLength)]_vars
  BY NoAlarm
<1> QED BY <1>1, StreamInvariant, PTL DEF Spec, NoFalseAlarm

(* The bus implements the stream of bytes: what is written and read        *)
(* arrives once, in order and unharmed, and the end is signalled with the  *)
(* last byte and no other.                                                 *)
THEOREM CarriesStream == ASSUME DrivesBesideNew, OneDevice PROVE Spec => IsStream
<1>1. Init => Stream!Init
  <2>1. ASSUME Init PROVE Stored = <<>> /\ sent = 0 /\ received = <<>> /\ ended = FALSE
    BY <2>1 DEF Init, Stored
  <2> QED BY <2>1, StreamIs
<1>2. StreamInv /\ [Next]_vars => [Stream!Next]_(Stream!vars)
  BY StreamStep
<1> QED BY <1>1, <1>2, StreamInvariant, PTL DEF Spec, IsStream, Stream!Spec
=============================================================================
