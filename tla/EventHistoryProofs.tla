------------------------- MODULE EventHistoryProofs -------------------------
(***************************************************************************)
(* Proofs about EventHistory: whatever the user asks and whenever, with a  *)
(* snapshot that cannot be written at any point, the clocks stay in their  *)
(* range, and the recorder and the alarm find their current event in the   *)
(* list.                                                                   *)
(*                                                                         *)
(* The reason is the shape of a list, in memory and in the file of the end *)
(* snapshot: it begins with the event that says how it was started, ends   *)
(* in a node of type `end', and what is not such a node has a successor.   *)
(***************************************************************************)
EXTENDS EventHistory, NaturalFacts

-----------------------------------------------------------------------------
Initials == {"initial_save", "initial_reset"}

Nodes == [type : Initials \cup {"timestamp", "overflow", "key", "reset", "end"}, clk : Clock]

(* The nodes of a list: an initial event, others, and an end.              *)
Proper(nodes) ==
  /\ nodes \in Seq(Nodes) /\ Len(nodes) >= 2
  /\ nodes[1].type \in Initials /\ nodes[Len(nodes)].type = "end"

(* A list, whose current event is one of its nodes.                        *)
IsList(l) ==
  /\ l = [nodes |-> l.nodes, current |-> l.current, from |-> l.from, told |-> l.told,
          whole |-> l.whole]
  /\ Proper(l.nodes) /\ l.current \in 1..Len(l.nodes)

(* A list that has been entered: the initial event is behind.              *)
Entered(l) == IsList(l) /\ l.current >= 2

(* A machine that the recorder may put back: it is at the start of a frame *)
(* that ends before the clock overflows.                                   *)
IsMachine(m) ==
  /\ m = [clk |-> m.clk, raster |-> m.raster, age |-> m.age, inputs |-> m.inputs]
  /\ m.clk \in Clock /\ m.raster \in Clock

AtFrame(m) == IsMachine(m) /\ m.raster = m.clk + Frame

IsFile(file) ==
  /\ file = [machine |-> file.machine, list |-> file.list]
  /\ AtFrame(file.machine) /\ IsList(file.list)

-----------------------------------------------------------------------------
(* The numbers of the assumptions: the clock is set back by at least a     *)
(* frame, and never below zero.                                            *)
LEMMA Numbers ==
  /\ Mod \in Nat /\ Frame \in Nat /\ Second \in Nat /\ MaxClk \in Nat /\ Sub \in Nat
  /\ Frame > 0 /\ Second > 0 /\ Mod > 0 /\ Frame <= Sub /\ Sub <= MaxClk
  /\ MaxClk + Frame < Mod
  /\ PowerUpClk \in 0..MaxClk /\ ResetClk \in 0..MaxClk
<1>1. /\ Mod \in Nat /\ SUB_MIN \in Nat /\ Frame \in Nat /\ Second \in Nat
      /\ Mod > 0 /\ SUB_MIN > 0 /\ Frame > 0 /\ Second > 0
      /\ SUB_MIN + Second < Sub /\ Frame <= SUB_MIN
      /\ PowerUpClk \in 0..MaxClk /\ ResetClk \in 0..MaxClk
  BY ClockAssumption
<1>2. MaxClk \in Nat /\ MaxClk - SUB_MIN \in Int
  BY <1>1 DEF MaxClk
<1> DEFINE q == (MaxClk - SUB_MIN) \div Frame
<1>3. q \in Int /\ q * Frame <= MaxClk - SUB_MIN
  BY <1>1, <1>2, Z3
<1>4. Sub = q * Frame
  BY DEF Sub
<1> HIDE DEF q
<1>5. Sub \in Int /\ Sub > 0
  BY <1>1, <1>3, <1>4
<1>6. q >= 1
  <2>1. CASE q <= 0
    <3>1. q * Frame <= 0
      BY <1>1, <1>3, <2>1
    <3> QED BY <1>4, <1>5, <3>1
  <2> QED BY <1>3, <2>1
<1>7. Frame <= q * Frame
  BY <1>1, <1>3, <1>6
<1>8. MaxClk + Frame < Mod
  BY <1>1 DEF MaxClk
<1>9. Frame <= Sub /\ Sub <= MaxClk
  BY <1>1, <1>2, <1>3, <1>4, <1>7
<1> QED BY <1>1, <1>2, <1>5, <1>8, <1>9

(* Remainders of the clock are clocks.                                     *)
LEMMA ModClock ==
  ASSUME NEW x \in Int
  PROVE  x % Mod \in Clock
BY Numbers, Z3 DEF Clock

-----------------------------------------------------------------------------
(* The time stamps between two clocks: they end before the second, but     *)
(* less than a second before it.                                           *)
LEMMA StampsFacts ==
  ASSUME NEW from \in Nat, NEW to \in Nat, to < Mod
  PROVE  /\ Stamps(from, to) \in Seq(Nodes)
         /\ from + Second * Len(Stamps(from, to)) >= to
<1> DEFINE q == (to - from + Second - 1) \div Second
           n == IF from < to THEN q ELSE 0
<1>1. Second \in Nat /\ Second > 0 /\ Mod \in Nat
  BY Numbers
<1>2. /\ q \in Int /\ Second * q <= to - from + Second - 1
      /\ to - from + Second - 1 < Second * q + Second
  BY <1>1, Z3
<1>3. Stamps(from, to) = [i \in 1..n |-> Node("timestamp", from + (i - 1) * Second)]
  BY DEF Stamps
<1> HIDE DEF q
<1>4. n \in Nat
  <2>1. ASSUME from < to, q < 0
        PROVE  FALSE
    <3>1. Second * q > -Second /\ Second * q <= -Second
      BY <1>1, <1>2, <2>1
    <3> QED BY <1>1, <1>2, <3>1
  <2> QED BY <1>2, <2>1
<1>5. ASSUME NEW i \in 1..n
      PROVE  Node("timestamp", from + (i - 1) * Second) \in Nodes
  <2>1. from < to /\ i <= q /\ i >= 1 /\ i \in Int
    BY <1>4
  <2>2. (i - 1) * Second <= (q - 1) * Second
    BY <1>1, <1>2, <2>1
  <2>3. (i - 1) * Second >= 0 /\ (i - 1) * Second \in Int
    BY <1>1, <2>1
  <2>4. (q - 1) * Second = Second * q - Second
    BY <1>1, <1>2
  <2> DEFINE x == from + (i - 1) * Second
  <2>5. x \in Clock
    BY <1>1, <1>2, <2>2, <2>3, <2>4 DEF Clock
  <2> HIDE DEF x
  <2>6. [type |-> "timestamp", clk |-> x] \in Nodes
    BY <2>5 DEF Nodes
  <2> QED BY <2>6 DEF Node, x
<1>6. Stamps(from, to) \in [1..n -> Nodes]
  BY <1>3, <1>5
<1>7. Stamps(from, to) \in Seq(Nodes) /\ Len(Stamps(from, to)) = n
  <2> HIDE DEF n
  <2> QED BY <1>4, <1>6
<1>8. from + Second * n >= to
  <2>1. CASE from < to
    BY <1>1, <1>2, <2>1
  <2>2. CASE ~(from < to)
    <3>1. n = 0 /\ Second * 0 = 0
      BY <1>1, <2>2
    <3> QED BY <2>2, <3>1
  <2> QED BY <2>1, <2>2
<1> QED BY <1>7, <1>8

-----------------------------------------------------------------------------
(* What is written of a list is proper again: neither the initial event    *)
(* nor the end is a time stamp.                                            *)
LEMMA WrittenProper ==
  ASSUME NEW l, Proper(l.nodes)
  PROVE  Proper(event_snapshot_write_module(l))
<1> DEFINE nodes == l.nodes
           m == Len(nodes)
           Body(w) == [i \in 0..m |->
                         IF i = 0 THEN <<>>
                         ELSE IF nodes[i].type = "timestamp" THEN w[i - 1]
                         ELSE Append(w[i - 1], nodes[i])]
           written == CHOOSE w : w = Body(w)
<1>1. m \in Nat /\ m >= 2 /\ \A i \in 1..m : nodes[i] \in Nodes
  BY DEF Proper
<1>2. written = Body(written)
  <2> SUFFICES \E w : w = Body(w)
    OBVIOUS
  <2> DEFINE V == Seq(Nodes)
             prev == [i \in 1..m |-> i - 1]
             step == [x \in (1..m) \X V |->
                        IF nodes[x[1]].type = "timestamp" THEN x[2]
                        ELSE Append(x[2], nodes[x[1]])]
  <2>1. prev \in [1..m -> Nat] /\ \A i \in 1..m : prev[i] < i
    BY <1>1
  <2>2. step \in [(1..m) \X V -> V]
    <3> SUFFICES ASSUME NEW x \in (1..m) \X V
                 PROVE  (IF nodes[x[1]].type = "timestamp" THEN x[2]
                         ELSE Append(x[2], nodes[x[1]])) \in V
      OBVIOUS
    <3>1. x[1] \in 1..m /\ x[2] \in Seq(Nodes) /\ nodes[x[1]] \in Nodes
      BY <1>1
    <3> HIDE DEF nodes, m
    <3> QED BY <3>1
  <2>3. <<>> \in V
    OBVIOUS
  <2>4. PICK w \in [0..m -> V] : Computed(w, m, <<>>, prev, step)
    <3> HIDE DEF V, prev, step
    <3> QED BY <1>1, <2>1, <2>2, <2>3, Computable
  <2>5. \A i \in 1..m : w[i] = IF nodes[i].type = "timestamp" THEN w[i - 1]
                               ELSE Append(w[i - 1], nodes[i])
    <3> SUFFICES ASSUME NEW i \in 1..m
                 PROVE  w[i] = IF nodes[i].type = "timestamp" THEN w[i - 1]
                               ELSE Append(w[i - 1], nodes[i])
      OBVIOUS
    <3>1. w[i] = step[<<i, w[prev[i]]>>] /\ prev[i] = i - 1
      BY <2>4 DEF Computed
    <3>2. i - 1 \in 0..m
      BY <1>1
    <3>3. <<i, w[i - 1]>> \in (1..m) \X V
      BY <2>4, <3>2
    <3> QED BY <3>1, <3>3
  <2>6. w[0] = <<>>
    BY <2>4 DEF Computed
  <2>7. \A i \in 0..m : w[i] = Body(w)[i]
    BY <1>1, <2>5, <2>6
  <2>8. w = Body(w)
    BY <2>4, <2>7
  <2> QED BY <2>8
<1>3. event_snapshot_write_module(l) = written[m]
  BY DEF event_snapshot_write_module
<1> HIDE DEF written
<1>4. \A i \in 0..m : written[i] = IF i = 0 THEN <<>>
                                   ELSE IF nodes[i].type = "timestamp" THEN written[i - 1]
                                   ELSE Append(written[i - 1], nodes[i])
  BY <1>2
<1> HIDE DEF Body
<1> DEFINE Good(s) == /\ s \in Seq(Nodes) /\ Len(s) >= 1 /\ s[1] = nodes[1]
           T == {i \in 0..m : i >= 1 => Good(written[i])}
<1>5. ASSUME NEW i \in 0..m, \A k \in 0..i - 1 : k \in T
      PROVE  i \in T
  <2>1. CASE i = 0
    BY <2>1
  <2>2. CASE i = 1
    <3>1. nodes[1].type # "timestamp" /\ nodes[1] \in Nodes
      BY <1>1 DEF Proper, Initials
    <3>2. written[0] = <<>>
      BY <1>1, <1>4
    <3>3. written[i] = Append(<<>>, nodes[1])
      <4>1. written[i] = IF nodes[i].type = "timestamp" THEN written[i - 1]
                         ELSE Append(written[i - 1], nodes[i])
        BY <1>4, <2>2
      <4>2. written[i - 1] = <<>> /\ nodes[i] = nodes[1]
        BY <2>2, <3>2
      <4> HIDE DEF nodes
      <4> QED BY <3>1, <4>1, <4>2
    <3>4. Good(written[i])
      <4> HIDE DEF nodes
      <4> QED BY <3>1, <3>3
    <3> QED BY <2>2, <3>4
  <2>3. CASE i > 1
    <3>1. i - 1 \in 0..i - 1 /\ i - 1 >= 1
      BY <2>3
    <3>2. Good(written[i - 1])
      BY <1>5, <3>1
    <3>3. written[i] = IF nodes[i].type = "timestamp" THEN written[i - 1]
                       ELSE Append(written[i - 1], nodes[i])
      BY <1>4, <2>3
    <3>4. nodes[i] \in Nodes
      BY <1>1, <2>3
    <3> DEFINE s == written[i - 1]
               n == nodes[i]
    <3>5. Good(Append(s, n))
      <4> s \in Seq(Nodes) /\ Len(s) >= 1 /\ s[1] = nodes[1] /\ n \in Nodes
        BY <3>2, <3>4
      <4> HIDE DEF s, n, nodes
      <4> QED OBVIOUS
    <3>6. Good(written[i])
      BY <3>2, <3>3, <3>5
    <3> QED BY <3>6
  <2> QED BY <2>1, <2>2, <2>3
<1>6. \A i \in 0..m : i \in T
  <2> HIDE DEF T
  <2> QED BY <1>1, <1>5, UpTo
<1>7. Good(written[m - 1])
  <2>1. m - 1 \in 0..m /\ m - 1 >= 1
    BY <1>1
  <2> QED BY <1>6, <2>1
<1>8. written[m] = Append(written[m - 1], nodes[m])
  <2>1. nodes[m].type = "end"
    BY DEF Proper
  <2>2. m \in 0..m /\ m # 0
    BY <1>1
  <2> QED BY <1>4, <2>1, <2>2
<1> DEFINE s == written[m - 1]
           n == nodes[m]
<1>9. n \in Nodes /\ n.type = "end" /\ nodes[1].type \in Initials
  BY <1>1 DEF Proper
<1>10. s \in Seq(Nodes) /\ Len(s) >= 1 /\ s[1] = nodes[1]
  BY <1>7
<1>11. Proper(Append(s, n))
  <2> HIDE DEF s, n, nodes
  <2>1. Append(s, n) \in Seq(Nodes) /\ Len(Append(s, n)) = Len(s) + 1
    BY <1>9, <1>10
  <2>2. Append(s, n)[1] = nodes[1] /\ Append(s, n)[Len(s) + 1] = n
    BY <1>9, <1>10
  <2> QED BY <1>9, <1>10, <2>1, <2>2 DEF Proper
<1> QED BY <1>3, <1>8, <1>11

-----------------------------------------------------------------------------
(* What has been read of a file: nodes, and the next time stamp.           *)
ReadSoFar == [nodes : Seq(Nodes), stamp : Nat]

(* The time stamps that are inserted before a node.                        *)
StampsBefore(before, n) ==
  CASE n.type = "initial_reset" -> <<>>
    [] n.type = "initial_save" -> <<>>
    [] n.type = "overflow" -> Stamps(before.stamp, MaxClk)
    [] OTHER -> Stamps(before.stamp, n.clk)

(* One step of Reading.                                                    *)
ReadNode(before, n) ==
  LET stamps == StampsBefore(before, n)
      stamp == before.stamp + Second * Len(stamps)
  IN  [nodes |-> Append(before.nodes \o stamps, n),
       stamp |-> CASE n.type = "initial_reset" -> 0
                   [] n.type = "initial_save" -> n.clk
                   [] n.type = "overflow" -> stamp - Sub
                   [] n.type = "reset" -> stamp - n.clk
                   [] OTHER -> stamp]

(* The next time stamp never falls below zero: before the clock is set     *)
(* back, or reset, it is past the clock.                                   *)
LEMMA ReadNodeFacts ==
  ASSUME NEW before \in ReadSoFar, NEW n \in Nodes
  PROVE  /\ ReadNode(before, n) \in ReadSoFar
         /\ StampsBefore(before, n) \in Seq(Nodes)
         /\ n.type \in Initials => StampsBefore(before, n) = <<>>
<1> DEFINE stamps == StampsBefore(before, n)
           stamp == before.stamp + Second * Len(stamps)
<1>1. before.stamp \in Nat /\ before.nodes \in Seq(Nodes)
  BY DEF ReadSoFar
<1>2. n.clk \in Nat /\ n.clk < Mod /\ MaxClk \in Nat /\ MaxClk < Mod /\ Sub \in Nat
      /\ Sub <= MaxClk /\ Second \in Nat /\ Mod \in Nat
  BY Numbers DEF Nodes, Clock
<1>3. stamps \in Seq(Nodes)
  <2>1. Stamps(before.stamp, MaxClk) \in Seq(Nodes) /\ Stamps(before.stamp, n.clk) \in Seq(Nodes)
    BY <1>1, <1>2, StampsFacts
  <2>2. <<>> \in Seq(Nodes)
    OBVIOUS
  <2> QED BY <2>1, <2>2 DEF StampsBefore
<1>4. n.type \in Initials => stamps = <<>>
  BY DEF StampsBefore, Initials
<1>5. stamp \in Nat
  <2>1. Len(stamps) \in Nat
    BY <1>3
  <2> HIDE DEF stamps
  <2>2. Second * Len(stamps) \in Nat
    BY <1>2, <2>1
  <2> QED BY <1>1, <2>2
<1>6. n.type = "overflow" => stamp >= MaxClk
  <2> SUFFICES ASSUME n.type = "overflow"
               PROVE  stamp >= MaxClk
    OBVIOUS
  <2>1. stamps = Stamps(before.stamp, MaxClk)
    BY DEF StampsBefore
  <2> QED BY <1>1, <1>2, <2>1, StampsFacts
<1>7. n.type = "reset" => stamp >= n.clk
  <2> SUFFICES ASSUME n.type = "reset"
               PROVE  stamp >= n.clk
    OBVIOUS
  <2>1. stamps = Stamps(before.stamp, n.clk)
    BY DEF StampsBefore
  <2> QED BY <1>1, <1>2, <2>1, StampsFacts
<1>8. ReadNode(before, n) =
        [nodes |-> Append(before.nodes \o stamps, n),
         stamp |-> CASE n.type = "initial_reset" -> 0
                     [] n.type = "initial_save" -> n.clk
                     [] n.type = "overflow" -> stamp - Sub
                     [] n.type = "reset" -> stamp - n.clk
                     [] OTHER -> stamp]
  BY DEF ReadNode
<1> HIDE DEF stamp, stamps
<1>9. Append(before.nodes \o stamps, n) \in Seq(Nodes)
  BY <1>1, <1>3
<1> DEFINE next == CASE n.type = "initial_reset" -> 0
                     [] n.type = "initial_save" -> n.clk
                     [] n.type = "overflow" -> stamp - Sub
                     [] n.type = "reset" -> stamp - n.clk
                     [] OTHER -> stamp
<1>10. next \in Nat
  BY <1>2, <1>5, <1>6, <1>7
<1> HIDE DEF next
<1>11. ReadNode(before, n) \in ReadSoFar
  BY <1>8, <1>9, <1>10 DEF ReadSoFar, next
<1> QED BY <1>3, <1>4, <1>11 DEF stamps

(* What is read of a proper list is proper: it is read up to its first     *)
(* end, and begins with its initial event.                                 *)
LEMMA ReadingProper ==
  ASSUME NEW nodes, Proper(nodes)
  PROVE  Proper(Reading(nodes).nodes) /\ Reading(nodes).stamp \in Nat
<1> DEFINE m == Len(nodes)
           b == [nodes |-> <<>>, stamp |-> 0]
           Body(f) == [i \in 0..m |-> IF i = 0 THEN b ELSE ReadNode(f[i - 1], nodes[i])]
           read == CHOOSE f : f = Body(f)
           IsFirstEnd(i) == nodes[i].type = "end" /\ \A j \in 1..i - 1 : nodes[j].type # "end"
           last == CHOOSE i \in 1..m : IsFirstEnd(i)
<1>1. m \in Nat /\ m >= 2 /\ \A i \in 1..m : nodes[i] \in Nodes
  BY DEF Proper
<1>2. b \in ReadSoFar
  <2>1. <<>> \in Seq(Nodes) /\ 0 \in Nat
    OBVIOUS
  <2> QED BY <2>1 DEF ReadSoFar
<1>3. Reading(nodes) = read[last]
  BY DEF Reading, ReadNode, StampsBefore
<1> HIDE DEF b
<1>4. read = Body(read)
  <2> SUFFICES \E f : f = Body(f)
    OBVIOUS
  <2> DEFINE V == ReadSoFar
             prev == [i \in 1..m |-> i - 1]
             step == [x \in (1..m) \X V |-> ReadNode(x[2], nodes[x[1]])]
  <2>1. prev \in [1..m -> Nat] /\ \A i \in 1..m : prev[i] < i
    BY <1>1
  <2>2. step \in [(1..m) \X V -> V]
    <3> SUFFICES ASSUME NEW x \in (1..m) \X V
                 PROVE  ReadNode(x[2], nodes[x[1]]) \in V
      OBVIOUS
    <3>1. x[1] \in 1..m /\ x[2] \in ReadSoFar
      OBVIOUS
    <3> QED BY <1>1, <3>1, ReadNodeFacts
  <2>3. PICK f \in [0..m -> V] : Computed(f, m, b, prev, step)
    <3> HIDE DEF V, prev, step
    <3>1. b \in V
      BY <1>2 DEF V
    <3> QED BY <1>1, <2>1, <2>2, <3>1, Computable
  <2>4. \A i \in 1..m : f[i] = ReadNode(f[i - 1], nodes[i])
    <3> SUFFICES ASSUME NEW i \in 1..m
                 PROVE  f[i] = ReadNode(f[i - 1], nodes[i])
      OBVIOUS
    <3>1. f[i] = step[<<i, f[prev[i]]>>] /\ prev[i] = i - 1
      BY <2>3 DEF Computed
    <3>2. i - 1 \in 0..m
      BY <1>1
    <3>3. <<i, f[i - 1]>> \in (1..m) \X V
      BY <2>3, <3>2
    <3> QED BY <3>1, <3>3
  <2>5. f[0] = b
    BY <2>3 DEF Computed
  <2>6. \A i \in 0..m : f[i] = Body(f)[i]
    BY <1>1, <2>4, <2>5
  <2>7. f = Body(f)
    BY <2>3, <2>6
  <2> QED BY <2>7
<1> HIDE DEF read
<1>5. \A i \in 0..m : read[i] = IF i = 0 THEN b ELSE ReadNode(read[i - 1], nodes[i])
  BY <1>4
<1> HIDE DEF Body
<1>6. last \in 1..m /\ IsFirstEnd(last)
  <2> SUFFICES \E i \in 1..m : IsFirstEnd(i)
    OBVIOUS
  <2> DEFINE E == {i \in 1..m : nodes[i].type = "end"}
  <2>1. m \in E
    BY <1>1 DEF Proper
  <2>2. E \subseteq Nat /\ E # {}
    BY <2>1
  <2>3. PICK i \in E : \A j \in E : i <= j
    <3> HIDE DEF E
    <3> QED BY <2>2, LeastOf
  <2> QED BY <2>3
<1>7. last >= 2
  <2>1. nodes[1].type # "end"
    BY DEF Proper, Initials
  <2> HIDE DEF last
  <2> QED BY <1>6, <2>1
<1> HIDE DEF last
<1> DEFINE Good(r) == r \in ReadSoFar /\ Len(r.nodes) >= 1 /\ r.nodes[1] = nodes[1]
           T == {i \in 0..m : i >= 1 => Good(read[i])}
<1>8. ASSUME NEW r \in ReadSoFar, Good(r), NEW n \in Nodes
      PROVE  /\ Good(ReadNode(r, n)) /\ Len(ReadNode(r, n).nodes) >= 2
             /\ ReadNode(r, n).nodes[Len(ReadNode(r, n).nodes)] = n
  <2> DEFINE stamps == StampsBefore(r, n)
             s == r.nodes
  <2>1. ReadNode(r, n).nodes = Append(s \o stamps, n)
    BY DEF ReadNode
  <2>2. stamps \in Seq(Nodes) /\ ReadNode(r, n) \in ReadSoFar
    BY ReadNodeFacts
  <2>3. s \in Seq(Nodes) /\ Len(s) >= 1 /\ s[1] = nodes[1]
    BY <1>8 DEF ReadSoFar
  <2> HIDE DEF stamps, s
  <2> DEFINE t == Append(s \o stamps, n)
  <2>4. Len(t) >= 2 /\ t[1] = nodes[1] /\ t[Len(t)] = n
    BY <2>2, <2>3
  <2> HIDE DEF t
  <2> QED BY <2>1, <2>2, <2>4 DEF t
<1>9. ASSUME NEW i \in 0..m, \A k \in 0..i - 1 : k \in T
      PROVE  i \in T
  <2>1. CASE i = 0
    BY <2>1
  <2>2. CASE i = 1
    <3>1. read[i] = ReadNode(b, nodes[1])
      <4>1. read[i] = ReadNode(read[i - 1], nodes[i])
        BY <1>5, <2>2
      <4>2. read[0] = b
        BY <1>1, <1>5
      <4>3. i - 1 = 0
        BY <2>2
      <4> QED BY <2>2, <4>1, <4>2, <4>3
    <3>2. nodes[1] \in Nodes /\ nodes[1].type \in Initials
      BY <1>1 DEF Proper
    <3>3. StampsBefore(b, nodes[1]) = <<>> /\ ReadNode(b, nodes[1]) \in ReadSoFar
      BY <1>2, <3>2, ReadNodeFacts
    <3>4. ReadNode(b, nodes[1]).nodes = Append(<<>> \o <<>>, nodes[1])
      BY <3>3 DEF ReadNode, b
    <3>5. Append(<<>> \o <<>>, nodes[1]) = <<nodes[1]>>
      OBVIOUS
    <3>6. Good(ReadNode(b, nodes[1]))
      BY <3>3, <3>4, <3>5
    <3> QED BY <3>1, <3>6
  <2>3. CASE i > 1
    <3>1. i - 1 \in 0..i - 1 /\ i - 1 >= 1
      BY <2>3
    <3>2. Good(read[i - 1])
      BY <1>9, <3>1
    <3>3. read[i] = ReadNode(read[i - 1], nodes[i]) /\ nodes[i] \in Nodes
      BY <1>1, <1>5, <2>3
    <3> QED BY <1>8, <3>2, <3>3
  <2> QED BY <2>1, <2>2, <2>3
<1>10. \A i \in 0..m : i \in T
  <2> HIDE DEF T
  <2> QED BY <1>1, <1>9, UpTo
<1>11. Good(read[last - 1])
  <2>1. last - 1 \in 0..m /\ last - 1 >= 1
    BY <1>1, <1>6, <1>7
  <2> QED BY <1>10, <2>1
<1>12. read[last] = ReadNode(read[last - 1], nodes[last]) /\ nodes[last] \in Nodes
  <2>1. last \in 0..m /\ last # 0
    BY <1>6
  <2> QED BY <1>1, <1>5, <1>6, <2>1
<1> DEFINE r == read[last]
<1>13. /\ r \in ReadSoFar /\ Len(r.nodes) >= 2 /\ r.nodes[1] = nodes[1]
       /\ r.nodes[Len(r.nodes)] = nodes[last]
  BY <1>8, <1>11, <1>12
<1>14. nodes[last].type = "end" /\ nodes[1].type \in Initials
  BY <1>6 DEF Proper
<1> HIDE DEF r
<1>15. Proper(r.nodes) /\ r.stamp \in Nat
  BY <1>13, <1>14 DEF Proper, ReadSoFar
<1> QED BY <1>3, <1>15 DEF r

-----------------------------------------------------------------------------
(* Appending a node.                                                       *)
LEMMA AppendFacts ==
  ASSUME NEW s \in Seq(Nodes), NEW n \in Nodes
  PROVE  /\ Append(s, n) \in Seq(Nodes) /\ Len(Append(s, n)) = Len(s) + 1
         /\ \A i \in 1..Len(s) : Append(s, n)[i] = s[i]
         /\ Append(s, n)[Len(s) + 1] = n
OBVIOUS

(* An event takes the place of the current node, and an end follows.       *)
LEMMA RecordFacts ==
  ASSUME NEW l, Entered(l),
         NEW type \in {"overflow", "key", "reset", "end"}, NEW clk \in Clock
  PROVE  Entered(event_record_in_list(l, type, clk))
<1> DEFINE n == Node(type, clk)
           s == l.nodes
           c == l.current
           t == Append([s EXCEPT ![c] = n], ListEnd)
           r == event_record_in_list(l, type, clk)
<1>1. n \in Nodes /\ ListEnd \in Nodes /\ ListEnd.type = "end"
  BY Numbers DEF Nodes, Node, ListEnd, Clock
<1>2. s \in Seq(Nodes) /\ Len(s) >= 2 /\ s[1].type \in Initials /\ c \in 1..Len(s) /\ c >= 2
  BY DEF Entered, IsList, Proper
<1>3. r = [l EXCEPT !.nodes = t, !.current = c + 1]
  BY DEF event_record_in_list
<1>4. l = [nodes |-> l.nodes, current |-> l.current, from |-> l.from, told |-> l.told,
           whole |-> l.whole]
  BY DEF Entered, IsList
<1>5. /\ r.nodes = t /\ r.current = c + 1
      /\ r = [nodes |-> r.nodes, current |-> r.current, from |-> r.from, told |-> r.told,
              whole |-> r.whole]
  BY <1>3, <1>4
<1> HIDE DEF n, s, c, r
<1>6. t \in Seq(Nodes) /\ Len(t) = Len(s) + 1 /\ t[1] = s[1] /\ t[Len(t)] = ListEnd
  BY <1>1, <1>2
<1> HIDE DEF t
<1>7. Proper(t) /\ c + 1 \in 1..Len(t) /\ c + 1 >= 2
  BY <1>1, <1>2, <1>6 DEF Proper
<1> QED BY <1>5, <1>7 DEF Entered, IsList, r

(* The list of a new recording.                                            *)
LEMMA CreateFacts ==
  ASSUME NEW from, NEW type \in Initials, NEW clk \in Clock
  PROVE  Entered(event_record_in_list(create_list(from), type, clk))
<1> DEFINE n == Node(type, clk)
           l == create_list(from)
           r == event_record_in_list(l, type, clk)
<1>1. n \in Nodes /\ n.type = type /\ ListEnd \in Nodes /\ ListEnd.type = "end"
  BY Numbers DEF Nodes, Node, ListEnd, Clock
<1>2. l.nodes = <<ListEnd>> /\ l.current = 1
  BY DEF create_list
<1> DEFINE t == Append([<<ListEnd>> EXCEPT ![1] = n], ListEnd)
<1>3. r.nodes = t /\ r.current = 2
      /\ r = [nodes |-> r.nodes, current |-> r.current, from |-> r.from, told |-> r.told,
              whole |-> r.whole]
  <2>1. r = [l EXCEPT !.nodes = Append([@ EXCEPT ![l.current] = n], ListEnd),
                      !.current = @ + 1]
    BY DEF event_record_in_list
  <2>2. l = [nodes |-> <<ListEnd>>, current |-> 1, from |-> from, told |-> None,
             whole |-> TRUE]
    BY DEF create_list
  <2>3. r = [l EXCEPT !.nodes = t, !.current = l.current + 1]
    BY <2>1, <2>2
  <2> DEFINE base == <<ListEnd>>
             next == l.current + 1
  <2>4. l = [nodes |-> base, current |-> 1, from |-> from, told |-> None, whole |-> TRUE]
    BY <2>2
  <2>5. next = 2
    BY <2>2
  <2> HIDE DEF l, t, r, base, next
  <2>6. r = [l EXCEPT !.nodes = t, !.current = next]
    BY <2>3 DEF next
  <2>7. r = [nodes |-> t, current |-> 2, from |-> from, told |-> None, whole |-> TRUE]
    BY <2>4, <2>5, <2>6
  <2> QED BY <2>7
<1> HIDE DEF n, l, r
<1>4. t \in Seq(Nodes) /\ Len(t) = 2 /\ t[1] = n /\ t[2] = ListEnd
  <2> DEFINE x == <<ListEnd>>
             y == [x EXCEPT ![1] = n]
  <2>1. x \in Seq(Nodes) /\ Len(x) = 1
    BY <1>1
  <2> HIDE DEF x
  <2>2. y \in Seq(Nodes) /\ Len(y) = 1 /\ y[1] = n
    BY <1>1, <2>1
  <2> HIDE DEF y
  <2> DEFINE z == Append(y, ListEnd)
  <2>3. z \in Seq(Nodes) /\ Len(z) = Len(y) + 1 /\ z[1] = y[1] /\ z[Len(y) + 1] = ListEnd
    <3>1. 1 \in 1..Len(y)
      BY <2>2
    <3> QED BY <1>1, <2>2, <3>1, AppendFacts
  <2> HIDE DEF z
  <2>4. z \in Seq(Nodes) /\ Len(z) = 2 /\ z[1] = n /\ z[2] = ListEnd
    BY <2>2, <2>3
  <2> QED BY <2>4 DEF x, y, z
<1> HIDE DEF t
<1>5. Proper(t) /\ Len(t) = 2
  BY <1>1, <1>4 DEF Proper
<1> QED BY <1>3, <1>5 DEF Entered, IsList, r, l

(* What is not an end has a successor.                                     *)
LEMMA NextFacts ==
  ASSUME NEW l, IsList(l), Current(l).type # "end"
  PROVE  Entered(next_current_list(l))
<1> DEFINE r == next_current_list(l)
           c == l.current
<1>1. r.nodes = l.nodes /\ r.current = c + 1
      /\ r = [nodes |-> r.nodes, current |-> r.current, from |-> r.from, told |-> r.told,
              whole |-> r.whole]
  BY DEF next_current_list, IsList
<1>2. Len(l.nodes) \in Nat /\ c \in 1..Len(l.nodes) /\ c # Len(l.nodes)
  BY DEF IsList, Proper, Current
<1>3. c + 1 \in 1..Len(l.nodes) /\ c + 1 >= 2
  BY <1>2
<1> HIDE DEF r, c
<1> QED BY <1>1, <1>3 DEF Entered, IsList, r

(* An initial event is not an end.                                         *)
LEMMA InitialNext ==
  ASSUME NEW l, IsList(l), l.current = 1
  PROVE  Entered(next_current_list(l))
BY NextFacts DEF IsList, Proper, Initials, Current

(* The alarm of an event is set to a clock.                                *)
LEMMA AlarmFacts ==
  ASSUME NEW l, IsList(l), NEW clk \in Clock
  PROVE  next_alarm_set(l, clk) \in Clock
<1> DEFINE c == Current(l).clk
<1>1. c \in Clock
  <2>1. Current(l) \in Nodes
    BY DEF IsList, Proper, Current
  <2> QED BY <2>1 DEF Nodes
<1>2. c + Sub \in Int
  BY <1>1, Numbers DEF Clock
<1> HIDE DEF c
<1>3. (c + Sub) % Mod \in Clock
  BY <1>2, ModClock
<1> QED BY <1>1, <1>3 DEF next_alarm_set, c

(* Reading a file gives a list, at its initial event.                      *)
LEMMA ReadFacts ==
  ASSUME NEW file, IsFile(file)
  PROVE  LET l == event_snapshot_read_module(file)
         IN  IsList(l) /\ l.current = 1 /\ Reading(file.list.nodes).stamp \in Nat
<1> DEFINE l == event_snapshot_read_module(file)
           t == Reading(file.list.nodes).nodes
<1>1. Proper(t) /\ Reading(file.list.nodes).stamp \in Nat
  BY ReadingProper DEF IsFile, IsList
<1>2. l.nodes = t /\ l.current = 1
      /\ l = [nodes |-> l.nodes, current |-> l.current, from |-> l.from, told |-> l.told,
              whole |-> l.whole]
  <2> DEFINE f == file.list
  <2>1. f = [nodes |-> f.nodes, current |-> f.current, from |-> f.from, told |-> f.told,
             whole |-> f.whole]
    BY DEF IsFile, IsList
  <2>2. l = [f EXCEPT !.nodes = t, !.current = 1]
    BY DEF event_snapshot_read_module
  <2> HIDE DEF t, l, f
  <2>3. l = [nodes |-> t, current |-> 1, from |-> f.from, told |-> f.told, whole |-> f.whole]
    BY <2>1, <2>2
  <2> QED BY <2>3
<1> HIDE DEF l, t
<1>3. 1 \in 1..Len(t)
  BY <1>1 DEF Proper
<1> QED BY <1>1, <1>2, <1>3 DEF IsList, l

(* A recording goes on at the end of the list that was read.               *)
LEMMA WarpFacts ==
  ASSUME NEW file, IsFile(file)
  PROVE  Entered(warp_end_list(file))
<1> DEFINE l == event_snapshot_read_module(file)
           s == l.nodes
           t == [s EXCEPT ![Len(s)] = ListEnd]
           r == warp_end_list(file)
<1>1. IsList(l)
  BY ReadFacts
<1>2. r.nodes = t /\ r.current = Len(t)
      /\ r = [nodes |-> r.nodes, current |-> r.current, from |-> r.from, told |-> r.told,
              whole |-> r.whole]
  <2>1. l = [nodes |-> l.nodes, current |-> l.current, from |-> l.from, told |-> l.told,
             whole |-> l.whole] /\ s \in Seq(Nodes)
    BY <1>1 DEF IsList, Proper
  <2>2. Len(t) = Len(s)
    <3> HIDE DEF s
    <3> QED BY <2>1
  <2> DEFINE told == file.list.told
             w == l.whole /\ told \in {None, Telling(file.machine)}
  <2>3. r = [nodes |-> t, current |-> Len(s), from |-> l.from, told |-> None, whole |-> w]
    <3> HIDE DEF w, l
    <3>1. r = [l EXCEPT !.nodes[Len(l.nodes)] = ListEnd, !.current = Len(l.nodes),
                        !.told = None, !.whole = w]
      BY DEF warp_end_list, w, l
    <3> QED BY <2>1, <3>1
  <2> QED BY <2>2, <2>3
<1>3. s \in Seq(Nodes) /\ Len(s) >= 2 /\ s[1].type \in Initials
  BY <1>1 DEF IsList, Proper
<1>4. ListEnd \in Nodes /\ ListEnd.type = "end"
  BY Numbers DEF Nodes, Node, ListEnd, Clock
<1> HIDE DEF s, r
<1>5. t \in Seq(Nodes) /\ Len(t) >= 2 /\ t[1] = s[1] /\ t[Len(t)] = ListEnd
  BY <1>3, <1>4
<1> HIDE DEF t
<1>6. Proper(t) /\ Len(t) \in 1..Len(t) /\ Len(t) >= 2
  BY <1>3, <1>4, <1>5 DEF Proper
<1> QED BY <1>2, <1>6 DEF Entered, IsList, r

(* Cutting the list behind the current event keeps the initial one.        *)
LEMMA CutFacts ==
  ASSUME NEW l, Entered(l)
  PROVE  Entered(CutList(l))
<1> DEFINE s == l.nodes
           c == l.current
           n == Node("end", Current(l).clk)
           t == Append(SubSeq(s, 1, c - 1), n)
           r == CutList(l)
<1>1. s \in Seq(Nodes) /\ c \in 1..Len(s) /\ c >= 2 /\ s[1].type \in Initials
  BY DEF Entered, IsList, Proper
<1>2. n \in Nodes /\ n.type = "end"
  <2>1. Current(l) \in Nodes
    BY <1>1 DEF Current
  <2>2. Current(l).clk \in Clock
    BY <2>1 DEF Nodes
  <2> QED BY <2>2 DEF Node, Nodes
<1>3. r.nodes = t /\ r.current = c
      /\ r = [nodes |-> r.nodes, current |-> r.current, from |-> r.from, told |-> r.told,
              whole |-> r.whole]
  <2>1. l = [nodes |-> l.nodes, current |-> l.current, from |-> l.from, told |-> l.told,
             whole |-> l.whole]
    BY DEF Entered, IsList
  <2>2. r = [l EXCEPT !.nodes = t, !.told = None]
    BY DEF CutList
  <2> HIDE DEF t, r
  <2>3. r = [nodes |-> t, current |-> l.current, from |-> l.from, told |-> None,
             whole |-> l.whole]
    BY <2>1, <2>2
  <2> QED BY <2>3
<1> HIDE DEF s, c, n, r
<1> DEFINE u == SubSeq(s, 1, c - 1)
<1>4. u \in Seq(Nodes) /\ Len(u) = c - 1 /\ u[1] = s[1]
  BY <1>1
<1> HIDE DEF u
<1>5. t = Append(u, n)
  BY DEF u
<1>6. t \in Seq(Nodes) /\ Len(t) = c /\ t[1] = s[1] /\ t[Len(t)] = n
  BY <1>1, <1>2, <1>4, <1>5
<1> HIDE DEF t
<1>7. Proper(t) /\ c \in 1..Len(t)
  BY <1>1, <1>2, <1>6 DEF Proper
<1> QED BY <1>1, <1>3, <1>7 DEF Entered, IsList, r

(* What the end snapshot holds can be read.                                *)
LEMMA FilesFacts ==
  ASSUME NEW l, IsList(l), AtFrame(machine)
  PROVE  IsFile(Files(l))
<1> DEFINE t == event_snapshot_write_module(l)
           r == [l EXCEPT !.nodes = t, !.current = 1]
<1>1. Proper(t)
  BY WrittenProper DEF IsList
<1> HIDE DEF t
<1>2. r.nodes = t /\ r.current = 1
      /\ r = [nodes |-> r.nodes, current |-> r.current, from |-> r.from, told |-> r.told,
              whole |-> r.whole]
  <2>1. l = [nodes |-> l.nodes, current |-> l.current, from |-> l.from, told |-> l.told,
             whole |-> l.whole]
    BY DEF IsList
  <2>2. r = [l EXCEPT !.nodes = t, !.current = 1]
    OBVIOUS
  <2> HIDE DEF r
  <2>3. r = [nodes |-> t, current |-> 1, from |-> l.from, told |-> l.told, whole |-> l.whole]
    BY <2>1, <2>2
  <2> QED BY <2>3
<1> HIDE DEF r
<1>3. 1 \in 1..Len(t)
  BY <1>1 DEF Proper
<1>4. IsList(r)
  BY <1>1, <1>2, <1>3 DEF IsList
<1>5. Files(l) = [machine |-> machine, list |-> r]
  BY DEF Files, r, t
<1> QED BY <1>4, <1>5 DEF IsFile

-----------------------------------------------------------------------------
(* The inductive invariant.  The clocks are in their range, and so are     *)
(* those of the machines in the two snapshots.                             *)
Clocks ==
  /\ IsMachine(machine)
  /\ {latch, alarm} \subseteq Clock \cup {None}
  /\ next_timestamp_clk \in Clock /\ milestone_timestamp_alarm \in Clock

Snapshots ==
  /\ start # None => AtFrame(start)
  /\ end # None => IsFile(end)

(* There is a list when it is needed: by the alarm, and by a recording or  *)
(* a playback that has begun, which is behind the initial event.           *)
Lists ==
  /\ event_list # None => IsList(event_list)
  /\ alarm # None => IsList(event_list)
  /\ record_active \/ playback_active => Entered(event_list)

(* A request that was granted is still justified when its trap comes, and  *)
(* it comes at the end of a frame or the start of one.                     *)
Traps ==
  /\ trap # None => machine.raster <= machine.clk \/ AtFrame(machine)
  /\ trap = "record_start" => /\ ~record_active
                              /\ event_start_mode = "overwrite" => Entered(event_list)
  /\ trap \in {"record_stop", "set_milestone", "reset_milestone"} => record_active
  /\ trap = "playback_start" => ~playback_active /\ ~record_active

HistoryInv == Clocks /\ Snapshots /\ Lists /\ Traps

-----------------------------------------------------------------------------
(* No trap is not a trap.                                                  *)
LEMMA TrapNames ==
  None \notin {"record_start", "record_stop", "set_milestone", "reset_milestone",
               "playback_start"}
BY NoneAssumption

(* A machine without its inputs.                                           *)
LEMMA GivenFacts ==
  ASSUME NEW m, IsMachine(m), NEW what
  PROVE  /\ IsMachine(Given(m, what))
         /\ Given(m, what).clk = m.clk /\ Given(m, what).raster = m.raster
<1> DEFINE r == Given(m, what)
<1>1. r = [m EXCEPT !.inputs = Append(@, [age |-> m.age, what |-> what])]
  BY DEF Given
<1> HIDE DEF r
<1>2. /\ r.clk = m.clk /\ r.raster = m.raster
      /\ r = [clk |-> r.clk, raster |-> r.raster, age |-> r.age, inputs |-> r.inputs]
  BY <1>1 DEF IsMachine
<1> QED BY <1>2 DEF IsMachine, r

(* A machine that is switched on, or whose frame begins.                   *)
LEMMA PowerUpFacts ==
  ASSUME NEW clk \in Nat, clk + Frame < Mod
  PROVE  AtFrame(PowerUp(clk))
<1> DEFINE r == PowerUp(clk)
<1>1. r = [clk |-> clk, raster |-> clk + Frame, age |-> 0, inputs |-> <<>>]
  BY DEF PowerUp
<1> HIDE DEF r
<1>2. /\ r.clk = clk /\ r.raster = clk + Frame
      /\ r = [clk |-> r.clk, raster |-> r.raster, age |-> r.age, inputs |-> r.inputs]
  BY <1>1
<1>3. clk \in Clock /\ clk + Frame \in Clock
  BY Numbers DEF Clock
<1> QED BY <1>2, <1>3 DEF AtFrame, IsMachine, r

(* The same of a machine whose clock and frame are set.                    *)
LEMMA FrameFacts ==
  ASSUME NEW m, IsMachine(m), NEW clk \in Nat, clk + Frame < Mod
  PROVE  AtFrame([m EXCEPT !.clk = clk, !.raster = clk + Frame])
<1> DEFINE c == clk + Frame
           r == [m EXCEPT !.clk = clk, !.raster = c]
<1>1. clk \in Clock /\ c \in Clock
  BY Numbers DEF Clock
<1>2. r = [m EXCEPT !.clk = clk, !.raster = c]
  OBVIOUS
<1> HIDE DEF r, c
<1>3. /\ r.clk = clk /\ r.raster = c
      /\ r = [clk |-> r.clk, raster |-> r.raster, age |-> r.age, inputs |-> r.inputs]
  BY <1>2 DEF IsMachine
<1> QED BY <1>1, <1>3 DEF AtFrame, IsMachine, r, c

(* At a trap the machine is at the start of a frame.                       *)
LEMMA TrapAtFrame ==
  ASSUME Clocks, Traps, trap # None, AlarmsDone
  PROVE  AtFrame(machine)
<1>1. machine.raster \in Clock
  BY DEF Clocks, IsMachine
<1>2. machine.raster # None
  BY <1>1, NoneAssumption DEF Clock
<1>3. ~(machine.raster <= machine.clk)
  BY <1>2 DEF AlarmsDone, IsDue
<1> QED BY <1>3 DEF Traps

-----------------------------------------------------------------------------
(* The invariant holds initially.                                          *)
LEMMA InitHolds == Init => HistoryInv
<1> SUFFICES ASSUME Init
             PROVE  HistoryInv
  OBVIOUS
<1>1. AtFrame(machine)
  BY PowerUpFacts, Numbers DEF Init
<1>2. 0 \in Clock
  BY Numbers DEF Clock
<1>3. Clocks
  BY <1>1, <1>2 DEF Init, Clocks, AtFrame
<1>4. Snapshots /\ Lists
  BY DEF Init, Snapshots, Lists
<1>5. Traps
  BY TrapNames DEF Init, Traps
<1> QED BY <1>3, <1>4, <1>5 DEF HistoryInv

(* A cycle passes: the end of the frame is still ahead.                    *)
LEMMA TickHolds ==
  ASSUME HistoryInv, Tick
  PROVE  HistoryInv'
<1>1. machine.raster # None
  BY NoneAssumption DEF HistoryInv, Clocks, IsMachine, Clock
<1>2. machine.clk \in Nat /\ machine.raster \in Nat /\ machine.raster < Mod /\ Mod \in Nat
  BY Numbers DEF HistoryInv, Clocks, IsMachine, Clock
<1>3. machine.clk < machine.raster
  BY <1>1, <1>2 DEF Tick, AlarmsDone, IsDue
<1> DEFINE c == machine.clk + 1
           a == machine.age + 1
<1>4. c \in Clock
  BY <1>2, <1>3 DEF Clock
<1>5. machine' = [machine EXCEPT !.clk = c, !.age = a]
  BY DEF Tick
<1>6. IsMachine(machine')
  <2> DEFINE m == machine
  <2>1. IsMachine(m)
    BY DEF HistoryInv, Clocks
  <2>2. machine' = [m EXCEPT !.clk = c, !.age = a]
    BY <1>5
  <2> HIDE DEF c, a, m
  <2>3. machine' = [clk |-> c, raster |-> m.raster, age |-> a, inputs |-> m.inputs]
    BY <2>1, <2>2 DEF IsMachine
  <2> QED BY <1>4, <2>1, <2>3 DEF IsMachine
<1> QED BY <1>6 DEF HistoryInv, Clocks, Snapshots, Lists, Traps, Tick, recorder

(* A clock that is set back is still one, and no clock stays none.         *)
LEMMA SetBackFacts ==
  ASSUME NEW c \in Clock \cup {None}
  PROVE  SetBack(c) \in Clock \cup {None} /\ (SetBack(c) # None => c # None)
<1>1. CASE c = None
  BY <1>1 DEF SetBack
<1>2. CASE c # None
  <2>1. c - Sub \in Int
    BY <1>2, Numbers DEF Clock
  <2>2. (c - Sub) % Mod \in Clock
    BY <2>1, ModClock
  <2> QED BY <1>2, <2>2 DEF SetBack
<1> QED BY <1>1, <1>2

(* The end of a frame: the next one ends before the clock overflows.       *)
LEMMA VsyncHolds ==
  ASSUME HistoryInv, Vsync
  PROVE  HistoryInv'
<1> DEFINE over == machine.clk >= MaxClk
           clk == IF over THEN machine.clk - Sub ELSE machine.clk
<1>1. machine.clk \in Nat /\ machine.clk < Mod /\ IsMachine(machine)
  BY Numbers DEF HistoryInv, Clocks, IsMachine, Clock
<1>2. clk \in Nat /\ clk + Frame < Mod /\ clk \in Clock
  BY <1>1, Numbers DEF Clock
<1>3. machine' = [machine EXCEPT !.clk = clk, !.raster = clk + Frame]
  BY DEF Vsync
<1>4. over => /\ latch' = SetBack(latch) /\ alarm' = SetBack(alarm)
              /\ event_list' = IF record_active
                               THEN event_record_in_list(event_list, "overflow", clk)
                               ELSE event_list
              /\ next_timestamp_clk' = IF next_timestamp_clk = 0 THEN 0
                                       ELSE (next_timestamp_clk - Sub) % Mod
  BY DEF Vsync
<1>5. ~over => UNCHANGED <<latch, alarm, event_list, next_timestamp_clk>>
  BY DEF Vsync
<1>6. UNCHANGED <<record_active, playback_active, milestone_timestamp_alarm, event_start_mode,
                  trap, start, end>>
  BY DEF Vsync
<1> HIDE DEF clk
<1>7. AtFrame(machine')
  BY <1>1, <1>2, <1>3, FrameFacts
<1> HIDE DEF over
<1>8. latch \in Clock \cup {None} /\ alarm \in Clock \cup {None} /\ next_timestamp_clk \in Clock
  BY DEF HistoryInv, Clocks
<1>9. /\ latch' \in Clock \cup {None} /\ alarm' \in Clock \cup {None}
      /\ alarm' # None => alarm # None
  BY <1>4, <1>5, <1>8, SetBackFacts
<1>10. next_timestamp_clk' \in Clock
  <2>1. next_timestamp_clk - Sub \in Int
    BY <1>8, Numbers DEF Clock
  <2>2. (next_timestamp_clk - Sub) % Mod \in Clock /\ 0 \in Clock
    BY <2>1, ModClock, Numbers DEF Clock
  <2> QED BY <1>4, <1>5, <1>8, <2>2
<1>11. /\ event_list' # event_list => Entered(event_list')
       /\ Entered(event_list) => Entered(event_list')
  <2>1. record_active => Entered(event_record_in_list(event_list, "overflow", clk))
    BY <1>2, RecordFacts DEF HistoryInv, Lists
  <2> QED BY <1>4, <1>5, <2>1
<1>12. Clocks'
  BY <1>6, <1>7, <1>9, <1>10 DEF HistoryInv, Clocks, AtFrame
<1>13. Snapshots'
  BY <1>6 DEF HistoryInv, Snapshots
<1>14. Lists'
  BY <1>6, <1>9, <1>11 DEF HistoryInv, Lists, Entered
<1>15. Traps'
  BY <1>6, <1>7, <1>11 DEF HistoryInv, Traps
<1> QED BY <1>12, <1>13, <1>14, <1>15 DEF HistoryInv

(* A list that is recorded into is still one, and so is one that is not.   *)
LEMMA EventRecordFacts ==
  ASSUME Lists, NEW type \in {"key", "reset"}, NEW clk \in Clock, next_timestamp_clk \in Clock,
         event_record(type, clk)
  PROVE  /\ event_list' # event_list => Entered(event_list')
         /\ Entered(event_list) => Entered(event_list')
         /\ next_timestamp_clk' \in Clock
<1>1. record_active => Entered(event_record_in_list(event_list, type, clk))
  BY RecordFacts DEF Lists
<1>2. next_timestamp_clk - clk \in Int
  BY Numbers DEF Clock
<1>3. (next_timestamp_clk - clk) % Mod \in Clock
  BY <1>2, ModClock
<1> QED BY <1>1, <1>3 DEF event_record

(* A key reaches the machine.                                              *)
LEMMA LatchHolds ==
  ASSUME HistoryInv, keyboard_latch_handler
  PROVE  HistoryInv'
<1>1. IsMachine(machine) /\ machine.clk \in Clock
  BY DEF HistoryInv, Clocks, IsMachine
<1>2. /\ latch' = None /\ machine' = Given(machine, "key") /\ event_record("key", machine.clk)
      /\ UNCHANGED <<alarm, record_active, playback_active, milestone_timestamp_alarm,
                     event_start_mode, trap, start, end>>
  BY DEF keyboard_latch_handler
<1>3. IsMachine(machine') /\ machine'.clk = machine.clk /\ machine'.raster = machine.raster
  BY <1>1, <1>2, GivenFacts
<1>4. /\ event_list' # event_list => Entered(event_list')
      /\ Entered(event_list) => Entered(event_list')
      /\ next_timestamp_clk' \in Clock
  BY <1>1, <1>2, EventRecordFacts DEF HistoryInv, Clocks
<1>5. Clocks'
  BY <1>2, <1>3, <1>4 DEF HistoryInv, Clocks
<1>6. Snapshots'
  BY <1>2 DEF HistoryInv, Snapshots
<1>7. Lists'
  BY <1>2, <1>4 DEF HistoryInv, Lists, Entered
<1>8. Traps'
  BY <1>2, <1>3, <1>4 DEF HistoryInv, Traps, AtFrame
<1> QED BY <1>5, <1>6, <1>7, <1>8 DEF HistoryInv

(* The user resets the machine.                                            *)
LEMMA TriggerResetHolds ==
  ASSUME HistoryInv, machine_trigger_reset
  PROVE  HistoryInv'
<1>1. IsMachine(machine) /\ machine.clk \in Clock
  BY DEF HistoryInv, Clocks, IsMachine
<1>2. /\ machine' = Given(machine, "reset") /\ event_record("reset", machine.clk)
      /\ UNCHANGED <<latch, alarm, record_active, playback_active, milestone_timestamp_alarm,
                     event_start_mode, trap, start, end>>
  BY DEF machine_trigger_reset
<1>3. IsMachine(machine') /\ machine'.clk = machine.clk /\ machine'.raster = machine.raster
  BY <1>1, <1>2, GivenFacts
<1>4. /\ event_list' # event_list => Entered(event_list')
      /\ Entered(event_list) => Entered(event_list')
      /\ next_timestamp_clk' \in Clock
  BY <1>1, <1>2, EventRecordFacts DEF HistoryInv, Clocks
<1>5. Clocks'
  BY <1>2, <1>3, <1>4 DEF HistoryInv, Clocks
<1>6. Snapshots'
  BY <1>2 DEF HistoryInv, Snapshots
<1>7. Lists'
  BY <1>2, <1>4 DEF HistoryInv, Lists, Entered
<1>8. Traps'
  BY <1>2, <1>3, <1>4 DEF HistoryInv, Traps, AtFrame
<1> QED BY <1>5, <1>6, <1>7, <1>8 DEF HistoryInv

(* The event alarm finds its event, and if that is not an end another one  *)
(* behind it.                                                              *)
LEMMA AlarmHolds ==
  ASSUME HistoryInv, event_alarm_handler
  PROVE  HistoryInv'
<1>1. IsMachine(machine) /\ machine.clk \in Clock /\ next_timestamp_clk \in Clock
  BY DEF HistoryInv, Clocks, IsMachine
<1>2. alarm # None /\ IsList(event_list)
  BY DEF event_alarm_handler, IsDue, HistoryInv, Lists
<1>3. UNCHANGED <<latch, record_active, milestone_timestamp_alarm, event_start_mode, trap,
                  start, end>>
  BY DEF event_alarm_handler
<1>4. CASE RecordStamp
  <2>1. (next_timestamp_clk + Second) % Mod \in Clock
    <3>1. next_timestamp_clk + Second \in Int
      BY <1>1, Numbers DEF Clock
    <3> QED BY <3>1, ModClock
  <2>2. Clocks'
    BY <1>3, <1>4, <2>1 DEF RecordStamp, HistoryInv, Clocks
  <2>3. Snapshots' /\ Traps'
    BY <1>3, <1>4 DEF RecordStamp, HistoryInv, Snapshots, Traps
  <2>4. Lists'
    BY <1>2, <1>3, <1>4 DEF RecordStamp, HistoryInv, Lists
  <2> QED BY <2>2, <2>3, <2>4 DEF HistoryInv
<1>5. CASE PlayEvent
  <2> DEFINE type == Current(event_list).type
             l == next_current_list(event_list)
  <2>1. /\ ~record_active
        /\ machine' = IF type \in {"key", "reset"} THEN Given(machine, type) ELSE machine
        /\ playback_active' = (playback_active /\ type # "end")
        /\ IF type \in {"end", "reset"} THEN alarm' = None /\ UNCHANGED event_list
           ELSE event_list' = l /\ alarm' = next_alarm_set(l, machine.clk)
        /\ UNCHANGED next_timestamp_clk
    BY <1>5 DEF PlayEvent
  <2>2. type # "end" => Entered(l)
    BY <1>2, NextFacts
  <2>3. Entered(l) => next_alarm_set(l, machine.clk) \in Clock
    BY <1>1, AlarmFacts DEF Entered
  <2>4. /\ IsMachine(machine') /\ machine'.clk = machine.clk
        /\ machine'.raster = machine.raster
    BY <1>1, <2>1, GivenFacts
  <2> HIDE DEF type, l
  <2>5. Clocks'
    <3>1. alarm' \in Clock \cup {None}
      BY <2>1, <2>2, <2>3
    <3> QED BY <1>3, <2>1, <2>4, <3>1 DEF HistoryInv, Clocks
  <2>6. Snapshots'
    BY <1>3 DEF HistoryInv, Snapshots
  <2>7. IsList(event_list') /\ (Entered(event_list) => Entered(event_list'))
    BY <1>2, <2>1, <2>2 DEF Entered
  <2>8. Lists'
    BY <1>3, <2>1, <2>7 DEF HistoryInv, Lists
  <2>9. Traps'
    BY <1>3, <2>1, <2>4, <2>7 DEF HistoryInv, Traps, AtFrame
  <2> QED BY <2>5, <2>6, <2>8, <2>9 DEF HistoryInv
<1> QED BY <1>4, <1>5 DEF event_alarm_handler

(* The CPU is reset: the event of a reset is not the last one.             *)
LEMMA CpuResetHolds ==
  ASSUME HistoryInv, CpuReset
  PROVE  HistoryInv'
<1> DEFINE again == event_list # None /\ Current(event_list).type = "reset"
           l == IF again THEN next_current_list(event_list) ELSE event_list
<1>1. /\ machine' = [machine EXCEPT !.clk = ResetClk, !.raster = ResetClk + Frame]
      /\ UNCHANGED <<latch, record_active, playback_active, next_timestamp_clk,
                     milestone_timestamp_alarm, event_start_mode, trap, start, end>>
  BY DEF CpuReset
<1>2. ResetClk \in Nat /\ ResetClk + Frame < Mod /\ ResetClk \in Clock
  BY Numbers DEF Clock
<1>3. AtFrame(machine')
  <2>1. IsMachine(machine)
    BY DEF HistoryInv, Clocks
  <2> QED BY <1>1, <1>2, <2>1, FrameFacts
<1>4. alarm \in Clock \cup {None} /\ next_timestamp_clk \in Clock
  BY DEF HistoryInv, Clocks
<1>5. event_list # None => /\ event_list' = l
                           /\ alarm' \in {next_timestamp_clk, next_alarm_set(l, ResetClk), alarm}
  BY DEF CpuReset, event_reset_ack
<1>6. event_list = None => UNCHANGED <<alarm, event_list>>
  BY DEF CpuReset, event_reset_ack
<1>7. event_list # None => IsList(l) /\ (Entered(event_list) => Entered(l))
  <2> SUFFICES ASSUME event_list # None
               PROVE  IsList(l) /\ (Entered(event_list) => Entered(l))
    OBVIOUS
  <2>1. IsList(event_list)
    BY DEF HistoryInv, Lists
  <2>2. again => Entered(next_current_list(event_list))
    BY <2>1, NextFacts
  <2> QED BY <2>1, <2>2 DEF Entered
<1> HIDE DEF l, again
<1>8. event_list # None => next_alarm_set(l, ResetClk) \in Clock
  BY <1>2, <1>7, AlarmFacts
<1>9. Clocks'
  <2>1. alarm' \in Clock \cup {None}
    BY <1>4, <1>5, <1>6, <1>8
  <2> QED BY <1>1, <1>3, <2>1 DEF HistoryInv, Clocks, AtFrame
<1>10. Snapshots'
  BY <1>1 DEF HistoryInv, Snapshots
<1>11. Lists'
  <2>1. CASE event_list = None
    BY <1>1, <1>6, <2>1 DEF HistoryInv, Lists
  <2>2. CASE event_list # None
    BY <1>1, <1>5, <1>7, <2>2 DEF HistoryInv, Lists
  <2> QED BY <2>1, <2>2
<1>12. Traps'
  BY <1>1, <1>3, TrapNames DEF CpuReset, HistoryInv, Traps
<1> QED BY <1>9, <1>10, <1>11, <1>12 DEF HistoryInv

-----------------------------------------------------------------------------
(* A recording begins, or does not.                                        *)
LEMMA StartsHolds ==
  ASSUME HistoryInv, NEW m, NEW l, NEW stamp,
         AtFrame(m), Entered(l), stamp \in Clock,
         StartRecording(m, l, stamp), start' = None \/ AtFrame(start'), trap' = None,
         UNCHANGED <<latch, playback_active, end>>
  PROVE  HistoryInv'
<1>1. /\ machine' = m /\ event_list' = l /\ next_timestamp_clk' = stamp /\ alarm' = stamp
      /\ milestone_timestamp_alarm' = 0
  BY DEF StartRecording
<1>2. 0 \in Clock
  BY Numbers DEF Clock
<1>3. Clocks'
  BY <1>1, <1>2 DEF HistoryInv, Clocks, AtFrame
<1>4. Snapshots'
  BY DEF HistoryInv, Snapshots
<1>5. Lists'
  BY <1>1 DEF Lists, Entered
<1>6. Traps'
  BY TrapNames DEF Traps
<1> QED BY <1>3, <1>4, <1>5, <1>6 DEF HistoryInv

(* The trap of a recording.                                                *)
LEMMA RecordTrapHolds ==
  ASSUME HistoryInv, Trap, event_record_start_trap
  PROVE  HistoryInv'
<1>1. /\ trap = "record_start" /\ trap' = None
      /\ UNCHANGED <<latch, event_start_mode, playback_active, end>>
      /\ RecordSave \/ RecordLoad \/ RecordReset \/ RecordOverwrite
  BY DEF Trap, event_record_start_trap
<1>2. AtFrame(machine) /\ machine.clk \in Clock
  BY <1>1, TrapNames, TrapAtFrame DEF Trap, HistoryInv, Clocks, IsMachine
<1>3. ASSUME NotStarted, start' \in {start, None}
      PROVE  HistoryInv'
  <2>1. Clocks'
    BY <1>1, <1>3 DEF NotStarted, HistoryInv, Clocks
  <2>2. Snapshots'
    BY <1>1, <1>3 DEF HistoryInv, Snapshots
  <2>3. Lists'
    BY <1>1, <1>3 DEF NotStarted, HistoryInv, Lists
  <2>4. Traps'
    BY <1>1, TrapNames DEF Traps
  <2> QED BY <2>1, <2>2, <2>3, <2>4 DEF HistoryInv
<1>4. start = None \/ AtFrame(start)
  BY DEF HistoryInv, Snapshots
<1>5. CASE RecordSave
  <2> DEFINE l == event_record_in_list(create_list(machine), "initial_save", machine.clk)
  <2>1. CASE start' = machine /\ StartRecording(machine, l, machine.clk)
    <3>1. Entered(l)
      BY <1>2, CreateFacts DEF Initials
    <3> HIDE DEF l
    <3> QED BY <1>1, <1>2, <2>1, <3>1, StartsHolds
  <2>2. CASE start' \in Failed(start) /\ NotStarted
    BY <1>3, <2>2 DEF Failed
  <2> QED BY <1>5, <2>1, <2>2 DEF RecordSave
<1>6. CASE RecordLoad
  <2>1. CASE end = None
    BY <1>3, <1>6, <2>1 DEF RecordLoad
  <2>2. CASE end # None
    <3>1. IsFile(end)
      BY <2>2 DEF HistoryInv, Snapshots
    <3>2. AtFrame(end.machine) /\ end.machine.clk \in Clock
      BY <3>1 DEF IsFile, AtFrame, IsMachine
    <3>3. Entered(warp_end_list(end))
      BY <3>1, WarpFacts
    <3>4. StartRecording(end.machine, warp_end_list(end), end.machine.clk) /\ start' = start
      BY <1>6, <2>2 DEF RecordLoad
    <3> QED BY <1>1, <1>4, <3>2, <3>3, <3>4, StartsHolds
  <2> QED BY <2>1, <2>2
<1>7. CASE RecordReset
  <2> DEFINE m == IF playback_active THEN machine ELSE PowerUp(machine.clk)
             k == event_record_in_list(create_list(None), "initial_reset", machine.clk)
             w == ~playback_active
             l == [k EXCEPT !.whole = w]
  <2>1. StartRecording(m, l, 0) /\ start' = start
    BY <1>7 DEF RecordReset
  <2>2. AtFrame(m)
    <3>1. machine.clk \in Nat /\ machine.clk + Frame < Mod
      BY <1>2, Numbers DEF AtFrame, IsMachine, Clock
    <3> QED BY <1>2, <3>1, PowerUpFacts
  <2>3. Entered(k)
    BY <1>2, CreateFacts DEF Initials
  <2> HIDE DEF m, k, w
  <2>4. Entered(l)
    <3>1. k = [nodes |-> k.nodes, current |-> k.current, from |-> k.from, told |-> k.told,
               whole |-> k.whole]
      BY <2>3 DEF Entered, IsList
    <3>2. l = [nodes |-> k.nodes, current |-> k.current, from |-> k.from, told |-> k.told,
               whole |-> w]
      BY <3>1
    <3> HIDE DEF l
    <3> QED BY <2>3, <3>2 DEF Entered, IsList
  <2> HIDE DEF l
  <2>5. 0 \in Clock
    BY Numbers DEF Clock
  <2> QED BY <1>1, <1>4, <2>1, <2>2, <2>4, <2>5, StartsHolds
<1>8. CASE RecordOverwrite
  <2>1. StartRecording(machine, CutList(event_list), machine.clk) /\ start' = start
    BY <1>8 DEF RecordOverwrite
  <2>2. Entered(event_list)
    BY <1>1, <1>8 DEF RecordOverwrite, HistoryInv, Traps
  <2>3. Entered(CutList(event_list))
    BY <2>2, CutFacts
  <2> QED BY <1>1, <1>2, <1>4, <2>1, <2>3, StartsHolds
<1> QED BY <1>1, <1>5, <1>6, <1>7, <1>8

(* The traps that write the end snapshot: it holds the machine, which is   *)
(* at the start of a frame, and the list.                                  *)
LEMMA WriteTrapHolds ==
  ASSUME HistoryInv, Trap, event_record_stop_trap \/ event_record_set_milestone_trap
  PROVE  HistoryInv'
<1>1. /\ trap \in {"record_stop", "set_milestone"} /\ trap' = None
      /\ UNCHANGED <<latch, event_start_mode>>
  BY DEF Trap, event_record_stop_trap, event_record_set_milestone_trap
<1>2. record_active /\ Entered(event_list)
  BY <1>1 DEF HistoryInv, Traps, Lists
<1>3. AtFrame(machine)
  BY <1>1, TrapNames, TrapAtFrame DEF Trap, HistoryInv
<1>4. PICK ok \in BOOLEAN : WriteEnd(ok)
  BY DEF event_record_stop_trap, event_record_set_milestone_trap
<1>5. UNCHANGED <<machine, alarm, playback_active, event_list, next_timestamp_clk, start>>
  BY <1>4 DEF WriteEnd
<1>6. end' \in {Files(event_list), end, None}
  BY <1>4 DEF WriteEnd, Failed
<1>7. /\ record_active' \in BOOLEAN /\ (record_active' => record_active)
      /\ milestone_timestamp_alarm' \in {next_timestamp_clk, milestone_timestamp_alarm}
  BY <1>2 DEF event_record_stop_trap, event_record_set_milestone_trap
<1>8. IsFile(Files(event_list))
  BY <1>2, <1>3, FilesFacts DEF Entered
<1>9. Clocks'
  BY <1>1, <1>5, <1>7 DEF HistoryInv, Clocks
<1>10. Snapshots'
  BY <1>5, <1>6, <1>8 DEF HistoryInv, Snapshots
<1>11. Lists'
  BY <1>2, <1>5 DEF Lists, Entered
<1>12. Traps'
  BY <1>1, TrapNames DEF Traps
<1> QED BY <1>9, <1>10, <1>11, <1>12 DEF HistoryInv

(* The recording goes back to its milestone.                               *)
LEMMA ResetMilestoneHolds ==
  ASSUME HistoryInv, Trap, event_record_reset_milestone_trap
  PROVE  HistoryInv'
<1>1. /\ trap = "reset_milestone" /\ trap' = None
      /\ UNCHANGED <<latch, event_start_mode, playback_active, milestone_timestamp_alarm,
                     start, end>>
  BY DEF Trap, event_record_reset_milestone_trap
<1>2. record_active /\ Entered(event_list)
  BY <1>1 DEF HistoryInv, Traps, Lists
<1>3. Traps' /\ Snapshots'
  BY <1>1, TrapNames DEF HistoryInv, Snapshots, Traps
<1>4. CASE end = None
  <2>1. record_active' = FALSE /\ UNCHANGED <<machine, event_list, next_timestamp_clk, alarm>>
    BY <1>4 DEF event_record_reset_milestone_trap
  <2>2. Clocks' /\ Lists'
    BY <1>1, <2>1 DEF HistoryInv, Clocks, Lists
  <2> QED BY <1>3, <2>2 DEF HistoryInv
<1>5. CASE end # None
  <2>1. /\ machine' = end.machine /\ event_list' = warp_end_list(end)
        /\ alarm' \in {milestone_timestamp_alarm, alarm}
        /\ next_timestamp_clk' \in {milestone_timestamp_alarm,
                                    Reading(end.list.nodes).stamp % Mod}
    BY <1>5 DEF event_record_reset_milestone_trap
  <2>2. IsFile(end)
    BY <1>5 DEF HistoryInv, Snapshots
  <2>3. Entered(warp_end_list(end))
    BY <2>2, WarpFacts
  <2>4. Reading(end.list.nodes).stamp % Mod \in Clock
    BY <2>2, ReadFacts, ModClock
  <2>5. IsMachine(end.machine)
    BY <2>2 DEF IsFile, AtFrame
  <2>6. Clocks'
    BY <1>1, <2>1, <2>4, <2>5 DEF HistoryInv, Clocks
  <2>7. Lists'
    BY <2>1, <2>3 DEF Lists, Entered
  <2> QED BY <1>3, <2>6, <2>7 DEF HistoryInv
<1> QED BY <1>4, <1>5

(* A playback begins: behind the initial event of the list that was read,  *)
(* or, without a start snapshot, not at all.                               *)
LEMMA PlaybackTrapHolds ==
  ASSUME HistoryInv, Trap, event_playback_start_trap
  PROVE  HistoryInv'
<1> DEFINE l == event_snapshot_read_module(end)
<1>1. /\ trap = "playback_start" /\ trap' = None
      /\ UNCHANGED <<latch, event_start_mode, record_active, milestone_timestamp_alarm,
                     start, end>>
  BY DEF Trap, event_playback_start_trap
<1>2. ~record_active /\ ~playback_active
  BY <1>1 DEF HistoryInv, Traps
<1>3. Traps' /\ Snapshots'
  BY <1>1, TrapNames DEF HistoryInv, Snapshots, Traps
<1>4. AtFrame(machine)
  BY <1>1, TrapNames, TrapAtFrame DEF Trap, HistoryInv
<1>5. CASE end = None
  <2>1. UNCHANGED <<machine, playback_active, event_list, next_timestamp_clk, alarm>>
    BY <1>5 DEF event_playback_start_trap
  <2>2. Clocks' /\ Lists'
    BY <1>1, <2>1 DEF HistoryInv, Clocks, Lists
  <2> QED BY <1>3, <2>2 DEF HistoryInv
<1>6. CASE end # None
  <2>1. IsFile(end)
    BY <1>6 DEF HistoryInv, Snapshots
  <2>2. /\ IsList(l) /\ l.current = 1 /\ Reading(end.list.nodes).stamp % Mod \in Clock
    BY <2>1, ReadFacts, ModClock
  <2>3. Entered(next_current_list(l))
    BY <2>2, InitialNext
  <2>4. next_timestamp_clk' = Reading(end.list.nodes).stamp % Mod
    BY <1>6 DEF event_playback_start_trap
  <2>5. CASE Current(l).type = "initial_reset"
    <3>1. PlayFrom(PowerUp(machine.clk), l) /\ UNCHANGED alarm
      BY <1>6, <2>5 DEF event_playback_start_trap
    <3>2. machine' = PowerUp(machine.clk) /\ event_list' = next_current_list(l)
      BY <3>1 DEF PlayFrom
    <3> HIDE DEF l
    <3>3. AtFrame(PowerUp(machine.clk))
      <4>1. machine.clk \in Nat /\ machine.clk + Frame < Mod
        BY <1>4, Numbers DEF AtFrame, IsMachine, Clock
      <4> QED BY <4>1, PowerUpFacts
    <3>4. Clocks'
      BY <1>1, <2>2, <2>4, <3>1, <3>2, <3>3 DEF HistoryInv, Clocks, AtFrame
    <3>5. Lists'
      BY <2>3, <3>2 DEF Lists, Entered
    <3> QED BY <1>3, <3>4, <3>5 DEF HistoryInv
  <2>6. CASE Current(l).type # "initial_reset" /\ start = None
    <3>1. event_list' = l /\ UNCHANGED <<machine, playback_active, alarm>>
      BY <1>6, <2>6 DEF event_playback_start_trap
    <3> HIDE DEF l
    <3>2. Clocks'
      BY <1>1, <2>2, <2>4, <3>1 DEF HistoryInv, Clocks
    <3>3. Lists'
      BY <1>1, <1>2, <2>2, <3>1 DEF Lists
    <3> QED BY <1>3, <3>2, <3>3 DEF HistoryInv
  <2>7. CASE Current(l).type # "initial_reset" /\ start # None
    <3>1. PlayFrom(start, l) /\ alarm' = next_alarm_set(next_current_list(l), start.clk)
      BY <1>6, <2>7 DEF event_playback_start_trap
    <3>2. machine' = start /\ event_list' = next_current_list(l)
      BY <3>1 DEF PlayFrom
    <3> HIDE DEF l
    <3>3. IsMachine(start) /\ start.clk \in Clock
      BY <2>7 DEF HistoryInv, Snapshots, AtFrame, IsMachine
    <3>4. alarm' \in Clock
      BY <2>3, <3>1, <3>3, AlarmFacts DEF Entered
    <3>5. Clocks'
      BY <1>1, <2>2, <2>4, <3>2, <3>3, <3>4 DEF HistoryInv, Clocks
    <3>6. Lists'
      BY <2>3, <3>2 DEF Lists, Entered
    <3> QED BY <1>3, <3>5, <3>6 DEF HistoryInv
  <2> QED BY <2>5, <2>6, <2>7
<1> QED BY <1>5, <1>6

-----------------------------------------------------------------------------
(* A request is made at the end of a frame or at the start of one.         *)
LEMMA AskedAtFrame ==
  ASSUME HistoryInv, Asks
  PROVE  machine.raster <= machine.clk \/ AtFrame(machine)
BY DEF Asks, IsDue, HistoryInv, Clocks, AtFrame

(* The event that ends a session is recorded when the user stops.          *)
LEMMA StopHolds ==
  ASSUME HistoryInv, event_record_stop
  PROVE  HistoryInv'
<1> DEFINE k == event_record_in_list(event_list, "end", machine.clk)
           told == IF k.told = None THEN Telling(machine) ELSE k.told
           l == [k EXCEPT !.told = told]
<1>1. /\ record_active /\ alarm' = None /\ event_list' = l /\ trap' = "record_stop"
      /\ UNCHANGED <<machine, latch, next_timestamp_clk, milestone_timestamp_alarm,
                     record_active, playback_active, event_start_mode, start, end>>
  BY DEF event_record_stop, Request, Still
<1>2. Entered(event_list) /\ machine.clk \in Clock
  BY <1>1 DEF HistoryInv, Lists, Clocks, IsMachine
<1>3. Entered(k)
  BY <1>2, RecordFacts
<1>4. machine.raster <= machine.clk \/ AtFrame(machine)
  BY AskedAtFrame DEF event_record_stop, Request
<1> HIDE DEF k, told
<1>5. Entered(l)
  <2>1. k = [nodes |-> k.nodes, current |-> k.current, from |-> k.from, told |-> k.told,
             whole |-> k.whole]
    BY <1>3 DEF Entered, IsList
  <2>2. l = [nodes |-> k.nodes, current |-> k.current, from |-> k.from, told |-> told,
             whole |-> k.whole]
    BY <2>1
  <2> HIDE DEF l
  <2> QED BY <1>3, <2>2 DEF Entered, IsList
<1> HIDE DEF l
<1>6. Clocks'
  BY <1>1 DEF HistoryInv, Clocks
<1>7. Snapshots'
  BY <1>1 DEF HistoryInv, Snapshots
<1>8. Lists'
  BY <1>1, <1>5 DEF Lists, Entered
<1>9. Traps'
  BY <1>1, <1>4 DEF Traps, AtFrame, IsMachine, Clock
<1> QED BY <1>6, <1>7, <1>8, <1>9 DEF HistoryInv

(* The other requests leave the machine, the list and the snapshots alone. *)
LEMMA AsksHolds ==
  ASSUME HistoryInv,
         \/ \E mode \in Modes : event_record_start(mode)
         \/ event_playback_start \/ event_playback_stop
         \/ event_record_set_milestone \/ event_record_reset_milestone
  PROVE  HistoryInv'
<1>1. UNCHANGED <<machine, latch, next_timestamp_clk, milestone_timestamp_alarm, event_list,
                  record_active, start, end>>
  BY DEF event_record_start, event_playback_start, event_playback_stop,
         event_record_set_milestone, event_record_reset_milestone, Request, Still
<1>2. \/ UNCHANGED <<alarm, playback_active>>
      \/ alarm' = None /\ playback_active' = FALSE
  BY DEF event_record_start, event_playback_start, event_playback_stop,
         event_record_set_milestone, event_record_reset_milestone, StopsPlaying
<1>3. machine.raster <= machine.clk \/ AtFrame(machine)
  BY AskedAtFrame DEF event_record_start, event_playback_start, event_playback_stop,
         event_record_set_milestone, event_record_reset_milestone, Request
<1>4. Clocks'
  BY <1>1, <1>2 DEF HistoryInv, Clocks
<1>5. Snapshots'
  BY <1>1 DEF HistoryInv, Snapshots
<1>6. Lists'
  BY <1>1, <1>2 DEF HistoryInv, Lists
<1>7. Traps'
  <2>1. trap' # None => machine'.raster <= machine'.clk \/ AtFrame(machine')
    BY <1>1, <1>3
  <2>2. ASSUME NEW mode \in Modes, event_record_start(mode)
        PROVE  Traps'
    <3>1. /\ ~record_active /\ (mode = "overwrite" => playback_active)
          /\ trap' = "record_start" /\ event_start_mode' = mode
      BY <2>2 DEF event_record_start, Request
    <3>2. playback_active => Entered(event_list)
      BY DEF HistoryInv, Lists
    <3> QED BY <1>1, <2>1, <3>1, <3>2 DEF Traps
  <2>3. CASE event_playback_start
    BY <1>1, <2>1, <2>3 DEF event_playback_start, Request, Traps
  <2>4. CASE event_playback_stop
    BY <1>1, <2>1, <2>4 DEF event_playback_stop, StopsPlaying, Request, HistoryInv, Traps
  <2>5. CASE event_record_set_milestone \/ event_record_reset_milestone
    BY <1>1, <2>1, <2>5 DEF event_record_set_milestone, event_record_reset_milestone,
         Request, Traps
  <2> QED BY <2>2, <2>3, <2>4, <2>5
<1> QED BY <1>4, <1>5, <1>6, <1>7 DEF HistoryInv

(* A key is pressed.                                                       *)
LEMMA KeyHolds ==
  ASSUME HistoryInv, NEW delay \in Delays, keyboard_key_pressed(delay)
  PROVE  HistoryInv'
<1>1. /\ latch' = (machine.clk + delay) % Mod
      /\ UNCHANGED <<machine, alarm, recorder, trap, start, end>>
  BY DEF keyboard_key_pressed
<1>2. machine.clk + delay \in Int
  <2>1. delay \in Int
    BY ClockAssumption, BoundAssumption
  <2> QED BY <2>1, Numbers DEF HistoryInv, Clocks, IsMachine, Clock
<1>3. latch' \in Clock
  BY <1>1, <1>2, ModClock
<1> QED BY <1>1, <1>3 DEF HistoryInv, Clocks, Snapshots, Lists, Traps, recorder

-----------------------------------------------------------------------------
(* Every step preserves the invariant.                                     *)
LEMMA NextHolds ==
  ASSUME HistoryInv, [Next]_vars
  PROVE  HistoryInv'
<1>1. CASE Tick
  BY <1>1, TickHolds
<1>2. CASE Alarms
  BY <1>2, VsyncHolds, LatchHolds, AlarmHolds DEF Alarms
<1>3. CASE Trap
  BY <1>3, RecordTrapHolds, WriteTrapHolds, ResetMilestoneHolds, PlaybackTrapHolds DEF Trap
<1>4. CASE CpuReset
  BY <1>4, CpuResetHolds
<1>5. CASE User
  <2>1. CASE \E delay \in Delays : keyboard_key_pressed(delay)
    BY <2>1, KeyHolds
  <2>2. CASE machine_trigger_reset
    BY <2>2, TriggerResetHolds
  <2>3. CASE event_record_stop
    BY <2>3, StopHolds
  <2> QED BY <1>5, <2>1, <2>2, <2>3, AsksHolds DEF User
<1>6. CASE UNCHANGED vars
  BY <1>6 DEF vars, recorder, HistoryInv, Clocks, Snapshots, Lists, Traps
<1> QED BY <1>1, <1>2, <1>3, <1>4, <1>5, <1>6 DEF Next

(* The inductive invariant: lists have a successor for all but their last  *)
(* node, in memory and in the end snapshot.                                *)
THEOREM HistoryInvariant == Spec => []HistoryInv
<1>1. Init => HistoryInv
  BY InitHolds
<1>2. HistoryInv /\ [Next]_vars => HistoryInv'
  BY NextHolds
<1> QED BY <1>1, <1>2, PTL DEF Spec

(* The clocks stay in their range although they are set back, counted on   *)
(* and restored, and event_list->current is one of the nodes whatever is   *)
(* recorded, played, cut or read from a file: next_current_list never      *)
(* leaves the list.                                                        *)
THEOREM HistoryTyped == Spec => []TypeOK
<1>1. HistoryInv => TypeOK
  BY DEF HistoryInv, Clocks, Lists, IsMachine, IsList, TypeOK
<1> QED BY <1>1, HistoryInvariant, PTL
=============================================================================
