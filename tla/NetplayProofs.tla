---------------------------- MODULE NetplayProofs ----------------------------
(***************************************************************************)
(* The inductive invariant of Netplay, and what it is good for: lists are  *)
(* replayed when they are due, the out-of-sync error is never raised       *)
(* without a reason, and the two machines stay in lockstep.                *)
(*                                                                         *)
(* PlaysOnTime and lockstep are not inductive by themselves: that two      *)
(* histories agree in the next frame follows from what the two rings hold  *)
(* and what the two streams have yet to deliver, and from how far the      *)
(* peers can be apart.                                                     *)
(***************************************************************************)
EXTENDS Netplay, NaturalFacts, FiniteSetTheorems

-----------------------------------------------------------------------------
(* There are two peers: any two that differ are all there are.             *)
LEMMA TwoPeers ==
  /\ \A p \in Peer : Other(p) \in Peer /\ Other(p) # p /\ Other(Other(p)) = p
  /\ \A p, q \in Peer : q = p \/ q = Other(p)
<1>1. PICK x, y : x # y /\ Peer = {x, y}
  <2>1. PICK x : x \in Peer
    BY PeerAssumption, FS_EmptySet
  <2>2. IsFiniteSet(Peer \ {x}) /\ Cardinality(Peer \ {x}) = 1
    BY <2>1, PeerAssumption, FS_RemoveElement
  <2>3. PICK y : Peer \ {x} = {y}
    BY <2>2, FS_Singleton
  <2> QED BY <2>1, <2>3
<1>2. Other(x) = y /\ Other(y) = x
  BY <1>1 DEF Other
<1> QED BY <1>1, <1>2

(* The socket pool hands out an entry that is free.                        *)
LEMMA FreeSlotIsFree ==
  ASSUME NEW p, Slot \ used[p] # {}
  PROVE  FreeSlot(p) \in Slot /\ FreeSlot(p) \notin used[p]
<1> DEFINE T == Slot \ used[p]
<1>1. T \subseteq Nat
  BY SlotAssumption
<1> HIDE DEF T
<1>2. T # {} => \E s \in T : \A t \in T : s <= t
  BY <1>1, LeastOf
<1> QED BY <1>2 DEF FreeSlot, T

(* A list holds input events and sync tests; what is replayed of it is     *)
(* input events.                                                           *)
LEMMA InputsType ==
  ASSUME NEW l \in List
  PROVE  Inputs(l) \in Seq(InputEvent)
<1> DEFINE events == l.events
           m == Len(events)
           Step(g, n) == IF n = 0 THEN <<>>
                         ELSE IF events[n].type = "sync test" THEN g[n - 1]
                         ELSE Append(g[n - 1], events[n])
           kept == CHOOSE g : g = [n \in 0..m |-> Step(g, n)]
<1>1. Inputs(l) = kept[m]
  BY DEF Inputs
<1>2. events \in Seq(InputEvent \cup SyncTest) /\ m \in Nat
  BY DEF List
<1>3. \E g : g = [n \in 0..m |-> Step(g, n)]
  <2> DEFINE E == InputEvent \cup SyncTest
             V == Seq(E)
             prev == [n \in 1..m |-> n - 1]
             step == [x \in (1..m) \X V |-> IF events[x[1]].type = "sync test" THEN x[2]
                                            ELSE Append(x[2], events[x[1]])]
  <2>1. prev \in [1..m -> Nat] /\ \A n \in 1..m : prev[n] < n /\ prev[n] = n - 1
    BY <1>2
  <2>2. <<>> \in V
    OBVIOUS
  <2>3. \A v \in V, n \in 1..m : Append(v, events[n]) \in V
    <3> HIDE DEF E, events
    <3>1. \A n \in 1..m : events[n] \in E
      BY <1>2 DEF E
    <3> QED BY <3>1
  <2> HIDE DEF V, m
  <2>4. step \in [(1..m) \X V -> V]
    BY <2>3
  <2>5. PICK g \in [0..m -> V] : Computed(g, m, <<>>, prev, step)
    <3> HIDE DEF step, prev
    <3> QED BY <1>2, <2>1, <2>2, <2>4, Computable
  <2>6. ASSUME NEW n \in 1..m
        PROVE  g[n] = Step(g, n)
    <3>1. n - 1 \in 0..m /\ n # 0
      BY <1>2
    <3>2. <<n, g[n - 1]>> \in (1..m) \X V
      BY <3>1, <2>5
    <3>3. g[n] = step[<<n, g[n - 1]>>]
      <4> HIDE DEF step, prev
      <4> QED BY <2>1, <2>5 DEF Computed
    <3> QED BY <3>1, <3>2, <3>3
  <2>7. g[0] = Step(g, 0)
    BY <2>5 DEF Computed
  <2> HIDE DEF Step
  <2>8. \A n \in 0..m : g[n] = Step(g, n)
    BY <1>2, <2>6, <2>7
  <2>9. g = [n \in 0..m |-> Step(g, n)]
    BY <2>5, <2>8
  <2> QED BY <2>9
<1>4. kept = [n \in 0..m |-> Step(kept, n)]
  <2> HIDE DEF Step, m
  <2> QED BY <1>3
<1>5. \A n \in 0..m : kept[n] = Step(kept, n)
  <2> HIDE DEF kept, Step, m
  <2> QED BY <1>4
<1> HIDE DEF kept, m, events
<1>a. kept[0] = <<>>
  <2>1. kept[0] = Step(kept, 0)
    <3> HIDE DEF Step
    <3> QED BY <1>2, <1>5
  <2> QED BY <2>1
<1>b. ASSUME NEW n \in 1..m
      PROVE  kept[n] = IF events[n].type = "sync test" THEN kept[n - 1]
                       ELSE Append(kept[n - 1], events[n])
  <2>1. kept[n] = Step(kept, n) /\ n # 0
    <3> HIDE DEF Step
    <3> QED BY <1>2, <1>5
  <2> QED BY <2>1
<1> HIDE DEF Step
<1> DEFINE T == {n \in 0..m : kept[n] \in Seq(InputEvent)}
<1>6. ASSUME NEW n \in 0..m, \A k \in 0..n-1 : k \in T
      PROVE  n \in T
  <2>1. CASE n = 0
    <3>1. kept[n] = <<>> /\ <<>> \in Seq(InputEvent)
      BY <2>1, <1>a
    <3> QED BY <3>1
  <2>2. CASE n > 0
    <3>1. n \in 1..m /\ n - 1 \in T
      BY <1>2, <1>6, <2>2
    <3>2. kept[n - 1] \in Seq(InputEvent)
      BY <3>1
    <3>3. events[n] \in InputEvent \cup SyncTest
      BY <1>2, <3>1 DEF m
    <3>4. CASE events[n].type = "sync test"
      <4>1. kept[n] = kept[n - 1]
        BY <3>1, <3>4, <1>b
      <4> QED BY <3>2, <4>1
    <3>5. CASE events[n].type # "sync test"
      <4>1. events[n] \in InputEvent
        BY <3>3, <3>5 DEF SyncTest
      <4>2. kept[n] = Append(kept[n - 1], events[n])
        BY <3>1, <3>5, <1>b
      <4>3. kept[n] \in Seq(InputEvent)
        <5> HIDE DEF T
        <5> QED BY <3>2, <4>1, <4>2
      <4> QED BY <4>3
    <3> QED BY <3>4, <3>5
  <2> QED BY <2>1, <2>2, <1>2
<1>7. m \in T
  <2>1. \A n \in 0..m : n \in T
    <3> HIDE DEF T, m
    <3> QED BY <1>2, <1>6, UpTo
  <2>2. m \in 0..m
    BY <1>2
  <2> QED BY <2>1, <2>2
<1> QED BY <1>1, <1>7

-----------------------------------------------------------------------------
(* Types, group by group.                                                  *)
SessionType ==
  /\ mode \in [Peer -> {"idle", "server", "server connected", "client"}]
  /\ listen_socket \in [Peer -> Slot \cup {None}]
  /\ network_socket \in [Peer -> Slot \cup {None}]
  /\ used \in [Peer -> SUBSET Slot]
  /\ misclosed \in [Peer -> BOOLEAN]

BufferType ==
  /\ frame_event_list \in [Peer -> [0..FrameDelta-1 -> List]]
  /\ current_frame \in [Peer -> 0..FrameDelta-1]
  /\ frame_to_play \in [Peer -> 0..FrameDelta-1]
  /\ frame_buffer_full \in [Peer -> BOOLEAN]

HookType ==
  /\ suspended \in [Peer -> BOOLEAN]
  /\ sync_trap \in [Peer -> BOOLEAN]
  /\ pc \in [Peer -> {"run", "receive"}]
  /\ out_of_sync \in [Peer -> BOOLEAN]
  /\ budget \in [Outside -> Nat]

MachineType ==
  /\ machine \in [Peer -> Seq(Seq(InputEvent))]
  /\ drift \in [Peer -> Nat \cup {None}]

NetworkType ==
  /\ channel \in [Peer -> Seq(List \cup {Suspending})]
  /\ link \in [Peer -> {"up", "eof", "gone", "reset"}]

(* The type invariant, taken apart.                                        *)
LEMMA TypeParts ==
  TypeOK <=> SessionType /\ BufferType /\ HookType /\ MachineType /\ NetworkType
BY DEF TypeOK, SessionType, BufferType, HookType, MachineType, NetworkType

(* A frame starts with a list.                                             *)
LEMMA EmptyListType == \A n \in Nat : EmptyList(n) \in List
BY DEF EmptyList, List

(* An outside event leaves the budget in its type.                         *)
LEMMA SpendType ==
  ASSUME budget \in [Outside -> Nat], NEW what \in Outside, Spend(what)
  PROVE  budget' \in [Outside -> Nat]
BY DEF Spend

(* The end of a session leaves sockets and streams in their types.         *)
LEMMA DisconnectType ==
  ASSUME SessionType, NetworkType, NEW p \in Peer, NEW u, Disconnect(p, u)
  PROVE  SessionType' /\ NetworkType'
<1>1. SessionType'
  BY DEF Disconnect, SessionType
<1>2. NetworkType'
  <2>1. CASE UNCHANGED network
    BY <2>1 DEF network, NetworkType
  <2>2. CASE CloseStream(p, u)
    <3>1. Other(p) \in Peer
      BY TwoPeers
    <3>2. <<>> \in Seq(List \cup {Suspending})
      OBVIOUS
    <3> DEFINE S == Seq(List \cup {Suspending})
    <3>3. channel \in [Peer -> S] /\ <<>> \in S
      BY <3>2 DEF NetworkType
    <3> HIDE DEF S
    <3>4. channel' \in [Peer -> S]
      BY <2>2, <3>1, <3>3 DEF CloseStream
    <3>5. link' \in [Peer -> {"up", "eof", "gone", "reset"}]
      BY <2>2, <3>1 DEF CloseStream, NetworkType
    <3> QED BY <3>4, <3>5 DEF NetworkType, S
  <2> QED BY <2>1, <2>2 DEF Disconnect
<1> QED BY <1>1, <1>2

(* So does a message that is sent.                                         *)
LEMMA SendType ==
  ASSUME NetworkType, NEW p \in Peer, NEW m \in List \cup {Suspending}, SendOk(p, m)
  PROVE  NetworkType'
<1>1. Other(p) \in Peer
  BY TwoPeers
<1>2. Append(channel[Other(p)], m) \in Seq(List \cup {Suspending})
  <2>1. channel[Other(p)] \in Seq(List \cup {Suspending})
    BY <1>1 DEF NetworkType
  <2> QED BY <2>1
<1> DEFINE S == Seq(List \cup {Suspending})
<1>3. channel \in [Peer -> S] /\ Append(channel[Other(p)], m) \in S
  BY <1>2 DEF NetworkType
<1> HIDE DEF S
<1>4. channel' \in [Peer -> S]
  BY <1>1, <1>3 DEF SendOk
<1>5. link' \in [Peer -> {"up", "eof", "gone", "reset"}]
  BY DEF SendOk, NetworkType
<1> QED BY <1>4, <1>5 DEF NetworkType, S

(* An event that is recorded leaves the lists of the ring lists.           *)
LEMMA RecordType ==
  ASSUME BufferType, NEW p \in Peer, NEW e \in InputEvent \cup SyncTest, Record(p, e),
         UNCHANGED <<current_frame, frame_to_play, frame_buffer_full>>
  PROVE  BufferType'
<1> DEFINE i == current_frame[p]
           l == frame_event_list[p][i]
<1>1. l \in List /\ i \in 0..FrameDelta-1
  BY DEF BufferType
<1>2. [l EXCEPT !.events = Append(@, e)] \in List
  <2>1. Append(l.events, e) \in Seq(InputEvent \cup SyncTest)
    BY <1>1 DEF List
  <2> QED BY <1>1, <2>1 DEF List
<1>3. frame_event_list' =
        [frame_event_list EXCEPT ![p][i] = [l EXCEPT !.events = Append(@, e)]]
  BY DEF Record
<1> HIDE DEF l, i
<1> QED BY <1>1, <1>2, <1>3 DEF BufferType

(* The end of a frame leaves the ring and the history in their types.      *)
LEMMA FinishType ==
  ASSUME BufferType, HookType, MachineType, NEW p \in Peer, NEW events \in Seq(InputEvent),
         FinishFrame(p, events), UNCHANGED <<frame_buffer_full, drift, suspended, budget>>
  PROVE  /\ BufferType' /\ MachineType'
         /\ out_of_sync' \in [Peer -> BOOLEAN] => HookType'
<1>1. FrameDelta \in Nat /\ FrameDelta >= 2
  BY FrameDeltaAssumption
<1> DEFINE next == (current_frame[p] + 1) % FrameDelta
<1>2. next \in 0..FrameDelta-1 /\ FrameToPlay(next) \in 0..FrameDelta-1
  <2>1. current_frame[p] + 1 \in Nat
    BY DEF BufferType
  <2>2. next \in 0..FrameDelta-1
    BY <1>1, <2>1
  <2> HIDE DEF next
  <2> QED BY <1>1, <2>2 DEF FrameToPlay
<1>3. Frame(p) \in Nat /\ EmptyList(Frame(p) + 1) \in List
  <2>1. Frame(p) \in Nat
    BY DEF Frame, MachineType
  <2> QED BY <2>1, EmptyListType
<1>4. /\ current_frame' = [current_frame EXCEPT ![p] = next]
      /\ frame_to_play' = [frame_to_play EXCEPT ![p] = FrameToPlay(next)]
      /\ frame_event_list' = [frame_event_list EXCEPT ![p][next] = EmptyList(Frame(p) + 1)]
  BY DEF FinishFrame
<1> HIDE DEF next
<1>5. BufferType'
  BY <1>2, <1>3, <1>4 DEF BufferType
<1>6. MachineType'
  BY DEF FinishFrame, MachineType
<1>7. out_of_sync' \in [Peer -> BOOLEAN] => HookType'
  BY DEF FinishFrame, HookType
<1> QED BY <1>5, <1>6, <1>7

(* The first state is well typed.                                          *)
LEMMA InitType == Init => TypeOK
<1>1. FrameDelta \in Nat /\ FrameDelta >= 2
  BY FrameDeltaAssumption
<1> QED BY <1>1, EmptyListType, BoundsAssumption DEF Init, TypeOK

(* Every step keeps the types, action by action.                           *)
LEMMA NextType ==
  ASSUME TypeOK, [Next]_vars
  PROVE  TypeOK'
<1>0. /\ SessionType /\ BufferType /\ HookType /\ MachineType /\ NetworkType
      /\ SessionType' /\ BufferType' /\ HookType' /\ MachineType' /\ NetworkType' => TypeOK'
  BY TypeParts DEF TypeOK, SessionType, BufferType, HookType, MachineType, NetworkType
<1>1. FrameDelta \in Nat /\ FrameDelta >= 2
  BY FrameDeltaAssumption
<1> USE DEF buffer, session, emulation, network
<1>2. ASSUME NEW p \in Peer, network_event_record_sync_test(p)
      PROVE  TypeOK'
  <2> DEFINE e == [type |-> "sync test", data |-> Registers(p)]
  <2>1. e \in InputEvent \cup SyncTest
    BY <1>0 DEF Registers, RegistersOf, SyncTest
  <2>2. Record(p, e) /\ UNCHANGED <<current_frame, frame_to_play, frame_buffer_full>>
    BY <1>2 DEF network_event_record_sync_test
  <2> HIDE DEF e
  <2>3. BufferType'
    BY <1>0, <2>1, <2>2, RecordType
  <2> QED BY <1>0, <1>2, <2>3
          DEF network_event_record_sync_test, SessionType, HookType, MachineType, NetworkType
<1>3. ASSUME NEW p \in Peer, HookSend(p)
      PROVE  TypeOK'
  <2> DEFINE l == frame_event_list[p][current_frame[p]]
  <2>1. l \in List
    BY <1>0 DEF BufferType
  <2>2. SessionType' /\ NetworkType'
    <3>1. CASE SendOk(p, l) /\ UNCHANGED session
      <4> HIDE DEF l
      <4> QED BY <3>1, <1>0, <2>1, SendType DEF SessionType
    <3>2. CASE Disconnect(p, channel[p])
      BY <3>2, <1>0, DisconnectType
    <3> QED BY <1>3, <3>1, <3>2 DEF HookSend, network_hook_connected_send
  <2>3. BufferType' /\ HookType' /\ MachineType'
    BY <1>0, <1>3 DEF HookSend, BufferType, HookType, MachineType
  <2> QED BY <1>0, <2>2, <2>3
<1>4. ASSUME NEW p \in Peer, NothingToPlay(p)
      PROVE  TypeOK'
  <2>1. FinishFrame(p, <<>>) /\ <<>> \in Seq(InputEvent)
    BY <1>4 DEF NothingToPlay
  <2>2. UNCHANGED <<session, frame_buffer_full, suspended, out_of_sync, drift, network, budget>>
    BY <1>4 DEF NothingToPlay
  <2>3. BufferType' /\ HookType' /\ MachineType'
    BY <1>0, <2>1, <2>2, FinishType DEF HookType
  <2> QED BY <1>0, <2>2, <2>3 DEF SessionType, NetworkType
<1>5. ASSUME NEW p \in Peer, ReceiveSuspend(p)
      PROVE  TypeOK'
  <2>1. NetworkType'
    BY <1>0, <1>5 DEF ReceiveSuspend, NetworkType
  <2> QED BY <1>0, <1>5, <2>1
          DEF ReceiveSuspend, SessionType, BufferType, HookType, MachineType
<1>6. ASSUME NEW p \in Peer, ReceiveList(p)
      PROVE  TypeOK'
  <2> DEFINE lists == ServerAndClient(p, Head(channel[p]))
             unread == Tail(channel[p])
             events == Inputs(lists[1]) \o Inputs(lists[2])
  <2>1. lists[1] \in List /\ lists[2] \in List
    <3>1. Head(channel[p]) \in List
      BY <1>0, <1>6 DEF ReceiveList, NetworkType
    <3>2. frame_event_list[p][frame_to_play[p]] \in List
      BY <1>0 DEF BufferType
    <3> QED BY <3>1, <3>2 DEF ServerAndClient
  <2>2. /\ FinishFrame(p, events)
        /\ \/ /\ InSync(lists)
              /\ channel' = [channel EXCEPT ![p] = unread]
              /\ UNCHANGED <<session, out_of_sync, link>>
           \/ /\ ~InSync(lists)
              /\ EndOutOfSync(p, unread)
        /\ UNCHANGED <<frame_buffer_full, suspended, drift, budget>>
    BY <1>6 DEF ReceiveList
  <2>3. unread \in Seq(List \cup {Suspending})
    BY <1>0, <1>6 DEF ReceiveList, NetworkType
  <2> HIDE DEF lists, unread
  <2>4. events \in Seq(InputEvent)
    BY <2>1, InputsType
  <2> HIDE DEF events
  <2>5. SessionType' /\ NetworkType' /\ out_of_sync' \in [Peer -> BOOLEAN]
    <3>1. CASE channel' = [channel EXCEPT ![p] = unread] /\ UNCHANGED <<session, out_of_sync, link>>
      BY <1>0, <2>3, <3>1 DEF SessionType, NetworkType, HookType
    <3>2. CASE EndOutOfSync(p, unread)
      BY <1>0, <3>2, DisconnectType DEF EndOutOfSync, HookType
    <3> QED BY <2>2, <3>1, <3>2
  <2>6. BufferType' /\ MachineType' /\ HookType'
    BY <1>0, <2>2, <2>4, <2>5, FinishType
  <2> QED BY <1>0, <2>5, <2>6
<1>7. ASSUME NEW p \in Peer, ReceiveFails(p)
      PROVE  TypeOK'
  <2>1. SessionType' /\ NetworkType'
    BY <1>0, <1>7, DisconnectType DEF ReceiveFails
  <2> QED BY <1>0, <1>7, <2>1 DEF ReceiveFails, BufferType, HookType, MachineType
<1>8. ASSUME NEW p \in Peer, ReceiveTorn(p)
      PROVE  TypeOK'
  BY <1>0, <1>8 DEF ReceiveTorn, SessionType, BufferType, HookType, MachineType, NetworkType
<1>9. ASSUME NEW p \in Peer, network_start_server(p)
      PROVE  TypeOK'
  <2>1. FreeSlot(p) \in Slot
    BY <1>9, FreeSlotIsFree DEF network_start_server
  <2>2. SessionType'
    BY <1>0, <1>9, <2>1 DEF network_start_server, SessionType
  <2> QED BY <1>0, <1>9, <2>2
          DEF network_start_server, BufferType, HookType, MachineType, NetworkType
<1>10. ASSUME NEW p \in Peer, UserDisconnects(p)
       PROVE  TypeOK'
  <2>1. SessionType' /\ NetworkType'
    BY <1>0, <1>10, DisconnectType DEF UserDisconnects
  <2>2. HookType'
    BY <1>0, <1>10, SpendType DEF UserDisconnects, HookType, Outside
  <2> QED BY <1>0, <1>10, <2>1, <2>2 DEF UserDisconnects, BufferType, MachineType
<1>11. ASSUME NEW p \in Peer, Input(p)
       PROVE  TypeOK'
  <2> DEFINE e == [type |-> "input", by |-> p, frame |-> Frame(p)]
  <2>1. e \in InputEvent \cup SyncTest
    BY <1>0 DEF MachineType, InputEvent, Frame
  <2>2. Record(p, e) /\ UNCHANGED <<current_frame, frame_to_play, frame_buffer_full>>
    BY <1>11 DEF Input
  <2> HIDE DEF e
  <2>3. BufferType'
    BY <1>0, <2>1, <2>2, RecordType
  <2>4. HookType'
    BY <1>0, <1>11, SpendType DEF Input, HookType, Outside
  <2> QED BY <1>0, <1>11, <2>3, <2>4 DEF Input, SessionType, MachineType, NetworkType
<1>12. ASSUME NEW p \in Peer, LoseSyncTest(p)
       PROVE  TypeOK'
  <2>1. HookType'
    BY <1>0, <1>12, SpendType DEF LoseSyncTest, HookType, Outside
  <2> QED BY <1>0, <1>12, <2>1
          DEF LoseSyncTest, SessionType, BufferType, MachineType, NetworkType
<1>13. ASSUME NEW p \in Peer, Drift(p)
       PROVE  TypeOK'
  <2>1. HookType'
    BY <1>0, <1>13, SpendType DEF Drift, HookType, Outside
  <2>2. MachineType'
    <3>1. Frame(p) \in Nat
      BY <1>0 DEF MachineType, Frame
    <3> QED BY <1>0, <1>13, <3>1 DEF Drift, MachineType
  <2> QED BY <1>0, <1>13, <2>1, <2>2 DEF Drift, SessionType, BufferType, NetworkType
<1>14. ASSUME NEW p \in Peer, network_suspend(p)
       PROVE  TypeOK'
  <2>1. HookType'
    BY <1>0, <1>14, SpendType DEF network_suspend, HookType, Outside
  <2>2. NetworkType'
    <3>1. CASE SendOk(p, Suspending)
      BY <1>0, <3>1, SendType
    <3>2. CASE UNCHANGED network
      BY <1>0, <3>2 DEF NetworkType
    <3> QED BY <1>14, <3>1, <3>2 DEF network_suspend
  <2> QED BY <1>0, <1>14, <2>1, <2>2 DEF network_suspend, SessionType, BufferType, MachineType
<1>15. ASSUME NEW s \in Peer, NEW c \in Peer, Connect(s, c)
       PROVE  TypeOK'
  <2>1. \A p \in Peer : FreeSlot(p) \in Slot
    <3>1. \A p \in Peer : p = s \/ p = c
      BY <1>15, TwoPeers DEF Connect
    <3> QED BY <1>15, <3>1, FreeSlotIsFree DEF Connect
  <2>2. SessionType'
    BY <1>0, <1>15, <2>1 DEF Connect, SessionType
  <2>3. HookType'
    BY <1>0, <1>15, SpendType DEF Connect, InitFrameEventList, HookType, Outside
  <2>4. BufferType'
    <3>1. InitFrameEventList
      BY <1>15 DEF Connect
    <3>2. EmptyList(0) \in List /\ 0 \in 0..FrameDelta-1
      BY <1>1, EmptyListType
    <3>3. frame_event_list' \in [Peer -> [0..FrameDelta-1 -> List]]
      BY <3>1, <3>2 DEF InitFrameEventList
    <3> QED BY <1>0, <3>1, <3>2, <3>3 DEF InitFrameEventList, BufferType
  <2>5. MachineType' /\ NetworkType'
    <3>1. <<>> \in Seq(Seq(InputEvent)) /\ <<>> \in Seq(List \cup {Suspending})
      OBVIOUS
    <3>2. /\ machine' = [p \in Peer |-> <<>>] /\ drift' = [p \in Peer |-> None]
          /\ channel' = [p \in Peer |-> <<>>] /\ link' = [p \in Peer |-> "up"]
      BY <1>15 DEF Connect
    <3>3. machine' \in [Peer -> Seq(Seq(InputEvent))]
      BY <3>1, <3>2
    <3>4. channel' \in [Peer -> Seq(List \cup {Suspending})]
      BY <3>1, <3>2
    <3> QED BY <3>2, <3>3, <3>4 DEF MachineType, NetworkType
  <2> QED BY <1>0, <2>2, <2>3, <2>4, <2>5
<1>16. CASE UNCHANGED vars
  BY <1>0, <1>16 DEF vars, SessionType, BufferType, HookType, MachineType, NetworkType
<1>17. ASSUME NEW p \in Peer, Emulate(p)
       PROVE  TypeOK'
  BY <1>2, <1>3, <1>4, <1>5, <1>6, <1>7, <1>8, <1>16, <1>17 DEF Emulate, ReceiveSpins
<1> QED
  BY <1>9, <1>10, <1>11, <1>12, <1>13, <1>14, <1>15, <1>16, <1>17 DEF Next, Rest

(* The variables stay in their types, for every number of delayed frames   *)
(* and every size of the socket pool.                                      *)
THEOREM TypeCorrect == Spec => []TypeOK
<1>1. Init => TypeOK
  BY InitType
<1>2. TypeOK /\ [Next]_vars => TypeOK'
  BY NextType
<1> QED BY <1>1, <1>2, PTL DEF Spec

-----------------------------------------------------------------------------
(* What a socket holds.                                                    *)
Stream == Seq(List \cup {Suspending})

(* The lists in a stream, and their frames.                                *)
Lists(ch) == {ch[i] : i \in DOMAIN ch} \ {Suspending}

FramesOf(ch) == {l.frame : l \in Lists(ch)}

(* No list overtakes another.                                              *)
Ordered(ch) ==
  \A i, j \in DOMAIN ch :
    i < j /\ ch[i] # Suspending /\ ch[j] # Suspending => ch[i].frame < ch[j].frame

(* The lists of the frames from .. end - 1, in order.                      *)
Delivers(ch, from, end) == Ordered(ch) /\ FramesOf(ch) = from .. end - 1

(* The lists of a stream are lists.                                        *)
LEMMA ListsType ==
  ASSUME NEW ch \in Stream
  PROVE  \A l \in Lists(ch) : l \in List /\ l.frame \in Nat
BY DEF Stream, Lists, List

(* A stream with nothing in it delivers no frame.                          *)
LEMMA NoLists == \A from \in Nat : Lists(<<>>) = {} /\ Delivers(<<>>, from, from)
<1>1. Lists(<<>>) = {}
  BY DEF Lists
<1>2. FramesOf(<<>>) = {}
  BY <1>1 DEF FramesOf
<1>3. \A from \in Nat : from .. from - 1 = {}
  OBVIOUS
<1>4. DOMAIN <<>> = {}
  OBVIOUS
<1>5. Ordered(<<>>)
  BY <1>4 DEF Ordered
<1> QED BY <1>1, <1>2, <1>3, <1>5 DEF Delivers

(* A suspend marker that is sent changes nothing for the lists.            *)
LEMMA AppendSuspending ==
  ASSUME NEW ch \in Stream
  PROVE  /\ Append(ch, Suspending) # <<>>
         /\ Lists(Append(ch, Suspending)) = Lists(ch)
         /\ Ordered(ch) => Ordered(Append(ch, Suspending))
<1> DEFINE m == Len(ch)
           new == Append(ch, Suspending)
<1>1. /\ ch \in Stream /\ m \in Nat /\ DOMAIN ch = 1..m
      /\ DOMAIN new = 1..m+1
      /\ \A i \in 1..m : new[i] = ch[i]
      /\ new[m+1] = Suspending
      /\ new # <<>>
  BY DEF Stream
<1> HIDE DEF m, new
<1>2. Lists(new) = Lists(ch)
  <2>1. ASSUME NEW l \in Lists(ch) PROVE l \in Lists(new)
    BY <1>1 DEF Lists
  <2>2. ASSUME NEW l \in Lists(new) PROVE l \in Lists(ch)
    <3>1. PICK i \in 1..m+1 : l = new[i] /\ l # Suspending
      BY <1>1 DEF Lists
    <3>2. i \in 1..m
      BY <1>1, <3>1
    <3> QED BY <1>1, <3>1, <3>2 DEF Lists
  <2> QED BY <2>1, <2>2
<1>3. Ordered(ch) => Ordered(new)
  <2>1. \A i \in 1..m+1 : new[i] # Suspending => i \in 1..m
    BY <1>1
  <2> QED BY <1>1, <2>1 DEF Ordered
<1> QED BY <1>1, <1>2, <1>3 DEF new

(* A list that is sent is the last that is delivered.                      *)
LEMMA AppendList ==
  ASSUME NEW ch \in Stream, NEW l \in List
  PROVE  /\ Append(ch, l) # <<>>
         /\ Lists(Append(ch, l)) = Lists(ch) \cup {l}
         /\ \A from, end \in Nat :
              Delivers(ch, from, end) /\ from <= end /\ l.frame = end
                => Delivers(Append(ch, l), from, end + 1)
<1> DEFINE m == Len(ch)
           new == Append(ch, l)
<1>1. /\ m \in Nat /\ DOMAIN ch = 1..m
      /\ DOMAIN new = 1..m+1
      /\ \A i \in 1..m : new[i] = ch[i]
      /\ new[m+1] = l
      /\ new # <<>>
      /\ l # Suspending
  BY SuspendingAssumption DEF Stream
<1> HIDE DEF m, new
<1>2. Lists(new) = Lists(ch) \cup {l}
  <2>1. ASSUME NEW k \in Lists(ch) \cup {l} PROVE k \in Lists(new)
    BY <1>1 DEF Lists
  <2>2. ASSUME NEW k \in Lists(new) PROVE k \in Lists(ch) \cup {l}
    <3>1. PICK i \in 1..m+1 : k = new[i] /\ k # Suspending
      BY <1>1 DEF Lists
    <3>2. CASE i \in 1..m
      BY <1>1, <3>1, <3>2 DEF Lists
    <3>3. CASE i = m + 1
      BY <1>1, <3>1, <3>3
    <3> QED BY <1>1, <3>2, <3>3
  <2> QED BY <2>1, <2>2
<1>3. ASSUME NEW from \in Nat, NEW end \in Nat,
             Delivers(ch, from, end), from <= end, l.frame = end
      PROVE  Delivers(new, from, end + 1)
  <2>1. FramesOf(new) = FramesOf(ch) \cup {l.frame}
    BY <1>2 DEF FramesOf
  <2>2. FramesOf(new) = from .. (end + 1) - 1
    <3>1. FramesOf(ch) = from .. end - 1
      BY <1>3 DEF Delivers
    <3> QED BY <2>1, <3>1, <1>3
  <2>3. ASSUME NEW i \in 1..m+1, NEW j \in 1..m+1, i < j,
               new[i] # Suspending, new[j] # Suspending
        PROVE  new[i].frame < new[j].frame
    <3>1. i \in 1..m
      BY <1>1, <2>3
    <3>2. CASE j \in 1..m
      BY <1>1, <1>3, <2>3, <3>1, <3>2 DEF Delivers, Ordered
    <3>3. CASE j = m + 1
      <4>1. new[i].frame \in FramesOf(ch)
        BY <1>1, <2>3, <3>1 DEF FramesOf, Lists
      <4>2. new[i].frame \in from .. end - 1
        BY <1>3, <4>1 DEF Delivers
      <4> QED BY <1>1, <1>3, <3>3, <4>2
    <3> QED BY <1>1, <3>2, <3>3
  <2> QED BY <1>1, <2>2, <2>3 DEF Delivers, Ordered
<1> QED BY <1>1, <1>2, <1>3 DEF new

(* The rest of a stream is in order; if a list was taken out, it was the   *)
(* first, and the others follow it.                                        *)
LEMMA TailOrdered ==
  ASSUME NEW ch \in Stream, ch # <<>>, Ordered(ch)
  PROVE  /\ Ordered(Tail(ch)) /\ Tail(ch) \in Stream
         /\ Lists(ch) = Lists(Tail(ch)) \cup ({Head(ch)} \ {Suspending})
         /\ Head(ch) # Suspending =>
              \A l \in Lists(Tail(ch)) : Head(ch).frame < l.frame
<1> DEFINE m == Len(ch)
           rest == Tail(ch)
<1>1. /\ m \in Nat /\ m > 0 /\ DOMAIN ch = 1..m
      /\ DOMAIN rest = 1..m-1
      /\ \A i \in 1..m-1 : rest[i] = ch[i+1]
      /\ Head(ch) = ch[1]
      /\ rest \in Stream
  BY DEF Stream
<1> HIDE DEF m, rest
<1>2. Ordered(rest)
  <2>1. ASSUME NEW i \in 1..m-1, NEW j \in 1..m-1, i < j,
               rest[i] # Suspending, rest[j] # Suspending
        PROVE  rest[i].frame < rest[j].frame
    <3>1. i + 1 \in 1..m /\ j + 1 \in 1..m /\ i + 1 < j + 1
      BY <1>1, <2>1
    <3> QED BY <1>1, <2>1, <3>1 DEF Ordered
  <2> QED BY <1>1, <2>1 DEF Ordered
<1>3. Lists(ch) = Lists(rest) \cup ({Head(ch)} \ {Suspending})
  <2>1. ASSUME NEW l \in Lists(ch)
        PROVE  l \in Lists(rest) \cup ({Head(ch)} \ {Suspending})
    <3>1. PICK i \in 1..m : l = ch[i] /\ l # Suspending
      BY <1>1 DEF Lists
    <3>2. CASE i = 1
      BY <1>1, <3>1, <3>2
    <3>3. CASE i # 1
      <4>1. i - 1 \in 1..m-1 /\ rest[i-1] = l
        BY <1>1, <3>1, <3>3
      <4> QED BY <1>1, <3>1, <4>1 DEF Lists
    <3> QED BY <3>2, <3>3
  <2>2. ASSUME NEW l \in Lists(rest)
        PROVE  l \in Lists(ch)
    <3>1. PICK i \in 1..m-1 : l = rest[i] /\ l # Suspending
      BY <1>1 DEF Lists
    <3>2. i + 1 \in 1..m /\ l = ch[i+1]
      BY <1>1, <3>1
    <3> QED BY <1>1, <3>1, <3>2 DEF Lists
  <2>3. Head(ch) # Suspending => Head(ch) \in Lists(ch)
    <3>1. 1 \in 1..m
      BY <1>1
    <3> QED BY <1>1, <3>1 DEF Lists
  <2> QED BY <2>1, <2>2, <2>3
<1>4. ASSUME Head(ch) # Suspending, NEW l \in Lists(rest)
      PROVE  Head(ch).frame < l.frame
  <2>1. PICK i \in 1..m-1 : l = rest[i] /\ l # Suspending
    BY <1>1 DEF Lists
  <2>2. 1 \in 1..m /\ i + 1 \in 1..m /\ 1 < i + 1 /\ l = ch[i+1]
    BY <1>1, <2>1
  <2> QED BY <1>1, <1>4, <2>1, <2>2 DEF Ordered
<1> QED BY <1>1, <1>2, <1>3, <1>4 DEF rest

(* A suspend marker that is read changes nothing for the lists.            *)
LEMMA TailSuspending ==
  ASSUME NEW ch \in Stream, ch # <<>>, Head(ch) = Suspending, Ordered(ch)
  PROVE  Lists(Tail(ch)) = Lists(ch) /\ Ordered(Tail(ch))
BY TailOrdered

(* A list that is read is that of the first frame that is delivered.       *)
LEMMA TailList ==
  ASSUME NEW ch \in Stream, ch # <<>>, Head(ch) # Suspending,
         NEW from \in Nat, NEW end \in Nat, Delivers(ch, from, end)
  PROVE  /\ Head(ch) \in Lists(ch) /\ Head(ch) \in List
         /\ Head(ch).frame = from /\ from < end
         /\ Delivers(Tail(ch), from + 1, end)
         /\ Lists(Tail(ch)) \subseteq Lists(ch)
         /\ \A l \in Lists(Tail(ch)) : from < l.frame
<1>1. /\ Ordered(Tail(ch)) /\ Tail(ch) \in Stream
      /\ Lists(ch) = Lists(Tail(ch)) \cup {Head(ch)}
      /\ \A l \in Lists(Tail(ch)) : Head(ch).frame < l.frame
  BY TailOrdered DEF Delivers
<1> DEFINE h == Head(ch).frame
<1>2. FramesOf(ch) = FramesOf(Tail(ch)) \cup {h}
  BY <1>1 DEF FramesOf
<1>3. FramesOf(ch) = from .. end - 1
  BY DEF Delivers
<1>4. \A n \in FramesOf(Tail(ch)) : h < n
  BY <1>1 DEF FramesOf
<1> HIDE DEF h
<1>5. h = from /\ from < end
  <2>1. h \in from .. end - 1
    BY <1>2, <1>3
  <2>2. from \in FramesOf(ch)
    BY <1>3, <2>1
  <2> QED BY <1>2, <1>4, <2>1, <2>2
<1>6. FramesOf(Tail(ch)) = (from + 1) .. end - 1
  <2>1. FramesOf(Tail(ch)) \subseteq from .. end - 1
    BY <1>2, <1>3
  <2>2. \A n \in from .. end - 1 : n \in FramesOf(Tail(ch)) <=> n # from
    BY <1>2, <1>3, <1>4, <1>5
  <2>3. \A n : n \in (from + 1) .. end - 1 <=> n \in from .. end - 1 /\ n # from
    OBVIOUS
  <2> QED BY <2>1, <2>2, <2>3
<1>7. Head(ch) \in Lists(ch) /\ Head(ch) \in List
  BY <1>1, ListsType
<1> QED BY <1>1, <1>4, <1>5, <1>6, <1>7 DEF Delivers, h


-----------------------------------------------------------------------------
(* The frames whose lists p has sent, as long as it could.                 *)
Sent(p) == IF pc[p] = "receive" THEN Frame(p) + 1 ELSE Frame(p)

(* The ring of p still holds the list of frame n.                          *)
Holds(p, n) == n <= Frame(p) /\ Frame(p) < n + FrameDelta

(* Where the ring keeps the list of frame n.                               *)
OwnList(p, n) == frame_event_list[p][n % FrameDelta]

(* The session has not ended on either side.                               *)
BothLive(p) == Live(p) /\ Live(Other(p))

(* What a side replays of its own list and of the other side's.            *)
Merged(side, own, remote) ==
  IF side = "server connected" THEN Inputs(own) \o Inputs(remote)
  ELSE Inputs(remote) \o Inputs(own)

-----------------------------------------------------------------------------
(* A session has a socket in the pool.                                     *)
HasSocket(p) == Connected(p) => Open(p)

(* While both have a session, it is the same one: the stream is whole and  *)
(* one is the server.  A peer that is alone in it will learn so.           *)
Linked(p) ==
  /\ BothLive(p) => /\ link[p] = "up"
                    /\ mode[p] = "server connected" <=> mode[Other(p)] = "client"
  /\ Live(p) /\ link[p] = "up" => Live(Other(p))

(* The ring: its indices follow the frame number, it holds the lists of    *)
(* the last FrameDelta frames, and is full as soon as one of them is due.  *)
Ring(p) ==
  /\ current_frame[p] = Frame(p) % FrameDelta
  /\ Frame(p) > 0 => frame_to_play[p] = (Frame(p) + 1) % FrameDelta
  /\ \A n \in Nat : Holds(p, n) => OwnList(p, n).frame = n
  /\ frame_buffer_full[p] => Frame(p) >= FrameDelta - 1
  /\ ~frame_buffer_full[p] => Sent(p) <= FrameDelta - 1

(* The first frames replay nothing.                                        *)
Quiet(p) == \A k \in 1..Frame(p) : k < FrameDelta => machine[p][k] = <<>>

(* The histories agree as far as both have come.                           *)
Agree(p) ==
  \A k \in 1..Frame(p) : k <= Frame(Other(p)) => machine[p][k] = machine[Other(p)][k]

(* The stream delivers the lists from the one that is due to the last one  *)
(* that was sent, which is not ahead of the frame of the other side.       *)
Delivered(p) ==
  Live(p) =>
    \E end \in Nat :
      /\ Played(p) <= end
      /\ end <= Frame(Other(p)) + 1
      /\ Live(Other(p)) => end = Sent(Other(p))
      /\ Delivers(channel[p], Played(p), end)

(* Can p still receive a list?                                             *)
Reads(p) == Live(p) /\ (link[p] # "reset" \/ channel[p] # <<>>)

(* As long as p can receive lists the other side is not too far ahead.     *)
Near(p) == Reads(p) => Frame(Other(p)) < Sent(p) + FrameDelta

(* A list of p that is under way is the one that p holds itself.           *)
SameLists(p) ==
  BothLive(p) =>
    \A l \in Lists(channel[Other(p)]) : Holds(p, l.frame) => l = OwnList(p, l.frame)

(* What p will replay with a list that waits for it, the other side has    *)
(* replayed, if it has come to that frame.                                 *)
Consistent(p) ==
  Live(p) =>
    \A l \in Lists(channel[p]) :
      l.frame + FrameDelta <= Frame(Other(p)) =>
        machine[Other(p)][l.frame + FrameDelta] = Merged(mode[p], OwnList(p, l.frame), l)

(* Neither machine has gone its own way.                                   *)
NoDrift == \A q \in Peer : drift[q] = None

(* A sync test shows what p had replayed when it was taken.                *)
TestOf(p, l) ==
  OpensWithTest(l) =>
    Head(l.events).data = RegistersOf(SubSeq(machine[p], 1, l.frame), None)

(* As long as the machines do the same, all sync tests show so.            *)
Honest(p) ==
  NoDrift =>
    /\ \A n \in Nat : Holds(p, n) => TestOf(p, OwnList(p, n))
    /\ Live(p) => \A l \in Lists(channel[p]) : TestOf(Other(p), l)

(* The error is raised for machines that do not.                           *)
Alarmed(p) == out_of_sync[p] => ~NoDrift

(* The invariant, of one peer.                                             *)
InvOf(p) ==
  /\ HasSocket(p) /\ Linked(p) /\ Ring(p) /\ Quiet(p) /\ Agree(p) /\ Delivered(p)
  /\ Near(p) /\ SameLists(p) /\ Consistent(p) /\ Honest(p) /\ Alarmed(p)

-----------------------------------------------------------------------------
(* The types of what the invariant speaks of, before and after a step.     *)
LEMMA PeerTypes ==
  ASSUME TypeOK, TypeOK', NEW p \in Peer
  PROVE  /\ Frame(p) \in Nat /\ Frame(p)' \in Nat
         /\ Sent(p) \in Nat /\ Sent(p)' \in Nat
         /\ Played(p) \in Nat /\ Played(p)' \in Nat
         /\ channel[p] \in Stream /\ channel'[p] \in Stream
         /\ machine[p] \in Seq(Seq(InputEvent)) /\ DOMAIN machine[p] = 1..Frame(p)
         /\ \A n \in Nat : OwnList(p, n) \in List /\ OwnList(p, n)' \in List
<1>1. FrameDelta \in Nat /\ FrameDelta >= 2
  BY FrameDeltaAssumption
<1>2. machine[p] \in Seq(Seq(InputEvent)) /\ machine'[p] \in Seq(Seq(InputEvent))
  BY DEF TypeOK
<1>3. Frame(p) \in Nat /\ Frame(p)' \in Nat /\ DOMAIN machine[p] = 1..Frame(p)
  BY <1>2 DEF Frame
<1>4. channel[p] \in Stream /\ channel'[p] \in Stream
  BY DEF TypeOK, Stream
<1>5. \A n \in Nat : n % FrameDelta \in 0..FrameDelta-1
  BY <1>1, ModFacts
<1>6. \A n \in Nat : OwnList(p, n) \in List /\ OwnList(p, n)' \in List
  BY <1>5 DEF OwnList, TypeOK
<1> QED BY <1>1, <1>2, <1>3, <1>4, <1>6 DEF Sent, Played

(* A side that ends its session: the other side keeps its own, and learns  *)
(* that the stream has an end.                                             *)
LEMMA Disconnects ==
  ASSUME TypeOK, NEW a \in Peer, NEW b \in Peer, b = Other(a), NEW u,
         InvOf(a), InvOf(b), Disconnect(a, u)
  PROVE  /\ ~Connected(a)' /\ ~Live(a)'
         /\ mode'[b] = mode[b] /\ Connected(b)' = Connected(b) /\ Open(b)' = Open(b)
         /\ channel'[b] = channel[b] \/ channel'[b] = <<>>
         /\ Live(b)' => link'[b] # "up"
         /\ Reads(b)' => Reads(b)
<1>1. a # b /\ Other(a) = b /\ Other(b) = a
  BY TwoPeers
<1>2. ~Connected(a)' /\ ~Live(a)'
  BY DEF Disconnect, Connected, Live, TypeOK
<1>3. mode'[b] = mode[b] /\ Connected(b)' = Connected(b) /\ Open(b)' = Open(b)
  BY <1>1 DEF Disconnect, Connected, Open, TypeOK
<1>4. Live(b)' = Live(b)
  BY <1>3 DEF Live
<1>5. CASE Live(a)
  <2>1. CloseStream(a, u)
    BY <1>5 DEF Disconnect
  <2>2. channel'[b] = channel[b] \/ channel'[b] = <<>>
    BY <1>1, <2>1 DEF CloseStream, TypeOK
  <2>3. Live(b)' => link'[b] # "up"
    BY <1>1, <1>4, <2>1 DEF CloseStream, TypeOK
  <2>4. Reads(b)' => Reads(b)
    BY <1>1, <1>4, <2>1 DEF CloseStream, TypeOK, Reads
  <2> QED BY <1>2, <1>3, <2>2, <2>3, <2>4
<1>6. CASE ~Live(a)
  <2>1. UNCHANGED <<channel, link>>
    BY <1>6 DEF Disconnect, network
  <2>2. Live(b)' => link'[b] # "up"
    BY <1>1, <1>4, <1>6, <2>1 DEF InvOf, Linked
  <2>3. Reads(b)' => Reads(b)
    BY <1>4, <2>1 DEF Reads
  <2> QED BY <1>2, <1>3, <2>1, <2>2, <2>3
<1> QED BY <1>5, <1>6

(* A frame that ends: the history and the ring grow by one, and the ring   *)
(* loses the list that was recorded FrameDelta frames before.              *)
LEMMA Finishes ==
  ASSUME TypeOK, TypeOK', NEW a \in Peer, NEW b \in Peer, b # a,
         NEW events \in Seq(InputEvent), Ring(a), FinishFrame(a, events)
  PROVE  /\ Frame(a)' = Frame(a) + 1 /\ Frame(b)' = Frame(b)
         /\ pc'[a] = "run" /\ pc'[b] = pc[b]
         /\ machine'[a] = Append(machine[a], events)
         /\ \A k \in 1..Frame(a) : machine'[a][k] = machine[a][k]
         /\ machine'[a][Frame(a) + 1] = events
         /\ machine'[b] = machine[b]
         /\ \A n \in Nat : n <= Frame(a) /\ Frame(a) + 1 < n + FrameDelta
                             => OwnList(a, n)' = OwnList(a, n)
         /\ \A n \in Nat : n = Frame(a) + 1 => OwnList(a, n)' = EmptyList(n)
         /\ \A n \in Nat : OwnList(b, n)' = OwnList(b, n)
         /\ current_frame'[a] = (Frame(a) + 1) % FrameDelta
         /\ frame_to_play'[a] = ((Frame(a) + 1) + 1) % FrameDelta
         /\ current_frame'[b] = current_frame[b] /\ frame_to_play'[b] = frame_to_play[b]
<1>1. FrameDelta \in Nat /\ FrameDelta > 0 /\ Frame(a) \in Nat /\ Frame(a) + 1 \in Nat
  BY FrameDeltaAssumption, PeerTypes
<1> DEFINE F == Frame(a)
           next == (F + 1) % FrameDelta
<1>2. next = (current_frame[a] + 1) % FrameDelta
  BY <1>1, ModFacts DEF Ring
<1>3. FrameToPlay(next) = ((F + 1) + 1) % FrameDelta
  BY <1>1, ModFacts DEF FrameToPlay
<1>4. next \in 0..FrameDelta-1
  BY <1>1, ModFacts
<1>5. /\ current_frame' = [current_frame EXCEPT ![a] = next]
      /\ frame_to_play' = [frame_to_play EXCEPT ![a] = FrameToPlay(next)]
      /\ frame_event_list' = [frame_event_list EXCEPT ![a][next] = EmptyList(F + 1)]
      /\ machine' = [machine EXCEPT ![a] = Append(@, events)]
      /\ pc' = [pc EXCEPT ![a] = "run"]
  BY <1>2 DEF FinishFrame
<1>6. /\ F \in Nat /\ machine[a] \in Seq(Seq(InputEvent)) /\ Len(machine[a]) = F
      /\ machine \in [Peer -> Seq(Seq(InputEvent))]
  BY <1>1 DEF Frame, TypeOK
<1>7. \A n \in Nat : n <= F /\ F + 1 < n + FrameDelta => n % FrameDelta # next
  <2>1. ASSUME NEW n \in Nat, n <= F, F + 1 < n + FrameDelta, n % FrameDelta = next
        PROVE  FALSE
    <3>1. n <= F + 1 /\ F + 1 \in Nat
      BY <1>6, <2>1
    <3>2. n = F + 1
      BY <1>1, <2>1, <3>1, ModFacts
    <3> QED BY <1>6, <2>1, <3>2
  <2> QED BY <2>1
<1> HIDE DEF next
<1>8. machine'[a] = Append(machine[a], events) /\ machine'[b] = machine[b]
  BY <1>5, <1>6
<1>9. /\ Len(machine'[a]) = F + 1
      /\ \A k \in 1..F : machine'[a][k] = machine[a][k]
      /\ machine'[a][F + 1] = events
  <2> HIDE DEF F
  <2> QED BY <1>6, <1>8
<1>10. Frame(a)' = F + 1 /\ Frame(b)' = Frame(b)
  BY <1>8, <1>9 DEF Frame
<1>11. /\ frame_event_list'[b] = frame_event_list[b]
       /\ \A i \in 0..FrameDelta-1 : i # next => frame_event_list'[a][i] = frame_event_list[a][i]
       /\ frame_event_list'[a][next] = EmptyList(F + 1)
  <2> DEFINE new == EmptyList(F + 1)
  <2>1. /\ frame_event_list \in [Peer -> [0..FrameDelta-1 -> List]]
        /\ frame_event_list' = [frame_event_list EXCEPT ![a][next] = new]
    BY <1>5 DEF TypeOK
  <2> HIDE DEF new
  <2>2. /\ frame_event_list'[b] = frame_event_list[b]
        /\ \A i \in 0..FrameDelta-1 : i # next => frame_event_list'[a][i] = frame_event_list[a][i]
        /\ frame_event_list'[a][next] = new
    BY <1>4, <2>1
  <2> QED BY <2>2 DEF new
<1>12. \A n \in Nat : n <= F /\ F + 1 < n + FrameDelta => OwnList(a, n)' = OwnList(a, n)
  <2>1. \A n \in Nat : n % FrameDelta \in 0..FrameDelta-1
    BY <1>1, ModFacts
  <2> QED BY <1>7, <1>11, <2>1 DEF OwnList
<1>13. \A n \in Nat : n = F + 1 => OwnList(a, n)' = EmptyList(n)
  BY <1>11 DEF OwnList, next
<1>14. \A n \in Nat : OwnList(b, n)' = OwnList(b, n)
  BY <1>11 DEF OwnList
<1>15. /\ current_frame'[a] = next /\ frame_to_play'[a] = FrameToPlay(next)
       /\ current_frame'[b] = current_frame[b] /\ frame_to_play'[b] = frame_to_play[b]
       /\ pc'[a] = "run" /\ pc'[b] = pc[b]
  <2>1. /\ current_frame \in [Peer -> 0..FrameDelta-1]
        /\ frame_to_play \in [Peer -> 0..FrameDelta-1]
        /\ pc \in [Peer -> {"run", "receive"}]
    BY DEF TypeOK
  <2> HIDE DEF F
  <2> QED BY <1>5, <2>1
<1> QED
  BY <1>3, <1>8, <1>9, <1>10, <1>12, <1>13, <1>14, <1>15 DEF next

-----------------------------------------------------------------------------
(* The list that is due: it was recorded FrameDelta - 1 frames ago, in the *)
(* same frame as the one in the ring that it meets, and the other side has *)
(* at least come to that frame.                                            *)
LEMMA ListMeets ==
  ASSUME TypeOK, TypeOK', NEW a \in Peer, NEW b \in Peer, b = Other(a),
         InvOf(a), InvOf(b), Waiting(a), Live(a),
         channel[a] # <<>>, Head(channel[a]) # Suspending,
         NEW h, h = Head(channel[a]), NEW n, n = Played(a),
         NEW own, own = frame_event_list[a][frame_to_play[a]]
  PROVE  /\ n \in Nat /\ h \in List /\ h.frame = n /\ h \in Lists(channel[a])
         /\ Frame(a) + 1 = n + FrameDelta /\ n <= Frame(b)
         /\ own = OwnList(a, n) /\ own \in List /\ Holds(a, n)
         /\ \E end \in Nat : /\ n < end /\ end <= Frame(b) + 1
                             /\ Live(b) => end = Sent(b)
                             /\ Delivers(channel[a], n, end)
                             /\ Delivers(Tail(channel[a]), n + 1, end)
         /\ Tail(channel[a]) \in Stream
         /\ Lists(Tail(channel[a])) \subseteq Lists(channel[a])
         /\ \A l \in Lists(Tail(channel[a])) : n < l.frame
<1>1. FrameDelta \in Nat /\ FrameDelta >= 2
  BY FrameDeltaAssumption
<1>2. /\ Frame(a) \in Nat /\ Frame(b) \in Nat /\ n \in Nat
      /\ channel[a] \in Stream /\ OwnList(a, n) \in List
  BY PeerTypes
<1>3. Frame(a) + 1 = n + FrameDelta
  <2>1. Frame(a) >= FrameDelta - 1
    BY DEF InvOf, Ring, Waiting
  <2> QED BY <1>1, <1>2, <2>1 DEF Played
<1>4. Holds(a, n)
  BY <1>1, <1>2, <1>3 DEF Holds
<1>5. own = OwnList(a, n)
  <2>1. frame_to_play[a] = (n + FrameDelta) % FrameDelta
    BY <1>1, <1>2, <1>3 DEF InvOf, Ring
  <2>2. (n + FrameDelta) % FrameDelta = n % FrameDelta
    BY <1>1, <1>2, ModAgain
  <2> QED BY <2>1, <2>2 DEF OwnList
<1>6. PICK end \in Nat : /\ end <= Frame(b) + 1
                         /\ Live(b) => end = Sent(b)
                         /\ Delivers(channel[a], n, end)
  BY DEF InvOf, Delivered
<1>7. /\ h \in Lists(channel[a]) /\ h \in List /\ h.frame = n /\ n < end
      /\ Delivers(Tail(channel[a]), n + 1, end)
      /\ Lists(Tail(channel[a])) \subseteq Lists(channel[a])
      /\ \A l \in Lists(Tail(channel[a])) : n < l.frame
  BY <1>2, <1>6, TailList
<1>8. Tail(channel[a]) \in Stream
  BY <1>2 DEF Stream
<1> QED BY <1>2, <1>3, <1>4, <1>5, <1>6, <1>7, <1>8

(* The invariant after a frame, from what is particular to the two ways a  *)
(* frame ends: with a list of the other side, and with nothing to play.    *)
LEMMA FrameEnds ==
  ASSUME TypeOK, TypeOK', NEW a \in Peer, NEW b \in Peer, b = Other(a),
         InvOf(a), InvOf(b), NEW events \in Seq(InputEvent),
         FinishFrame(a, events), UNCHANGED <<frame_buffer_full, drift>>,
         pc[a] = "receive",
         \* what is replayed
         Frame(a) + 1 < FrameDelta => events = <<>>,
         Frame(a) + 1 <= Frame(b) => events = machine[b][Frame(a) + 1],
         Live(b) => Frame(a) + 1 < Sent(b) + FrameDelta,
         Live(b) => \A l \in Lists(channel[b]) : l.frame + FrameDelta = Frame(a) + 1
                      => events = Merged(mode[b], OwnList(b, l.frame), l),
         \* the session
         HasSocket(a)', HasSocket(b)', Linked(a)', Linked(b)', Delivered(a)',
         Live(a)' => /\ Live(a) /\ mode'[a] = mode[a] /\ (Live(b)' <=> Live(b))
                     /\ Lists(channel'[a]) \subseteq Lists(channel[a])
                     /\ Reads(a)' => Reads(a),
         Live(b)' => /\ Live(b) /\ mode'[b] = mode[b]
                     /\ channel'[b] = channel[b] \/ (~Live(a)' /\ channel'[b] = <<>>)
                     /\ Reads(b)' => Reads(b),
         Alarmed(a)', Alarmed(b)'
  PROVE  InvOf(a)' /\ InvOf(b)'
<1> DEFINE F == Frame(a)
           G == Frame(b)
<1>1. FrameDelta \in Nat /\ FrameDelta >= 2
  BY FrameDeltaAssumption
<1>2. a # b /\ b # a /\ Other(a) = b /\ Other(b) = a
  BY TwoPeers
<1>3. /\ F \in Nat /\ G \in Nat /\ Sent(a) \in Nat /\ Sent(b) \in Nat
      /\ Played(a) \in Nat /\ Played(b) \in Nat /\ Played(a)' \in Nat
      /\ channel[a] \in Stream /\ channel[b] \in Stream
      /\ channel'[a] \in Stream /\ channel'[b] \in Stream
      /\ machine[a] \in Seq(Seq(InputEvent)) /\ DOMAIN machine[a] = 1..F
  BY PeerTypes
<1>4. /\ Ring(a) /\ Ring(b) /\ Quiet(a) /\ Quiet(b) /\ Agree(a) /\ Agree(b)
      /\ Delivered(a) /\ Delivered(b) /\ Near(a) /\ Near(b) /\ SameLists(a) /\ SameLists(b)
      /\ Consistent(a) /\ Consistent(b) /\ Honest(a) /\ Honest(b)
  BY DEF InvOf
<1>5. /\ Frame(a)' = F + 1 /\ Frame(b)' = G
      /\ pc'[a] = "run" /\ pc'[b] = pc[b]
      /\ machine'[a] = Append(machine[a], events)
      /\ \A k \in 1..F : machine'[a][k] = machine[a][k]
      /\ machine'[a][F + 1] = events
      /\ machine'[b] = machine[b]
      /\ \A n \in Nat : n <= F /\ F + 1 < n + FrameDelta => OwnList(a, n)' = OwnList(a, n)
      /\ \A n \in Nat : n = F + 1 => OwnList(a, n)' = EmptyList(n)
      /\ \A n \in Nat : OwnList(b, n)' = OwnList(b, n)
      /\ current_frame'[a] = (F + 1) % FrameDelta
      /\ frame_to_play'[a] = ((F + 1) + 1) % FrameDelta
      /\ current_frame'[b] = current_frame[b] /\ frame_to_play'[b] = frame_to_play[b]
  BY <1>2, <1>4, Finishes
<1>6. /\ Sent(a) = F + 1 /\ Sent(a)' = F + 1 /\ Sent(b)' = Sent(b)
      /\ Played(b)' = Played(b)
  BY <1>5 DEF Sent, Played
<1>7. /\ \A n : Holds(a, n) <=> n <= F /\ F < n + FrameDelta
      /\ \A n : Holds(a, n)' <=> n <= F + 1 /\ F + 1 < n + FrameDelta
      /\ \A n : Holds(b, n)' <=> Holds(b, n)
  BY <1>5 DEF Holds
<1>8. NoDrift' => NoDrift
  BY DEF NoDrift
<1>9. /\ F + 1 < FrameDelta => events = <<>>
      /\ F + 1 <= G => events = machine[b][F + 1]
      /\ Live(b) => F + 1 < Sent(b) + FrameDelta
  OBVIOUS
<1> HIDE DEF F, G
<1>10. Ring(a)'
  <2>1. \A n \in Nat : Holds(a, n)' => OwnList(a, n)'.frame = n
    <3>1. ASSUME NEW n \in Nat, Holds(a, n)'
          PROVE  OwnList(a, n)'.frame = n
      <4>1. CASE n = F + 1
        BY <1>5, <4>1 DEF EmptyList
      <4>2. CASE n # F + 1
        <5>1. n <= F /\ F + 1 < n + FrameDelta /\ F < n + FrameDelta
          BY <1>1, <1>3, <1>7, <3>1, <4>2
        <5> QED BY <1>4, <1>5, <1>7, <5>1 DEF Ring
      <4> QED BY <4>1, <4>2
    <3> QED BY <3>1
  <2>2. frame_buffer_full'[a] => F + 1 >= FrameDelta - 1
    BY <1>1, <1>3, <1>4 DEF Ring, F
  <2>3. ~frame_buffer_full'[a] => F + 1 <= FrameDelta - 1
    BY <1>4, <1>6 DEF Ring
  <2> QED BY <1>5, <1>6, <2>1, <2>2, <2>3 DEF Ring
<1>11. Ring(b)'
  <2>1. \A n \in Nat : Holds(b, n)' => OwnList(b, n)'.frame = n
    BY <1>4, <1>5, <1>7 DEF Ring
  <2> QED BY <1>4, <1>5, <1>6, <2>1 DEF Ring, G
<1>12. Quiet(a)' /\ Quiet(b)'
  <2>1. \A k \in 1..F+1 : k < FrameDelta => machine'[a][k] = <<>>
    <3>1. \A k \in 1..F+1 : k = F + 1 \/ k \in 1..F
      BY <1>3
    <3> QED BY <1>4, <1>5, <1>9, <3>1 DEF Quiet, F
  <2> QED BY <1>4, <1>5, <2>1 DEF Quiet, G
<1>13. Agree(a)' /\ Agree(b)'
  <2>1. ASSUME NEW k \in 1..F+1, k <= G
        PROVE  machine'[a][k] = machine'[b][k]
    <3>1. CASE k = F + 1
      BY <1>5, <1>9, <2>1, <3>1
    <3>2. CASE k \in 1..F
      <4>1. machine[a][k] = machine[b][k]
        BY <1>2, <1>4, <2>1, <3>2 DEF Agree, F, G
      <4> QED BY <1>5, <3>2, <4>1
    <3> QED BY <1>3, <3>1, <3>2
  <2>2. Agree(a)'
    BY <1>2, <1>5, <2>1 DEF Agree
  <2>3. \A k \in 1..G : k <= F + 1 => k \in 1..F+1 /\ k <= G
    BY <1>3
  <2>4. Agree(b)'
    BY <1>2, <1>5, <2>1, <2>3 DEF Agree
  <2> QED BY <2>2, <2>4
<1>14. Delivered(b)'
  <2>1. ASSUME Live(b)'
        PROVE  \E end \in Nat : /\ Played(b)' <= end
                                /\ end <= Frame(a)' + 1
                                /\ Live(a)' => end = Sent(a)'
                                /\ Delivers(channel'[b], Played(b)', end)
    <3>1. PICK end \in Nat : /\ Played(b) <= end
                             /\ end <= F + 1
                             /\ Live(a) => end = Sent(a)
                             /\ Delivers(channel[b], Played(b), end)
      BY <1>2, <1>4, <2>1 DEF Delivered, F
    <3>2. CASE channel'[b] = channel[b]
      BY <1>3, <1>5, <1>6, <3>1, <3>2
    <3>3. CASE ~Live(a)' /\ channel'[b] = <<>>
      <4>1. Delivers(channel'[b], Played(b), Played(b))
        BY <1>3, <3>3, NoLists
      <4> QED BY <1>3, <1>5, <1>6, <3>1, <3>3, <4>1
    <3> QED BY <2>1, <3>2, <3>3
  <2> QED BY <1>2, <2>1 DEF Delivered
<1>15. Near(a)' /\ Near(b)'
  <2>1. Near(a)'
    <3>1. Reads(a)' => Live(a)'
      BY DEF Reads
    <3> QED BY <1>2, <1>4, <1>5, <1>6, <3>1 DEF Near, G
  <2>2. Near(b)'
    <3>1. Reads(b)' => Live(b)'
      BY DEF Reads
    <3> QED BY <1>2, <1>5, <1>6, <1>9, <3>1 DEF Near
  <2> QED BY <2>1, <2>2
<1>16. SameLists(a)'
  <2> SUFFICES ASSUME Live(a)', Live(b)', NEW l \in Lists(channel'[b]), Holds(a, l.frame)'
               PROVE  l = OwnList(a, l.frame)'
    BY <1>2 DEF SameLists, BothLive
  <2>1. l \in Lists(channel[b]) /\ l.frame \in Nat
    BY <1>3, ListsType
  <2>2. l.frame <= F
    <3>1. PICK end \in Nat : end = F + 1 /\ FramesOf(channel[b]) = Played(b) .. end - 1
      BY <1>2, <1>4, <1>6 DEF Delivered, Delivers
    <3> QED BY <1>3, <2>1, <3>1 DEF FramesOf
  <2>3. F + 1 < l.frame + FrameDelta
    BY <1>7
  <2>4. Holds(a, l.frame)
    BY <1>1, <1>3, <1>7, <2>1, <2>2, <2>3
  <2>5. l = OwnList(a, l.frame)
    BY <1>2, <1>4, <2>1, <2>4 DEF SameLists, BothLive
  <2>6. \A n \in Nat : n = l.frame => OwnList(a, n)' = OwnList(a, n)
    BY <1>5, <2>2, <2>3
  <2> QED BY <2>1, <2>5, <2>6
<1>17. SameLists(b)'
  <2> SUFFICES ASSUME Live(a)', Live(b)', NEW l \in Lists(channel'[a]), Holds(b, l.frame)'
               PROVE  l = OwnList(b, l.frame)'
    BY <1>2 DEF SameLists, BothLive
  <2>1. l \in Lists(channel[a]) /\ l.frame \in Nat
    BY <1>3, ListsType
  <2>2. l = OwnList(b, l.frame)
    BY <1>2, <1>4, <1>7, <2>1 DEF SameLists, BothLive
  <2> QED BY <1>5, <2>1, <2>2
<1>18. Consistent(a)'
  <2> SUFFICES ASSUME Live(a)', NEW l \in Lists(channel'[a]), l.frame + FrameDelta <= G
               PROVE  machine'[b][l.frame + FrameDelta] = Merged(mode[a], OwnList(a, l.frame), l)'
    <3>1. Frame(Other(a))' = G
      BY <1>2, <1>5
    <3> QED BY <1>2, <3>1 DEF Consistent
  <2> DEFINE n == l.frame
  <2>1. l \in Lists(channel[a]) /\ n \in Nat
    BY <1>3, ListsType
  <2>2. Played(a)' <= n
    <3>1. PICK end \in Nat : FramesOf(channel'[a]) = Played(a)' .. end - 1
      BY DEF Delivered, Delivers
    <3> QED BY <1>3, <3>1 DEF FramesOf
  <2>3. F + 1 < n + FrameDelta
    BY <1>1, <1>3, <1>5, <2>1, <2>2 DEF Played
  <2>4. n <= F
    <3>1. channel[a] # <<>>
      BY <2>1, NoLists
    <3>2. Reads(a)
      BY <3>1 DEF Reads
    <3>3. G < F + 1 + FrameDelta
      BY <1>2, <1>4, <1>6, <3>2 DEF Near, G
    <3> QED BY <1>1, <1>3, <2>1, <3>3
  <2>5. OwnList(a, n)' = OwnList(a, n)
    BY <1>5, <2>1, <2>3, <2>4
  <2>6. machine[b][n + FrameDelta] = Merged(mode[a], OwnList(a, n), l)
    BY <1>2, <1>4, <2>1 DEF Consistent, G
  <2> QED BY <1>5, <2>5, <2>6 DEF Merged
<1>19. Consistent(b)'
  <2> SUFFICES ASSUME Live(b)', NEW l \in Lists(channel'[b]), NEW n, n = l.frame,
                      n + FrameDelta <= F + 1
               PROVE  machine'[a][n + FrameDelta] = Merged(mode'[b], OwnList(b, n)', l)
    BY <1>2, <1>5 DEF Consistent, Merged
  <2>1. l \in Lists(channel[b]) /\ n \in Nat
    BY <1>3, ListsType, NoLists
  <2>2. OwnList(b, n)' = OwnList(b, n)
    BY <1>5, <2>1
  <2>3. machine'[a][n + FrameDelta] = Merged(mode[b], OwnList(b, n), l)
    <3>1. CASE n + FrameDelta = F + 1
      BY <1>5, <2>1, <3>1 DEF F
    <3>2. CASE n + FrameDelta # F + 1
      <4>1. n + FrameDelta \in 1..F
        <5>1. F \in Nat /\ n \in Nat
          BY <1>3, <2>1
        <5> QED BY <1>1, <3>2, <5>1
      <4>2. machine[a][n + FrameDelta] = Merged(mode[b], OwnList(b, n), l)
        BY <1>2, <1>3, <1>4, <2>1, <4>1 DEF Consistent, F
      <4> QED BY <1>5, <4>1, <4>2
    <3> QED BY <3>1, <3>2
  <2> QED BY <2>2, <2>3 DEF Merged
<1>20. \A m \in 0..F : SubSeq(machine'[a], 1, m) = SubSeq(machine[a], 1, m)
  BY <1>3, <1>5 DEF F, Frame
<1>21. Honest(a)'
  <2> SUFFICES ASSUME NoDrift
               PROVE  /\ \A n \in Nat : Holds(a, n)' => TestOf(a, OwnList(a, n))'
                      /\ Live(a)' => \A l \in Lists(channel'[a]) : TestOf(b, l)'
    BY <1>2, <1>8 DEF Honest
  <2>1. ASSUME NEW n \in Nat, Holds(a, n)'
        PROVE  TestOf(a, OwnList(a, n))'
    <3>1. CASE n = F + 1
      <4>1. OwnList(a, n)'.events = <<>>
        BY <1>5, <3>1 DEF EmptyList
      <4>2. ~OpensWithTest(OwnList(a, n))'
        BY <4>1 DEF OpensWithTest
      <4> QED BY <4>2 DEF TestOf
    <3>2. CASE n # F + 1
      <4>1. n \in 0..F /\ F + 1 < n + FrameDelta /\ Holds(a, n)
        <5>1. F \in Nat /\ n <= F + 1 /\ F + 1 < n + FrameDelta
          BY <1>3, <1>7, <2>1
        <5>2. n \in 0..F /\ F < n + FrameDelta
          BY <1>1, <3>2, <5>1
        <5> QED BY <1>7, <5>1, <5>2
      <4>2. TestOf(a, OwnList(a, n))
        BY <1>4, <4>1 DEF Honest
      <4>3. OwnList(a, n)' = OwnList(a, n) /\ OwnList(a, n).frame = n
        BY <1>4, <1>5, <4>1 DEF Ring
      <4> QED BY <1>20, <4>1, <4>2, <4>3 DEF TestOf
    <3> QED BY <3>1, <3>2
  <2>2. ASSUME Live(a)', NEW l \in Lists(channel'[a])
        PROVE  TestOf(b, l)'
    <3>1. TestOf(b, l)
      BY <1>2, <1>4, <2>2 DEF Honest
    <3> QED BY <1>5, <3>1 DEF TestOf
  <2> QED BY <2>1, <2>2
<1>22. Honest(b)'
  <2> SUFFICES ASSUME NoDrift
               PROVE  /\ \A n \in Nat : Holds(b, n)' => TestOf(b, OwnList(b, n))'
                      /\ Live(b)' => \A l \in Lists(channel'[b]) : TestOf(a, l)'
    BY <1>2, <1>8 DEF Honest
  <2>1. ASSUME NEW n \in Nat, Holds(b, n)'
        PROVE  TestOf(b, OwnList(b, n))'
    <3>1. TestOf(b, OwnList(b, n))
      BY <1>4, <1>7, <2>1 DEF Honest
    <3> QED BY <1>5, <3>1 DEF TestOf
  <2>2. ASSUME Live(b)', NEW l \in Lists(channel'[b])
        PROVE  TestOf(a, l)'
    <3>1. l \in Lists(channel[b]) /\ l.frame \in Nat
      BY <1>3, <2>2, ListsType, NoLists
    <3>2. TestOf(a, l)
      BY <1>2, <1>4, <2>2, <3>1 DEF Honest
    <3>3. l.frame \in 0..F
      <4>1. PICK end \in Nat : end <= F + 1 /\ FramesOf(channel[b]) = Played(b) .. end - 1
        BY <1>2, <1>4, <2>2 DEF Delivered, Delivers, F
      <4>2. l.frame \in Played(b) .. end - 1
        BY <3>1, <4>1 DEF FramesOf
      <4>3. F \in Nat /\ Played(b) \in Nat
        BY <1>3
      <4> QED BY <4>1, <4>2, <4>3
    <3> QED BY <1>20, <3>2, <3>3 DEF TestOf
  <2> QED BY <2>1, <2>2
<1> QED
  BY <1>10, <1>11, <1>12, <1>13, <1>14, <1>15, <1>16, <1>17, <1>18, <1>19, <1>21, <1>22
     DEF InvOf

(* Machines that agree, and only their sync tests are compared, agree in   *)
(* the test.                                                               *)
LEMMA TestsAgree ==
  ASSUME TypeOK, TypeOK', NEW a \in Peer, NEW b \in Peer, b = Other(a), InvOf(a), InvOf(b),
         NEW n \in Nat, n <= Frame(a), n <= Frame(b),
         NEW own, own.frame = n, TestOf(a, own), NEW h, h.frame = n, TestOf(b, h),
         NEW lists, lists = <<own, h>> \/ lists = <<h, own>>
  PROVE  InSync(lists)
<1> DEFINE before == SubSeq(machine[a], 1, n)
           other == SubSeq(machine[b], 1, n)
<1>1. /\ machine[a] \in Seq(Seq(InputEvent)) /\ Len(machine[a]) = Frame(a)
      /\ machine[b] \in Seq(Seq(InputEvent)) /\ Len(machine[b]) = Frame(b)
      /\ Frame(a) \in Nat /\ Frame(b) \in Nat
  BY PeerTypes DEF Frame
<1>2. \A k \in 1..n : machine[a][k] = machine[b][k]
  <2>1. Agree(a)
    BY DEF InvOf
  <2>2. \A k \in 1..n : k \in 1..Frame(a) /\ k <= Frame(b)
    BY <1>1
  <2> QED BY <2>1, <2>2 DEF Agree
<1>3. before = other
  <2>1. /\ before = [k \in 1..n |-> machine[a][k]]
        /\ other = [k \in 1..n |-> machine[b][k]]
    BY <1>1
  <2> QED BY <1>2, <2>1
<1>4. /\ OpensWithTest(own) => Head(own.events).data = RegistersOf(before, None)
      /\ OpensWithTest(h) => Head(h.events).data = RegistersOf(other, None)
  BY DEF TestOf
<1>5. {lists[1], lists[2]} = {own, h}
  OBVIOUS
<1> HIDE DEF before, other
<1> QED BY <1>3, <1>4, <1>5 DEF InSync

(* The frame in which a list of the other side is replayed.                *)
LEMMA ReceiveListKeeps ==
  ASSUME TypeOK, TypeOK', NEW a \in Peer, NEW b \in Peer, b = Other(a),
         InvOf(a), InvOf(b), ReceiveList(a)
  PROVE  InvOf(a)' /\ InvOf(b)'
<1> DEFINE h == Head(channel[a])
           rest == Tail(channel[a])
           n == Played(a)
           own == frame_event_list[a][frame_to_play[a]]
           lists == ServerAndClient(a, h)
           events == Inputs(lists[1]) \o Inputs(lists[2])
<1>1. FrameDelta \in Nat /\ FrameDelta >= 2
  BY FrameDeltaAssumption
<1>2. a # b /\ b # a /\ Other(a) = b /\ Other(b) = a
  BY TwoPeers
<1>3. /\ Frame(a) \in Nat /\ Frame(b) \in Nat /\ Sent(b) \in Nat
      /\ Played(a)' \in Nat /\ channel[b] \in Stream
      /\ \A k \in Nat : OwnList(b, k) \in List
  BY PeerTypes
<1>4. /\ Waiting(a) /\ Live(a) /\ channel[a] # <<>> /\ h # Suspending
      /\ FinishFrame(a, events)
      /\ UNCHANGED <<frame_buffer_full, drift>>
      /\ \/ /\ InSync(lists)
            /\ channel' = [channel EXCEPT ![a] = rest]
            /\ UNCHANGED <<session, out_of_sync, link>>
         \/ /\ ~InSync(lists)
            /\ Disconnect(a, rest)
            /\ out_of_sync' = [out_of_sync EXCEPT ![a] = TRUE]
  BY DEF ReceiveList, EndOutOfSync
<1>5. /\ n \in Nat /\ h \in List /\ h.frame = n /\ h \in Lists(channel[a])
      /\ Frame(a) + 1 = n + FrameDelta /\ n <= Frame(b)
      /\ own = OwnList(a, n) /\ own \in List /\ Holds(a, n)
      /\ \E end \in Nat : /\ n < end /\ end <= Frame(b) + 1
                          /\ Live(b) => end = Sent(b)
                          /\ Delivers(channel[a], n, end)
                          /\ Delivers(rest, n + 1, end)
      /\ rest \in Stream
      /\ Lists(rest) \subseteq Lists(channel[a])
      /\ \A l \in Lists(rest) : n < l.frame
  BY <1>4, ListMeets
<1>6. lists = IF mode[a] = "server connected" THEN <<own, h>> ELSE <<h, own>>
  BY DEF ServerAndClient
<1> HIDE DEF h, rest, n, own, lists
<1>7. events \in Seq(InputEvent) /\ events = Merged(mode[a], own, h)
  <2>1. Inputs(own) \in Seq(InputEvent) /\ Inputs(h) \in Seq(InputEvent)
    BY <1>5, InputsType
  <2> DEFINE x == Inputs(lists[1])
             y == Inputs(lists[2])
  <2>2. lists[1] \in {own, h} /\ lists[2] \in {own, h}
    BY <1>6
  <2>3. x \in Seq(InputEvent) /\ y \in Seq(InputEvent)
    BY <2>1, <2>2
  <2>4. x \o y \in Seq(InputEvent)
    <3> HIDE DEF x, y
    <3> QED BY <2>3
  <2>5. events = Merged(mode[a], own, h)
    BY <1>6 DEF Merged
  <2> QED BY <2>4, <2>5
<1> HIDE DEF events
<1>8. HasSocket(a) /\ HasSocket(b) /\ Linked(a) /\ Linked(b)
  BY DEF InvOf
<1>9. ~NoDrift \/ InSync(lists)
  <2> SUFFICES ASSUME NoDrift PROVE InSync(lists)
    OBVIOUS
  <2>1. TestOf(a, own) /\ TestOf(b, h) /\ own.frame = n
    BY <1>2, <1>4, <1>5 DEF InvOf, Honest, Ring
  <2>2. n <= Frame(a)
    BY <1>1, <1>3, <1>5
  <2> QED BY <1>5, <1>6, <2>1, <2>2, TestsAgree
<1>10. /\ Frame(a) + 1 <= Frame(b) => events = machine[b][Frame(a) + 1]
       /\ ~(Frame(a) + 1 < FrameDelta)
       /\ Live(b) => Frame(a) + 1 < Sent(b) + FrameDelta
  BY <1>1, <1>2, <1>3, <1>4, <1>5, <1>7 DEF InvOf, Consistent
<1>11. ASSUME Live(b), NEW l \in Lists(channel[b]), l.frame + FrameDelta = Frame(a) + 1
       PROVE  events = Merged(mode[b], OwnList(b, l.frame), l)
  <2>1. l.frame = n
    <3>1. l.frame \in Nat
      BY <1>3, ListsType
    <3> QED BY <1>1, <1>5, <1>11, <3>1
  <2>2. l = own
    BY <1>2, <1>4, <1>5, <1>11, <2>1 DEF InvOf, SameLists, BothLive
  <2>3. Holds(b, n)
    <3>1. PICK end \in Nat : FramesOf(channel[b]) = Played(b) .. end - 1
      BY <1>11 DEF InvOf, Delivered, Delivers
    <3>2. Played(b) <= n /\ Played(b) \in Nat
      BY <1>11, <2>1, <3>1, PeerTypes DEF FramesOf
    <3> QED BY <1>1, <1>3, <1>5, <3>2 DEF Played, Holds
  <2>4. h = OwnList(b, n)
    BY <1>2, <1>4, <1>5, <1>11, <2>3 DEF InvOf, SameLists, BothLive
  <2>5. mode[a] = "server connected" <=> mode[b] # "server connected"
    BY <1>2, <1>4, <1>8, <1>11 DEF Linked, BothLive, Live, Connected
  <2> QED BY <1>7, <2>1, <2>2, <2>4, <2>5 DEF Merged
<1>12. Frame(a)' = Frame(a) + 1 /\ Frame(b)' = Frame(b) /\ Sent(b)' = Sent(b)
       /\ Played(a)' = n + 1
  <2>1. Frame(a)' = Frame(a) + 1 /\ Frame(b)' = Frame(b) /\ pc'[b] = pc[b]
    BY <1>2, <1>4, <1>7, Finishes DEF InvOf
  <2> QED BY <1>1, <1>3, <1>5, <2>1 DEF Sent, Played
<1>13. CASE /\ InSync(lists)
            /\ channel' = [channel EXCEPT ![a] = rest]
            /\ UNCHANGED <<session, out_of_sync, link>>
  <2>1. channel'[a] = rest /\ channel'[b] = channel[b]
    BY <1>2, <1>13 DEF TypeOK
  <2>2. UNCHANGED <<mode, network_socket, used, out_of_sync, link>>
    BY <1>13 DEF session
  <2>3. /\ \A p \in Peer : /\ Connected(p)' = Connected(p) /\ Open(p)' = Open(p)
                           /\ Live(p)' = Live(p) /\ Alarmed(p)' = Alarmed(p)
        /\ Reads(b)' => Reads(b)
    BY <1>4, <2>1, <2>2 DEF Connected, Open, Live, Reads, Alarmed, NoDrift
  <2>4. HasSocket(a)' /\ HasSocket(b)' /\ Linked(a)' /\ Linked(b)'
    BY <1>2, <1>8, <2>2, <2>3 DEF HasSocket, Linked, BothLive
  <2>5. Delivered(a)'
    BY <1>2, <1>5, <1>12, <2>1, <2>3 DEF Delivered
  <2>6. Reads(a)
    BY <1>4 DEF Reads
  <2>7. Alarmed(a) /\ Alarmed(b)
    BY DEF InvOf
  <2> QED BY <1>4, <1>5, <1>7, <1>10, <1>11, <2>1, <2>2, <2>3, <2>4, <2>5, <2>6, <2>7,
             FrameEnds DEF Waiting
<1>14. CASE /\ ~InSync(lists)
            /\ Disconnect(a, rest)
            /\ out_of_sync' = [out_of_sync EXCEPT ![a] = TRUE]
  <2>1. /\ ~Connected(a)' /\ ~Live(a)'
        /\ mode'[b] = mode[b] /\ Connected(b)' = Connected(b) /\ Open(b)' = Open(b)
        /\ channel'[b] = channel[b] \/ channel'[b] = <<>>
        /\ Live(b)' => link'[b] # "up"
        /\ Reads(b)' => Reads(b)
    BY <1>14, Disconnects
  <2>2. HasSocket(a)' /\ HasSocket(b)' /\ Linked(a)' /\ Linked(b)' /\ Delivered(a)'
    BY <1>2, <1>8, <2>1 DEF HasSocket, Linked, BothLive, Delivered
  <2>3. Live(b)' => Live(b)
    BY <2>1 DEF Live
  <2>4. Alarmed(a)' /\ Alarmed(b)'
    <3>1. ~NoDrift'
      BY <1>4, <1>9, <1>14 DEF NoDrift
    <3> QED BY <3>1 DEF Alarmed
  <2> QED BY <1>4, <1>5, <1>7, <1>10, <1>11, <2>1, <2>2, <2>3, <2>4, FrameEnds DEF Waiting
<1> QED BY <1>4, <1>13, <1>14

(* A frame at the start of a session, when there is nothing to replay.     *)
LEMMA NothingToPlayKeeps ==
  ASSUME TypeOK, TypeOK', NEW a \in Peer, NEW b \in Peer, b = Other(a),
         InvOf(a), InvOf(b), NothingToPlay(a)
  PROVE  InvOf(a)' /\ InvOf(b)'
<1>1. FrameDelta \in Nat /\ FrameDelta >= 2
  BY FrameDeltaAssumption
<1>2. a # b /\ b # a /\ Other(a) = b /\ Other(b) = a
  BY TwoPeers
<1>3. /\ Frame(a) \in Nat /\ Frame(b) \in Nat /\ Sent(b) \in Nat /\ channel[b] \in Stream
      /\ machine[b] \in Seq(Seq(InputEvent))
  BY PeerTypes
<1>4. /\ pc[a] = "receive" /\ ~frame_buffer_full[a] /\ FinishFrame(a, <<>>)
      /\ UNCHANGED <<session, frame_buffer_full, out_of_sync, drift, network>>
      /\ <<>> \in Seq(InputEvent)
  BY DEF NothingToPlay
<1>5. Frame(a) + 1 < FrameDelta
  BY <1>1, <1>3, <1>4 DEF InvOf, Ring, Sent
<1>6. Frame(a)' = Frame(a) + 1 /\ Frame(b)' = Frame(b) /\ pc'[b] = pc[b]
  BY <1>2, <1>4, Finishes DEF InvOf
<1>7. Played(a) = 0 /\ Played(a)' = 0 /\ Sent(b)' = Sent(b) /\ Sent(a) = Frame(a) + 1
      /\ Sent(a)' = Frame(a) + 1
  <2>1. pc'[a] = "run"
    BY <1>2, <1>4, Finishes DEF InvOf
  <2> QED BY <1>1, <1>3, <1>4, <1>5, <1>6, <2>1 DEF Played, Sent
<1>8. UNCHANGED <<mode, network_socket, used, link, channel>>
  BY <1>4 DEF session, network
<1>9. \A p \in Peer : /\ Connected(p)' = Connected(p) /\ Open(p)' = Open(p)
                      /\ Live(p)' = Live(p) /\ Alarmed(p)' = Alarmed(p)
                      /\ Reads(p)' = Reads(p)
  BY <1>4, <1>8 DEF Connected, Open, Live, Reads, Alarmed, NoDrift
<1>10. HasSocket(a)' /\ HasSocket(b)' /\ Linked(a)' /\ Linked(b)'
  BY <1>2, <1>8, <1>9 DEF InvOf, HasSocket, Linked, BothLive
<1>11. Alarmed(a)' /\ Alarmed(b)'
  BY <1>9 DEF InvOf
<1>12. Delivered(a)'
  BY <1>2, <1>6, <1>7, <1>8, <1>9 DEF InvOf, Delivered
<1>13. Frame(a) + 1 <= Frame(b) => machine[b][Frame(a) + 1] = <<>>
  BY <1>1, <1>3, <1>5 DEF InvOf, Quiet
<1>14. /\ Frame(a) + 1 < Sent(b) + FrameDelta
       /\ \A l \in Lists(channel[b]) : l.frame + FrameDelta # Frame(a) + 1
  BY <1>1, <1>3, <1>5, ListsType
<1> QED
  BY <1>4, <1>8, <1>9, <1>10, <1>11, <1>12, <1>13, <1>14, FrameEnds

-----------------------------------------------------------------------------
(* Steps that leave the rings, the histories and the lists under way as    *)
(* they are.                                                               *)
LEMMA Calm ==
  ASSUME TypeOK, TypeOK', NEW p \in Peer, \A q \in Peer : InvOf(q),
         UNCHANGED <<frame_event_list, current_frame, frame_to_play, frame_buffer_full,
                     machine, out_of_sync>>,
         NoDrift' => NoDrift,
         \A q \in Peer :
           /\ Live(q)' = Live(q) /\ HasSocket(q)'
           /\ Connected(q) => mode'[q] = mode[q]
           /\ link'[q] = link[q] \/ (link[q] # "up" /\ link'[q] # "up")
           /\ Lists(channel'[q]) = Lists(channel[q])
           /\ Ordered(channel[q]) => Ordered(channel'[q])
           /\ Reads(q)' => Reads(q)
           /\ Sent(q)' = Sent(q) \/ (Sent(q)' <= Sent(q) /\ ~Reads(q) /\ ~BothLive(q))
  PROVE  InvOf(p)'
<1> DEFINE q == Other(p)
<1>1. FrameDelta \in Nat /\ FrameDelta >= 2
  BY FrameDeltaAssumption
<1>2. p # q /\ q # p /\ Other(q) = p /\ q \in Peer
  BY TwoPeers
<1>3. /\ Frame(p) \in Nat /\ Frame(q) \in Nat
      /\ Sent(p) \in Nat /\ Sent(p)' \in Nat /\ Sent(q) \in Nat /\ Sent(q)' \in Nat
      /\ channel[p] \in Stream /\ channel[q] \in Stream
  BY <1>2, PeerTypes
<1>4. InvOf(p)
  OBVIOUS
<1>5. \A r \in Peer : /\ Frame(r)' = Frame(r) /\ Played(r)' = Played(r)
                      /\ machine'[r] = machine[r]
                      /\ \A n : OwnList(r, n)' = OwnList(r, n)
                      /\ \A n : Holds(r, n)' = Holds(r, n)
                      /\ Live(r)' = Live(r)
  BY DEF Frame, Played, OwnList, Holds
<1>6. BothLive(p)' = BothLive(p) /\ BothLive(p) = (Live(p) /\ Live(q))
  BY <1>2, <1>5 DEF BothLive
<1>7. HasSocket(p)'
  OBVIOUS
<1>8. Linked(p)'
  <2>1. Linked(p)
    BY <1>4 DEF InvOf
  <2>2. BothLive(p) => mode'[p] = mode[p] /\ mode'[q] = mode[q]
    BY <1>2, <1>6 DEF Live
  <2>3. link'[p] = "up" <=> link[p] = "up"
    OBVIOUS
  <2> QED BY <1>2, <1>5, <1>6, <2>1, <2>2, <2>3 DEF Linked
<1>9. Ring(p)'
  <2>1. Ring(p)
    BY <1>4 DEF InvOf
  <2>2. Sent(p)' <= Sent(p)
    BY <1>3
  <2>3. ~frame_buffer_full'[p] => Sent(p)' <= FrameDelta - 1
    BY <1>1, <1>3, <2>1, <2>2 DEF Ring
  <2> QED BY <1>5, <2>1, <2>3 DEF Ring
<1>10. Quiet(p)' /\ Agree(p)'
  BY <1>2, <1>4, <1>5 DEF InvOf, Quiet, Agree
<1>11. Delivered(p)'
  <2>1. ASSUME Live(p)'
        PROVE  \E end \in Nat : /\ Played(p)' <= end
                                /\ end <= Frame(q)' + 1
                                /\ Live(q)' => end = Sent(q)'
                                /\ Delivers(channel'[p], Played(p)', end)
    <3>1. PICK end \in Nat : /\ Played(p) <= end
                             /\ end <= Frame(q) + 1
                             /\ Live(q) => end = Sent(q)
                             /\ Delivers(channel[p], Played(p), end)
      BY <1>4, <1>5, <2>1 DEF InvOf, Delivered
    <3>2. Live(q) => Sent(q)' = Sent(q)
      BY <1>2, <1>5, <2>1 DEF BothLive
    <3>3. Delivers(channel'[p], Played(p), end)
      BY <3>1 DEF Delivers, FramesOf
    <3> QED BY <1>2, <1>5, <3>1, <3>2, <3>3
  <2> QED BY <2>1 DEF Delivered
<1>12. Near(p)'
  BY <1>2, <1>3, <1>4, <1>5 DEF InvOf, Near
<1>13. SameLists(p)'
  BY <1>2, <1>4, <1>5, <1>6 DEF InvOf, SameLists
<1>14. Consistent(p)'
  <2>1. Consistent(p)
    BY <1>4 DEF InvOf
  <2>2. Live(p) => mode'[p] = mode[p]
    BY DEF Live
  <2> QED BY <1>2, <1>5, <2>1, <2>2 DEF Consistent, Merged
<1>15. Honest(p)'
  <2>1. Honest(p)
    BY <1>4 DEF InvOf
  <2>2. \A r \in Peer : \A l : TestOf(r, l)' = TestOf(r, l)
    BY <1>5 DEF TestOf
  <2>3. \A n \in Nat : TestOf(p, OwnList(p, n))' = TestOf(p, OwnList(p, n))
    BY <1>5 DEF TestOf
  <2> QED BY <1>2, <1>5, <2>1, <2>2, <2>3 DEF Honest
<1>16. Alarmed(p)'
  BY <1>4 DEF InvOf, Alarmed
<1> QED
  BY <1>7, <1>8, <1>9, <1>10, <1>11, <1>12, <1>13, <1>14, <1>15, <1>16 DEF InvOf

(* A peer that ends its session takes nothing from the other but what its  *)
(* stream may lose.                                                        *)
LEMMA Leaves ==
  ASSUME TypeOK, TypeOK', NEW a \in Peer, NEW b \in Peer, b = Other(a),
         InvOf(a), InvOf(b), NEW u, Disconnect(a, u),
         UNCHANGED <<frame_event_list, current_frame, frame_to_play, machine,
                     drift, out_of_sync>>,
         pc'[b] = pc[b], frame_buffer_full'[b] = frame_buffer_full[b], Ring(a)'
  PROVE  InvOf(a)' /\ InvOf(b)'
<1>1. FrameDelta \in Nat /\ FrameDelta >= 2
  BY FrameDeltaAssumption
<1>2. a # b /\ b # a /\ Other(a) = b /\ Other(b) = a
  BY TwoPeers
<1>3. /\ Frame(a) \in Nat /\ Frame(b) \in Nat /\ Played(b) \in Nat
      /\ channel[b] \in Stream
  BY PeerTypes
<1>4. \A r \in Peer : /\ Frame(r)' = Frame(r) /\ Played(r)' = Played(r)
                      /\ machine'[r] = machine[r]
                      /\ \A n : OwnList(r, n)' = OwnList(r, n)
                      /\ \A n : Holds(r, n)' = Holds(r, n)
  BY DEF Frame, Played, OwnList, Holds
<1>5. Sent(b)' = Sent(b) /\ NoDrift' = NoDrift
  BY <1>4 DEF Sent, NoDrift
<1>6. /\ ~Connected(a)' /\ ~Live(a)'
      /\ mode'[b] = mode[b] /\ Connected(b)' = Connected(b) /\ Open(b)' = Open(b)
      /\ channel'[b] = channel[b] \/ channel'[b] = <<>>
      /\ Live(b)' => link'[b] # "up"
      /\ Reads(b)' => Reads(b)
  BY Disconnects
<1>7. Live(b)' = Live(b) /\ Lists(channel'[b]) \subseteq Lists(channel[b])
  BY <1>6, NoLists DEF Live
<1>8. \A r \in Peer : \A l : TestOf(r, l)' = TestOf(r, l)
  BY <1>4 DEF TestOf
<1>9. \A r \in Peer : \A n \in Nat : TestOf(r, OwnList(r, n))' = TestOf(r, OwnList(r, n))
  BY <1>4 DEF TestOf
<1>10. ~BothLive(a)' /\ ~BothLive(b)' /\ ~Reads(a)'
  BY <1>2, <1>6 DEF BothLive, Reads
<1>11. InvOf(a)'
  <2>1. HasSocket(a)' /\ Linked(a)' /\ Delivered(a)' /\ Near(a)' /\ SameLists(a)' /\ Consistent(a)'
    BY <1>6, <1>10 DEF HasSocket, Linked, Delivered, Near, SameLists, Consistent
  <2>2. Quiet(a)' /\ Agree(a)'
    BY <1>2, <1>4 DEF InvOf, Quiet, Agree
  <2>3. Honest(a)'
    BY <1>4, <1>5, <1>6, <1>9 DEF InvOf, Honest
  <2>4. Alarmed(a)'
    BY <1>5 DEF InvOf, Alarmed
  <2> QED BY <2>1, <2>2, <2>3, <2>4 DEF InvOf
<1>12. InvOf(b)'
  <2>1. HasSocket(b)' /\ Linked(b)' /\ SameLists(b)'
    BY <1>2, <1>6, <1>10 DEF InvOf, HasSocket, Linked, SameLists
  <2>2. Quiet(b)' /\ Agree(b)'
    BY <1>2, <1>4 DEF InvOf, Quiet, Agree
  <2>3. Ring(b)'
    BY <1>4, <1>5 DEF InvOf, Ring
  <2>4. Delivered(b)'
    <3>1. ASSUME Live(b)
          PROVE  \E end \in Nat : /\ Played(b) <= end
                                  /\ end <= Frame(a) + 1
                                  /\ Delivers(channel'[b], Played(b), end)
      <4>1. PICK end \in Nat : /\ Played(b) <= end
                               /\ end <= Frame(a) + 1
                               /\ Delivers(channel[b], Played(b), end)
        BY <1>2, <3>1 DEF InvOf, Delivered
      <4>2. CASE channel'[b] = channel[b]
        BY <4>1, <4>2
      <4>3. CASE channel'[b] = <<>>
        <5>1. Delivers(<<>>, Played(b), Played(b))
          BY <1>3, NoLists
        <5> QED BY <1>3, <4>1, <4>3, <5>1
      <4> QED BY <1>6, <4>2, <4>3
    <3> QED BY <1>2, <1>4, <1>6, <1>7, <3>1 DEF Delivered
  <2>5. Near(b)'
    BY <1>2, <1>4, <1>5, <1>6 DEF InvOf, Near
  <2>6. Consistent(b)'
    <3>1. Consistent(b)
      BY DEF InvOf
    <3> QED BY <1>2, <1>4, <1>6, <1>7, <3>1 DEF Consistent, Merged
  <2>7. Honest(b)'
    <3>1. Honest(b)
      BY DEF InvOf
    <3> QED BY <1>2, <1>4, <1>5, <1>7, <1>8, <1>9, <3>1 DEF Honest
  <2>8. Alarmed(b)'
    BY <1>5 DEF InvOf, Alarmed
  <2> QED BY <2>1, <2>2, <2>3, <2>4, <2>5, <2>6, <2>7, <2>8 DEF InvOf
<1> QED BY <1>11, <1>12

(* The first of a sequence is the first of what it is extended to, if it   *)
(* has one.                                                                *)
LEMMA HeadOfAppend ==
  ASSUME NEW S, NEW s \in Seq(S), NEW e \in S
  PROVE  /\ Append(s, e) # <<>>
         /\ Head(Append(s, e)) = IF s = <<>> THEN e ELSE Head(s)
<1> DEFINE new == Append(s, e)
<1>1. new # <<>> /\ Head(new) = new[1]
  OBVIOUS
<1>2. CASE s = <<>>
  BY <1>1, <1>2
<1>3. CASE s # <<>>
  <2>1. Len(s) \in Nat /\ 1 <= Len(s) /\ Head(s) = s[1]
    BY <1>3
  <2>2. new[1] = s[1]
    BY <2>1
  <2> QED BY <1>1, <1>3, <2>1, <2>2
<1> QED BY <1>1, <1>2, <1>3

(* A sequence is the whole of itself.                                      *)
LEMMA WholeSequence ==
  ASSUME NEW S, NEW s \in Seq(S)
  PROVE  SubSeq(s, 1, Len(s)) = s
OBVIOUS

(* What a peer records: input, and sync tests of its own registers.        *)
Recordable(p) == InputEvent \cup {e \in SyncTest : e.data = Registers(p)}

(* An event is recorded into the list of the frame that runs, which is not *)
(* under way yet and meets no list that is.                                *)
LEMMA Records ==
  ASSUME TypeOK, TypeOK', NEW a \in Peer, NEW b \in Peer, b = Other(a),
         InvOf(a), InvOf(b), NEW event \in Recordable(a), Record(a, event),
         pc[a] = "run",
         UNCHANGED <<mode, network_socket, used, current_frame, frame_to_play,
                     frame_buffer_full, pc, out_of_sync, machine, drift, channel, link>>
  PROVE  InvOf(a)' /\ InvOf(b)'
<1> DEFINE F == Frame(a)
<1>0. /\ event \in InputEvent \cup SyncTest
      /\ event.type = "sync test" => event.data = Registers(a)
  BY DEF Recordable, InputEvent
<1>1. FrameDelta \in Nat /\ FrameDelta >= 2 /\ FrameDelta > 0
  BY FrameDeltaAssumption
<1>2. a # b /\ b # a /\ Other(a) = b /\ Other(b) = a
  BY TwoPeers
<1>3. /\ F \in Nat /\ Frame(b) \in Nat /\ Played(a) \in Nat /\ Played(b) \in Nat
      /\ channel[a] \in Stream /\ channel[b] \in Stream
      /\ machine[a] \in Seq(Seq(InputEvent)) /\ DOMAIN machine[a] = 1..F
      /\ \A n \in Nat : OwnList(a, n) \in List
  BY PeerTypes
<1>4. Sent(a) = F
  BY DEF Sent
<1>5. \A r \in Peer : /\ Frame(r)' = Frame(r) /\ Played(r)' = Played(r) /\ Sent(r)' = Sent(r)
                      /\ machine'[r] = machine[r] /\ mode'[r] = mode[r]
                      /\ \A n : Holds(r, n)' = Holds(r, n)
                      /\ channel'[r] = channel[r] /\ Live(r)' = Live(r)
                      /\ BothLive(r)' = BothLive(r) /\ Reads(r)' = Reads(r)
                      /\ Connected(r)' = Connected(r) /\ Open(r)' = Open(r)
                      /\ \A l : TestOf(r, l)' = TestOf(r, l)
  BY DEF Frame, Played, Sent, Holds, Live, BothLive, Reads, Connected, Open, TestOf
<1>6. NoDrift' = NoDrift
  BY DEF NoDrift
<1>7. /\ \A n \in Nat : OwnList(b, n)' = OwnList(b, n)
      /\ \A n \in Nat : n % FrameDelta # F % FrameDelta => OwnList(a, n)' = OwnList(a, n)
      /\ \A n \in Nat : n % FrameDelta = F % FrameDelta =>
           OwnList(a, n)' = [OwnList(a, n) EXCEPT !.events = Append(@, event)]
  <2> DEFINE i == current_frame[a]
             new == [frame_event_list[a][i] EXCEPT !.events = Append(@, event)]
  <2>1. /\ frame_event_list \in [Peer -> [0..FrameDelta-1 -> List]]
        /\ frame_event_list' = [frame_event_list EXCEPT ![a][i] = new]
        /\ i \in 0..FrameDelta-1 /\ i = F % FrameDelta
    BY DEF TypeOK, Record, InvOf, Ring
  <2> HIDE DEF i, new
  <2>2. /\ frame_event_list'[b] = frame_event_list[b]
        /\ \A k \in 0..FrameDelta-1 : k # i => frame_event_list'[a][k] = frame_event_list[a][k]
        /\ frame_event_list'[a][i] = new
    BY <1>2, <2>1
  <2>3. \A n \in Nat : n % FrameDelta \in 0..FrameDelta-1
    BY <1>1, ModFacts
  <2> HIDE DEF F
  <2> QED BY <2>1, <2>2, <2>3 DEF OwnList, new
<1>8. \A n \in Nat : OwnList(a, n)'.frame = OwnList(a, n).frame
  BY <1>3, <1>7 DEF List
<1>9. \A n \in Nat : Holds(a, n) /\ n # F => OwnList(a, n)' = OwnList(a, n)
  <2>1. ASSUME NEW n \in Nat, Holds(a, n), n # F
        PROVE  n % FrameDelta # F % FrameDelta
    <3>1. n <= F /\ F < n + FrameDelta
      BY <2>1 DEF Holds
    <3>2. F \in Nat
      BY <1>3
    <3> HIDE DEF F
    <3>3. n % FrameDelta = F % FrameDelta => n = F
      BY <1>1, <3>1, <3>2, ModFacts
    <3> QED BY <2>1, <3>3
  <2> QED BY <1>7, <2>1
<1> HIDE DEF F
<1>10. /\ HasSocket(a)' /\ HasSocket(b)' /\ Linked(a)' /\ Linked(b)'
       /\ Quiet(a)' /\ Quiet(b)' /\ Agree(a)' /\ Agree(b)'
       /\ Near(a)' /\ Near(b)' /\ Alarmed(a)' /\ Alarmed(b)'
  <2>1. HasSocket(a)' /\ HasSocket(b)' /\ Linked(a)' /\ Linked(b)'
    BY <1>2, <1>5 DEF InvOf, HasSocket, Linked
  <2>2. Quiet(a)' /\ Quiet(b)' /\ Agree(a)' /\ Agree(b)'
    BY <1>2, <1>5 DEF InvOf, Quiet, Agree
  <2>3. Near(a)' /\ Near(b)' /\ Alarmed(a)' /\ Alarmed(b)'
    BY <1>2, <1>5, <1>6 DEF InvOf, Near, Alarmed
  <2> QED BY <2>1, <2>2, <2>3
<1>11. Delivered(a)' /\ Delivered(b)'
  BY <1>2, <1>5 DEF InvOf, Delivered
<1>12. Ring(a)' /\ Ring(b)'
  <2>1. Ring(a) /\ Ring(b)
    BY DEF InvOf
  <2>2. \A n \in Nat : Holds(a, n)' => OwnList(a, n)'.frame = n
    BY <1>5, <1>8, <2>1 DEF Ring
  <2>3. \A n \in Nat : Holds(b, n)' => OwnList(b, n)'.frame = n
    BY <1>5, <1>7, <2>1 DEF Ring
  <2> QED BY <1>5, <2>1, <2>2, <2>3 DEF Ring
<1>13. SameLists(a)' /\ SameLists(b)'
  <2>1. ASSUME BothLive(a), NEW l \in Lists(channel[b]), Holds(a, l.frame)
        PROVE  l = OwnList(a, l.frame)'
    <3>1. l.frame \in Nat
      BY <1>3, ListsType
    <3>2. l.frame # F
      <4>1. PICK end \in Nat : end = F /\ FramesOf(channel[b]) = Played(b) .. end - 1
        BY <1>2, <1>4, <2>1 DEF InvOf, Delivered, Delivers, BothLive
      <4>2. l.frame \in Played(b) .. end - 1
        BY <2>1, <4>1 DEF FramesOf
      <4> QED BY <1>3, <4>1, <4>2
    <3>3. l = OwnList(a, l.frame)
      BY <1>2, <2>1 DEF InvOf, SameLists
    <3> QED BY <1>9, <2>1, <3>1, <3>2, <3>3
  <2>2. SameLists(a)'
    BY <1>2, <1>5, <2>1 DEF SameLists
  <2>3. SameLists(b)'
    <3>1. \A l \in Lists(channel[a]) : l.frame \in Nat
      BY <1>3, ListsType
    <3> QED BY <1>2, <1>5, <1>7, <3>1 DEF InvOf, SameLists
  <2> QED BY <2>2, <2>3
<1>14. Consistent(a)' /\ Consistent(b)'
  <2>1. ASSUME Live(a), NEW l \in Lists(channel[a]), l.frame + FrameDelta <= Frame(b)
        PROVE  OwnList(a, l.frame)' = OwnList(a, l.frame)
    <3>1. l.frame \in Nat /\ channel[a] # <<>>
      BY <1>3, <2>1, ListsType, NoLists
    <3>2. Frame(b) < F + FrameDelta
      BY <1>2, <1>4, <2>1, <3>1 DEF InvOf, Near, Reads
    <3>3. Played(a) <= l.frame
      <4>1. PICK end \in Nat : FramesOf(channel[a]) = Played(a) .. end - 1
        BY <2>1 DEF InvOf, Delivered, Delivers
      <4>2. l.frame \in Played(a) .. end - 1
        BY <2>1, <4>1 DEF FramesOf
      <4> QED BY <1>3, <4>1, <4>2
    <3>4. F < l.frame + FrameDelta
      BY <1>1, <1>3, <3>1, <3>3 DEF Played, F
    <3>5. l.frame < F
      BY <1>1, <1>3, <2>1, <3>1, <3>2
    <3>6. Holds(a, l.frame) /\ l.frame # F
      BY <1>3, <3>1, <3>4, <3>5 DEF Holds, F
    <3> QED BY <1>9, <3>1, <3>6
  <2>2. Consistent(a)'
    <3>1. Consistent(a)
      BY DEF InvOf
    <3> QED BY <1>2, <1>5, <2>1, <3>1 DEF Consistent, Merged
  <2>3. Consistent(b)'
    <3>1. Consistent(b)
      BY DEF InvOf
    <3>2. \A l \in Lists(channel[b]) : l.frame \in Nat
      BY <1>3, ListsType
    <3> QED BY <1>2, <1>5, <1>7, <3>1, <3>2 DEF Consistent, Merged
  <2> QED BY <2>2, <2>3
<1>15. Honest(a)' /\ Honest(b)'
  <2> SUFFICES ASSUME NoDrift
               PROVE  Honest(a)' /\ Honest(b)'
    BY <1>6 DEF Honest
  <2>1. Honest(a) /\ Honest(b)
    BY DEF InvOf
  <2>2. ASSUME NEW n \in Nat, Holds(a, n)
        PROVE  TestOf(a, OwnList(a, n))'
    <3>1. TestOf(a, OwnList(a, n))
      BY <2>1, <2>2 DEF Honest
    <3>2. CASE n # F
      <4>1. OwnList(a, n)' = OwnList(a, n)
        BY <1>9, <2>2, <3>2
      <4> QED BY <1>5, <3>1, <4>1 DEF TestOf
    <3>3. CASE n = F
      <4> DEFINE l == OwnList(a, n)
                 new == OwnList(a, n)'
      <4>1. /\ l.frame = F /\ l \in List
            /\ new = [l EXCEPT !.events = Append(@, event)]
        BY <1>3, <1>7, <2>2, <3>3 DEF InvOf, Ring
      <4>2. new.frame = F /\ new.events = Append(l.events, event)
        BY <4>1 DEF List
      <4>3. l.events \in Seq(InputEvent \cup SyncTest)
        BY <4>1 DEF List
      <4> HIDE DEF l, new
      <4>4. CASE l.events # <<>>
        <5>1. new.events # <<>> /\ Head(new.events) = Head(l.events)
          <6> DEFINE S == InputEvent \cup SyncTest
          <6>1. l.events \in Seq(S) /\ event \in S
            BY <1>0, <4>3
          <6> HIDE DEF S
          <6>2. /\ Append(l.events, event) # <<>>
                /\ Head(Append(l.events, event)) = Head(l.events)
            BY <4>4, <6>1, HeadOfAppend
          <6> QED BY <4>2, <6>2
        <5>2. TestOf(a, l)
          BY <3>1 DEF l
        <5>3. TestOf(a, new)
          BY <4>1, <4>2, <4>4, <5>1, <5>2 DEF TestOf, OpensWithTest
        <5>4. OpensWithTest(new) => Head(new.events).data
                = RegistersOf(SubSeq(machine'[a], 1, new.frame), None)
          BY <1>5, <5>3 DEF TestOf
        <5> QED BY <5>4 DEF TestOf, OpensWithTest, new
      <4>5. CASE l.events = <<>>
        <5>1. Head(new.events) = event
          BY <1>0, <4>2, <4>3, <4>5, HeadOfAppend
        <5>2. machine[a] = SubSeq(machine[a], 1, F)
          BY <1>3, WholeSequence DEF F, Frame
        <5>3. Registers(a) = RegistersOf(SubSeq(machine[a], 1, F), None)
          BY <5>2 DEF Registers, NoDrift
        <5>4. OpensWithTest(new) => Head(new.events).data
                = RegistersOf(SubSeq(machine'[a], 1, new.frame), None)
          BY <1>5, <1>0, <4>2, <5>1, <5>3 DEF OpensWithTest
        <5> QED BY <5>4 DEF TestOf, OpensWithTest, new
      <4> QED BY <4>4, <4>5
    <3> QED BY <3>2, <3>3
  <2>3. Honest(a)'
    BY <1>2, <1>5, <2>1, <2>2 DEF Honest
  <2>4. Honest(b)'
    <3>1. \A n \in Nat : TestOf(b, OwnList(b, n))' = TestOf(b, OwnList(b, n))
      BY <1>5, <1>7 DEF TestOf
    <3> QED BY <1>2, <1>5, <2>1, <3>1 DEF Honest
  <2> QED BY <2>3, <2>4
<1> QED
  BY <1>10, <1>11, <1>12, <1>13, <1>14, <1>15 DEF InvOf

(* A list goes under way: it is the list of the frame that follows the     *)
(* last one the other side was sent.                                       *)
LEMMA Sends ==
  ASSUME TypeOK, TypeOK', NEW a \in Peer, NEW b \in Peer, b = Other(a),
         InvOf(a), InvOf(b), Connected(a), pc[a] = "run",
         SendOk(a, frame_event_list[a][current_frame[a]]),
         UNCHANGED <<mode, network_socket, used, frame_event_list, current_frame,
                     frame_to_play, out_of_sync, machine, drift>>,
         pc' = [pc EXCEPT ![a] = "receive"],
         frame_buffer_full'[b] = frame_buffer_full[b], Ring(a)'
  PROVE  InvOf(a)' /\ InvOf(b)'
<1> DEFINE F == Frame(a)
           l == OwnList(a, F)
<1>1. FrameDelta \in Nat /\ FrameDelta >= 2 /\ FrameDelta > 0
  BY FrameDeltaAssumption
<1>2. a # b /\ b # a /\ Other(a) = b /\ Other(b) = a
  BY TwoPeers
<1>3. /\ F \in Nat /\ Frame(b) \in Nat /\ Played(a) \in Nat /\ Played(b) \in Nat
      /\ channel[a] \in Stream /\ channel[b] \in Stream
      /\ l \in List
  BY PeerTypes
<1>4. \A r \in Peer : /\ Frame(r)' = Frame(r) /\ Played(r)' = Played(r)
                      /\ machine'[r] = machine[r] /\ mode'[r] = mode[r]
                      /\ \A n : Holds(r, n)' = Holds(r, n)
                      /\ \A n : OwnList(r, n)' = OwnList(r, n)
                      /\ Live(r)' = Live(r) /\ BothLive(r)' = BothLive(r)
                      /\ Connected(r)' = Connected(r) /\ Open(r)' = Open(r)
  BY DEF Frame, Played, OwnList, Holds, Live, BothLive, Connected, Open
<1>5. NoDrift' = NoDrift
  BY DEF NoDrift
<1>6. Sent(a) = F /\ Sent(a)' = F + 1 /\ Sent(b)' = Sent(b)
  <2>1. pc \in [Peer -> {"run", "receive"}] /\ pc' = [pc EXCEPT ![a] = "receive"]
    BY DEF TypeOK
  <2>2. pc'[a] = "receive" /\ pc'[b] = pc[b]
    BY <1>2, <2>1
  <2> QED BY <1>4, <2>2 DEF Sent
<1>7. Live(a)
  BY DEF InvOf, HasSocket, Live
<1>8. l.frame = F /\ frame_event_list[a][current_frame[a]] = l
  <2>1. Holds(a, F)
    BY <1>1, <1>3 DEF Holds
  <2> QED BY <1>3, <2>1 DEF InvOf, Ring, OwnList
<1>9. \/ /\ Live(b) /\ link[a] = "up" /\ link' = link
         /\ channel'[b] = Append(channel[b], l) /\ channel'[a] = channel[a]
      \/ /\ ~Live(b) /\ link[a] = "eof" /\ link'[a] # "up" /\ link'[b] = link[b]
         /\ channel' = channel
  <2>1. CASE link[a] = "up"
    <3>1. channel' = [channel EXCEPT ![b] = Append(@, l)] /\ link' = link
      BY <1>8, <2>1 DEF SendOk
    <3>2. Live(b)
      BY <1>2, <1>7, <2>1 DEF InvOf, Linked
    <3>3. channel \in [Peer -> Stream]
      BY DEF TypeOK, Stream
    <3> HIDE DEF l
    <3>4. channel'[b] = Append(channel[b], l) /\ channel'[a] = channel[a]
      BY <1>2, <3>1, <3>3
    <3> QED BY <2>1, <3>1, <3>2, <3>4
  <2>2. CASE link[a] # "up"
    <3>0. link \in [Peer -> {"up", "eof", "gone", "reset"}]
      BY DEF TypeOK
    <3>1. channel' = channel /\ link[a] = "eof" /\ link'[a] # "up" /\ link'[b] = link[b]
      BY <1>2, <2>2, <3>0 DEF SendOk
    <3>2. ~Live(b)
      BY <1>2, <1>7, <2>2 DEF InvOf, Linked, BothLive
    <3> QED BY <2>2, <3>1, <3>2
  <2> QED BY <2>1, <2>2
<1> HIDE DEF F, l
<1>10. /\ channel'[a] = channel[a] /\ (Reads(a)' => Reads(a))
       /\ ~Live(b) => channel'[b] = channel[b] /\ link'[b] = link[b]
       /\ Live(b) => /\ channel'[b] = Append(channel[b], l)
                     /\ Lists(channel'[b]) = Lists(channel[b]) \cup {l}
       /\ Live(b) => Reads(b)
  <2>1. Lists(Append(channel[b], l)) = Lists(channel[b]) \cup {l}
    BY <1>3, AppendList
  <2>2. Live(b) => link[b] = "up"
    BY <1>2, <1>7 DEF InvOf, Linked, BothLive
  <2>3. channel'[a] = channel[a] /\ (Reads(a)' => Reads(a))
    BY <1>4, <1>9 DEF Reads
  <2> QED BY <1>9, <2>1, <2>2, <2>3 DEF Reads
<1>11. \A r \in Peer : \A k : TestOf(r, k)' = TestOf(r, k)
  BY <1>4 DEF TestOf
<1>12. \A r \in Peer : \A n \in Nat : TestOf(r, OwnList(r, n))' = TestOf(r, OwnList(r, n))
  BY <1>4 DEF TestOf
<1>13. InvOf(a)'
  <2>1. HasSocket(a)' /\ Linked(a)' /\ Alarmed(a)'
    BY <1>2, <1>4, <1>5, <1>9 DEF InvOf, HasSocket, Linked, BothLive, Alarmed
  <2>2. Quiet(a)' /\ Agree(a)'
    BY <1>2, <1>4 DEF InvOf, Quiet, Agree
  <2>3. Delivered(a)'
    BY <1>2, <1>4, <1>6, <1>10 DEF InvOf, Delivered
  <2>4. Near(a)'
    BY <1>1, <1>2, <1>3, <1>4, <1>6, <1>10 DEF InvOf, Near
  <2>5. SameLists(a)'
    <3>1. SameLists(a)
      BY DEF InvOf
    <3>2. \A k \in Lists(channel[b]) : k.frame \in Nat
      BY <1>3, ListsType
    <3>3. ASSUME BothLive(a), NEW k \in Lists(channel'[b]), Holds(a, k.frame)
          PROVE  k = OwnList(a, k.frame)
      BY <1>2, <1>8, <1>10, <3>1, <3>3 DEF SameLists, BothLive, l
    <3> QED BY <1>2, <1>4, <3>3 DEF SameLists
  <2>6. Consistent(a)'
    <3>1. Consistent(a)
      BY DEF InvOf
    <3>2. /\ Frame(Other(a))' = Frame(Other(a)) /\ machine'[Other(a)] = machine[Other(a)]
          /\ channel'[a] = channel[a] /\ mode'[a] = mode[a] /\ Live(a)' = Live(a)
          /\ \A n : OwnList(a, n)' = OwnList(a, n)
      BY <1>2, <1>4, <1>10
    <3> QED BY <3>1, <3>2 DEF Consistent, Merged
  <2>7. Honest(a)'
    <3>1. Honest(a)
      BY DEF InvOf
    <3> QED BY <1>2, <1>4, <1>5, <1>10, <1>11, <1>12, <3>1 DEF Honest
  <2> QED BY <2>1, <2>2, <2>3, <2>4, <2>5, <2>6, <2>7 DEF InvOf
<1>14. InvOf(b)'
  <2>1. HasSocket(b)' /\ Linked(b)' /\ Alarmed(b)'
    BY <1>2, <1>4, <1>5, <1>9 DEF InvOf, HasSocket, Linked, BothLive, Alarmed
  <2>2. Quiet(b)' /\ Agree(b)'
    BY <1>2, <1>4 DEF InvOf, Quiet, Agree
  <2>3. Ring(b)'
    BY <1>4, <1>6 DEF InvOf, Ring
  <2>4. Delivered(b)'
    <3>1. ASSUME Live(b)
          PROVE  Played(b) <= F + 1 /\ Delivers(channel'[b], Played(b), F + 1)
      <4>1. Played(b) <= F /\ Delivers(channel[b], Played(b), F)
        <5>1. Delivered(b)
          BY DEF InvOf
        <5>2. PICK end \in Nat : /\ Played(b) <= end /\ end = Sent(a)
                                 /\ Delivers(channel[b], Played(b), end)
          BY <1>2, <1>7, <3>1, <5>1 DEF Delivered
        <5> QED BY <1>6, <5>2
      <4>2. Delivers(Append(channel[b], l), Played(b), F + 1)
        BY <1>3, <1>8, <4>1, AppendList
      <4>3. Played(b) <= F + 1
        BY <1>3, <4>1
      <4> QED BY <1>10, <3>1, <4>2, <4>3
    <3>2. F + 1 \in Nat /\ F + 1 <= Frame(a)' + 1
      BY <1>3, <1>4 DEF F
    <3> QED BY <1>2, <1>4, <1>6, <3>1, <3>2 DEF Delivered
  <2>5. Near(b)'
    BY <1>2, <1>4, <1>6, <1>10 DEF InvOf, Near, Reads
  <2>6. SameLists(b)'
    BY <1>2, <1>4, <1>10 DEF InvOf, SameLists
  <2>7. Consistent(b)'
    <3>1. Consistent(b)
      BY DEF InvOf
    <3>2. ~(l.frame + FrameDelta <= Frame(a))
      BY <1>1, <1>3, <1>8 DEF F
    <3> QED BY <1>2, <1>4, <1>10, <3>1, <3>2 DEF Consistent, Merged
  <2>8. Honest(b)'
    <3>1. Honest(a) /\ Honest(b)
      BY DEF InvOf
    <3>2. Holds(a, F)
      BY <1>1, <1>3 DEF Holds, F
    <3>3. NoDrift => TestOf(a, l)
      BY <1>3, <3>1, <3>2 DEF Honest, l
    <3> QED BY <1>2, <1>4, <1>5, <1>10, <1>11, <1>12, <3>1, <3>3 DEF Honest
  <2> QED BY <2>1, <2>2, <2>3, <2>4, <2>5, <2>6, <2>7, <2>8 DEF InvOf
<1> QED BY <1>13, <1>14

-----------------------------------------------------------------------------
(* The invariant of a session: what holds of each of the peers.            *)
SessionInv == TypeOK /\ \A p \in Peer : InvOf(p)

(* A session that starts, or no session yet: nothing is recorded, under    *)
(* way or replayed.                                                        *)
Fresh(p) ==
  /\ machine[p] = <<>> /\ drift[p] = None /\ channel[p] = <<>>
  /\ frame_event_list[p] = [i \in 0..FrameDelta-1 |-> EmptyList(0)]
  /\ current_frame[p] = 0 /\ ~frame_buffer_full[p] /\ pc[p] = "run" /\ ~out_of_sync[p]
  /\ HasSocket(p) /\ Linked(p)

(* Both are so.                                                            *)
FreshSession == TypeOK /\ \A p \in Peer : Fresh(p)

(* A session that starts satisfies the invariant.                          *)
LEMMA FreshIsInv == FreshSession => SessionInv
<1> SUFFICES ASSUME FreshSession, NEW a \in Peer
             PROVE  InvOf(a)
  BY DEF FreshSession, SessionInv
<1> DEFINE b == Other(a)
<1>1. FrameDelta \in Nat /\ FrameDelta >= 2 /\ FrameDelta > 0
  BY FrameDeltaAssumption
<1>2. b \in Peer /\ b # a /\ Other(b) = a
  BY TwoPeers
<1>3. Fresh(a) /\ Fresh(b)
  BY <1>2 DEF FreshSession
<1>4. /\ Frame(a) = 0 /\ Frame(b) = 0 /\ Sent(a) = 0 /\ Sent(b) = 0
      /\ Played(a) = 0 /\ Played(b) = 0
  <2>1. Frame(a) = 0 /\ Frame(b) = 0
    BY <1>3 DEF Fresh, Frame
  <2> QED BY <1>1, <1>3, <2>1 DEF Fresh, Sent, Played
<1>5. Lists(channel[a]) = {} /\ Lists(channel[b]) = {} /\ Delivers(channel[a], 0, 0)
  BY <1>3, NoLists DEF Fresh
<1> HIDE DEF b
<1>6. \A n \in Nat : OwnList(a, n) = EmptyList(0)
  <2>1. \A n \in Nat : n % FrameDelta \in 0..FrameDelta-1
    BY <1>1, ModFacts
  <2> QED BY <1>3, <2>1 DEF Fresh, OwnList
<1>7. \A n \in Nat : Holds(a, n) => n = 0
  BY <1>4 DEF Holds
<1>8. Ring(a)
  <2>1. 0 % FrameDelta = 0
    BY <1>1, ModFacts
  <2>2. \A n \in Nat : Holds(a, n) => OwnList(a, n).frame = n
    BY <1>6, <1>7 DEF EmptyList
  <2> QED BY <1>1, <1>3, <1>4, <2>1, <2>2 DEF Fresh, Ring
<1>9. Quiet(a) /\ Agree(a) /\ Alarmed(a)
  BY <1>3, <1>4 DEF Fresh, Quiet, Agree, Alarmed
<1>10. Delivered(a) /\ Near(a)
  BY <1>1, <1>4, <1>5 DEF Delivered, Near, b
<1>11. SameLists(a) /\ Consistent(a)
  BY <1>5 DEF SameLists, Consistent, b
<1>12. Honest(a)
  <2>1. ~OpensWithTest(EmptyList(0))
    BY DEF OpensWithTest, EmptyList
  <2>2. \A n \in Nat : TestOf(a, OwnList(a, n))
    BY <1>6, <2>1 DEF TestOf
  <2> QED BY <1>5, <2>2 DEF Honest
<1> QED BY <1>3, <1>8, <1>9, <1>10, <1>11, <1>12 DEF InvOf, Fresh

(* So does the first state, without a session.                             *)
LEMMA InitInv == Init => SessionInv
<1> SUFFICES ASSUME Init PROVE FreshSession
  BY FreshIsInv
<1>1. \A p \in Peer : Other(p) \in Peer
  BY TwoPeers
<1>2. \A p \in Peer : ~Connected(p) /\ ~Live(p)
  BY DEF Init, Connected, Live
<1>3. \A p \in Peer : HasSocket(p) /\ Linked(p)
  BY <1>2 DEF HasSocket, Linked, BothLive
<1>4. \A p \in Peer : Fresh(p)
  BY <1>3 DEF Init, Fresh
<1> QED BY <1>4, InitType DEF FreshSession

(* Every step keeps the invariant, action by action.                       *)
LEMMA NextInv ==
  ASSUME SessionInv, [Next]_vars
  PROVE  SessionInv'
<1>1. TypeOK /\ TypeOK' /\ \A p \in Peer : InvOf(p)
  BY NextType DEF SessionInv
<1>2. \A a \in Peer : Other(a) \in Peer /\ \A p \in Peer : p = a \/ p = Other(a)
  BY TwoPeers
<1>3. ASSUME NEW a \in Peer, InvOf(a)' /\ InvOf(Other(a))'
      PROVE  SessionInv'
  BY <1>1, <1>2, <1>3 DEF SessionInv
<1>4. ASSUME NEW a \in Peer, network_event_record_sync_test(a)
      PROVE  SessionInv'
  <2> DEFINE event == [type |-> "sync test", data |-> Registers(a)]
  <2>1. event \in Recordable(a)
    <3>1. event \in SyncTest
      BY DEF Registers, RegistersOf, SyncTest
    <3> QED BY <3>1 DEF Recordable
  <2>2. /\ Record(a, event) /\ pc[a] = "run"
        /\ UNCHANGED <<mode, network_socket, used, current_frame, frame_to_play,
                       frame_buffer_full, pc, out_of_sync, machine, drift, channel, link>>
    BY <1>4 DEF network_event_record_sync_test, session, emulation, network
  <2> HIDE DEF event
  <2> QED BY <1>1, <1>2, <1>3, <2>1, <2>2, Records
<1>5. ASSUME NEW a \in Peer, Input(a)
      PROVE  SessionInv'
  <2> DEFINE event == [type |-> "input", by |-> a, frame |-> Frame(a)]
  <2>1. event \in Recordable(a)
    <3>1. Frame(a) \in Nat
      BY <1>1, PeerTypes
    <3> QED BY <3>1 DEF Recordable, InputEvent
  <2>2. /\ Record(a, event) /\ pc[a] = "run"
        /\ UNCHANGED <<mode, network_socket, used, current_frame, frame_to_play,
                       frame_buffer_full, pc, out_of_sync, machine, drift, channel, link>>
    BY <1>5 DEF Input, session, emulation, network
  <2> HIDE DEF event
  <2> QED BY <1>1, <1>2, <1>3, <2>1, <2>2, Records
<1>6. ASSUME NEW a \in Peer, HookSend(a)
      PROVE  SessionInv'
  <2> DEFINE b == Other(a)
  <2>1. /\ pc[a] = "run" /\ Connected(a) /\ pc' = [pc EXCEPT ![a] = "receive"]
        /\ network_hook_connected_send(a)
        /\ UNCHANGED <<frame_event_list, current_frame, frame_to_play, out_of_sync,
                       machine, drift>>
        /\ frame_buffer_full' = [frame_buffer_full EXCEPT
                                   ![a] = @ \/ current_frame[a] = FrameDelta - 1]
    BY <1>6 DEF HookSend, emulation
  <2>2. b \in Peer /\ b # a
    BY TwoPeers
  <2>3. /\ pc'[a] = "receive" /\ pc'[b] = pc[b]
        /\ frame_buffer_full'[b] = frame_buffer_full[b]
        /\ frame_buffer_full'[a] <=> frame_buffer_full[a] \/ current_frame[a] = FrameDelta - 1
    <3>1. pc \in [Peer -> {"run", "receive"}] /\ frame_buffer_full \in [Peer -> BOOLEAN]
      BY <1>1 DEF TypeOK
    <3> QED BY <2>1, <2>2, <3>1
  <2>4. Ring(a)'
    <3>1. FrameDelta \in Nat /\ FrameDelta >= 2 /\ FrameDelta > 0
      BY FrameDeltaAssumption
    <3>2. Frame(a) \in Nat
      BY <1>1, PeerTypes
    <3>3. /\ Frame(a)' = Frame(a)
          /\ \A n : OwnList(a, n)' = OwnList(a, n)
          /\ \A n : Holds(a, n)' = Holds(a, n)
      BY <2>1 DEF Frame, OwnList, Holds
    <3>4. Sent(a) = Frame(a) /\ Sent(a)' = Frame(a) + 1
      BY <2>1, <2>3, <3>3 DEF Sent
    <3>5. Ring(a)
      BY <1>1 DEF InvOf
    <3>6. ~frame_buffer_full[a] => current_frame[a] = Frame(a)
      <4>1. Frame(a) < FrameDelta => Frame(a) % FrameDelta = Frame(a)
        BY <3>1, <3>2, ModFacts
      <4>2. ~frame_buffer_full[a] => Frame(a) < FrameDelta
        BY <3>1, <3>2, <3>4, <3>5 DEF Ring
      <4> QED BY <3>5, <4>1, <4>2 DEF Ring
    <3>7. frame_buffer_full'[a] => Frame(a) >= FrameDelta - 1
      BY <2>3, <3>1, <3>2, <3>5, <3>6 DEF Ring
    <3>8. ~frame_buffer_full'[a] => Frame(a) + 1 <= FrameDelta - 1
      BY <2>3, <3>1, <3>2, <3>4, <3>5, <3>6 DEF Ring
    <3> QED BY <2>1, <3>3, <3>4, <3>5, <3>7, <3>8 DEF Ring
  <2>5. CASE SendOk(a, frame_event_list[a][current_frame[a]]) /\ UNCHANGED session
    BY <1>1, <1>2, <1>3, <2>1, <2>3, <2>4, <2>5, Sends DEF session
  <2>6. CASE Disconnect(a, channel[a])
    BY <1>1, <1>2, <1>3, <2>1, <2>3, <2>4, <2>6, Leaves
  <2> QED BY <2>1, <2>5, <2>6 DEF network_hook_connected_send
<1>7. ASSUME NEW a \in Peer, NothingToPlay(a)
      PROVE  SessionInv'
  BY <1>1, <1>2, <1>3, <1>7, NothingToPlayKeeps
<1>8. ASSUME NEW a \in Peer, ReceiveList(a)
      PROVE  SessionInv'
  BY <1>1, <1>2, <1>3, <1>8, ReceiveListKeeps
<1>9. ASSUME NEW a \in Peer, ReceiveFails(a) \/ UserDisconnects(a)
      PROVE  SessionInv'
  <2>1. PICK u : Disconnect(a, u)
    BY <1>9 DEF ReceiveFails, UserDisconnects
  <2>2. /\ UNCHANGED <<frame_event_list, current_frame, frame_to_play, frame_buffer_full,
                       machine, drift, out_of_sync>>
        /\ pc' = pc \/ pc' = [pc EXCEPT ![a] = "run"]
    BY <1>9 DEF ReceiveFails, UserDisconnects, buffer, emulation
  <2>3. pc'[Other(a)] = pc[Other(a)] /\ (pc'[a] = "receive" => pc[a] = "receive")
    <3>1. pc \in [Peer -> {"run", "receive"}] /\ Other(a) \in Peer /\ Other(a) # a
      BY <1>1, TwoPeers DEF TypeOK
    <3> QED BY <2>2, <3>1
  <2>4. Ring(a)'
    <3>1. /\ Frame(a)' = Frame(a)
          /\ \A n : OwnList(a, n)' = OwnList(a, n)
          /\ \A n : Holds(a, n)' = Holds(a, n)
      BY <2>2 DEF Frame, OwnList, Holds
    <3>2. Frame(a) \in Nat /\ FrameDelta \in Nat
      BY <1>1, PeerTypes, FrameDeltaAssumption
    <3>3. Sent(a)' <= Sent(a)
      BY <2>3, <3>1, <3>2 DEF Sent
    <3>4. Ring(a) /\ Sent(a) \in Nat /\ Sent(a)' \in Nat
      BY <1>1, PeerTypes DEF InvOf
    <3>5. Sent(a) <= FrameDelta - 1 => Sent(a)' <= FrameDelta - 1
      BY <3>2, <3>3, <3>4
    <3> QED BY <2>2, <3>1, <3>4, <3>5 DEF Ring
  <2> QED BY <1>1, <1>2, <1>3, <2>1, <2>2, <2>3, <2>4, Leaves
<1>10. ASSUME NEW s \in Peer, NEW c \in Peer, Connect(s, c)
       PROVE  SessionInv'
  <2>1. s # c /\ \A p \in Peer : p = s \/ p = c
    BY <1>10, <1>2, TwoPeers DEF Connect
  <2>2. Other(s) = c /\ Other(c) = s
    BY <2>1, TwoPeers
  <2>3. /\ mode'[s] = "server connected" /\ mode'[c] = "client"
        /\ \A p \in Peer : network_socket'[p] = FreeSlot(p) /\ FreeSlot(p) \in used'[p]
        /\ \A p \in Peer : link'[p] = "up"
    <3>1. mode \in [Peer -> {"idle", "server", "server connected", "client"}]
      BY <1>1 DEF TypeOK
    <3>2. mode' = [mode EXCEPT ![s] = "server connected", ![c] = "client"]
      BY <1>10 DEF Connect
    <3>3. mode'[s] = "server connected" /\ mode'[c] = "client"
      BY <2>1, <3>1, <3>2
    <3> QED BY <1>10, <3>3 DEF Connect
  <2>4. \A p \in Peer : Open(p)' /\ Connected(p)' /\ Live(p)'
    BY <2>1, <2>3 DEF Open, Connected, Live
  <2>5. \A p \in Peer : HasSocket(p)' /\ Linked(p)'
    BY <2>1, <2>2, <2>3, <2>4 DEF HasSocket, Linked
  <2>6. \A p \in Peer :
          /\ machine'[p] = <<>> /\ drift'[p] = None /\ channel'[p] = <<>>
          /\ frame_event_list'[p] = [i \in 0..FrameDelta-1 |-> EmptyList(0)]
          /\ current_frame'[p] = 0 /\ ~frame_buffer_full'[p] /\ pc'[p] = "run"
          /\ ~out_of_sync'[p]
    <3>1. \A p \in Peer : pc'[p] = "run"
      BY <1>10, <2>1 DEF Connect
    <3> QED BY <1>10, <3>1 DEF Connect, InitFrameEventList
  <2>7. \A p \in Peer : Fresh(p)'
    BY <2>5, <2>6 DEF Fresh
  <2>8. FreshSession'
    BY <1>1, <2>7 DEF FreshSession
  <2> QED BY <2>8, FreshIsInv, PTL
<1> DEFINE Still ==
      /\ UNCHANGED <<frame_event_list, current_frame, frame_to_play, frame_buffer_full,
                     machine, out_of_sync>>
      /\ NoDrift' => NoDrift
      /\ \A q \in Peer :
           /\ Live(q)' = Live(q) /\ HasSocket(q)'
           /\ Connected(q) => mode'[q] = mode[q]
           /\ link'[q] = link[q] \/ (link[q] # "up" /\ link'[q] # "up")
           /\ Lists(channel'[q]) = Lists(channel[q])
           /\ Ordered(channel[q]) => Ordered(channel'[q])
           /\ Reads(q)' => Reads(q)
           /\ Sent(q)' = Sent(q) \/ (Sent(q)' <= Sent(q) /\ ~Reads(q) /\ ~BothLive(q))
<1>11. ASSUME Still PROVE SessionInv'
  <2>1. ASSUME NEW p \in Peer PROVE InvOf(p)'
    BY <1>1, <1>11, Calm
  <2> QED BY <1>1, <2>1 DEF SessionInv
<1>12. \A q \in Peer : HasSocket(q)
  BY <1>1 DEF InvOf
<1>13. ASSUME NEW a \in Peer, network_start_server(a)
       PROVE  SessionInv'
  <2>1. /\ mode[a] = "idle" /\ mode' = [mode EXCEPT ![a] = "server"]
        /\ used' = [used EXCEPT ![a] = @ \cup {FreeSlot(a)}]
        /\ UNCHANGED <<network_socket, frame_event_list, current_frame, frame_to_play,
                       frame_buffer_full, machine, drift, out_of_sync, pc, channel, link>>
    BY <1>13 DEF network_start_server, buffer, emulation, network
  <2>2. \A q \in Peer : /\ Live(q)' = Live(q) /\ HasSocket(q)'
                        /\ Connected(q) => mode'[q] = mode[q]
    <3>1. ASSUME NEW q \in Peer
          PROVE  /\ Live(q)' = Live(q) /\ HasSocket(q)'
                 /\ Connected(q) => mode'[q] = mode[q]
      <4>1. CASE q = a
        BY <1>1, <2>1, <4>1 DEF Live, HasSocket, Connected, TypeOK
      <4>2. CASE q # a
        BY <1>1, <1>12, <2>1, <4>2 DEF Live, HasSocket, Connected, Open, TypeOK
      <4> QED BY <4>1, <4>2
    <3> QED BY <3>1
  <2>3. \A q \in Peer : (Reads(q)' => Reads(q)) /\ Sent(q)' = Sent(q)
    BY <2>1, <2>2 DEF Reads, Sent, Frame
  <2>4. NoDrift' => NoDrift
    BY <2>1 DEF NoDrift
  <2> QED BY <1>11, <2>1, <2>2, <2>3, <2>4
<1>14. ASSUME UNCHANGED <<mode, network_socket, used, frame_event_list, current_frame,
                          frame_to_play, frame_buffer_full, machine, out_of_sync, pc,
                          channel, link>>,
              NoDrift' => NoDrift
       PROVE  SessionInv'
  <2>1. \A q \in Peer : /\ Live(q)' = Live(q) /\ HasSocket(q)'
                        /\ Reads(q)' = Reads(q) /\ Sent(q)' = Sent(q)
    BY <1>12, <1>14 DEF Live, HasSocket, Connected, Open, Reads, Sent, Frame
  <2> QED BY <1>11, <1>14, <2>1
<1>15. ASSUME NEW a \in Peer, LoseSyncTest(a)
       PROVE  SessionInv'
  <2>1. UNCHANGED <<mode, network_socket, used, frame_event_list, current_frame,
                    frame_to_play, frame_buffer_full, machine, drift, out_of_sync, pc,
                    channel, link>>
    BY <1>15 DEF LoseSyncTest, session, buffer, emulation, network
  <2> QED BY <1>14, <2>1 DEF NoDrift
<1>16. ASSUME NEW a \in Peer, Drift(a)
       PROVE  SessionInv'
  <2>1. UNCHANGED <<mode, network_socket, used, frame_event_list, current_frame,
                    frame_to_play, frame_buffer_full, machine, out_of_sync, pc,
                    channel, link>>
    BY <1>16 DEF Drift, session, buffer, network
  <2>2. ~NoDrift'
    <3>1. drift \in [Peer -> Nat \cup {None}] /\ drift' = [drift EXCEPT ![a] = Frame(a)]
      BY <1>1, <1>16 DEF Drift, TypeOK
    <3>2. Frame(a) \in Nat
      BY <1>1, PeerTypes
    <3>3. drift'[a] = Frame(a)
      BY <3>1
    <3> QED BY <3>2, <3>3, SlotAssumption DEF NoDrift
  <2> QED BY <1>14, <2>1, <2>2
<1>17. ASSUME NEW a \in Peer, network_suspend(a)
       PROVE  SessionInv'
  <2>1. /\ SendOk(a, Suspending) \/ UNCHANGED network
        /\ Connected(a)
        /\ UNCHANGED <<mode, network_socket, used, frame_event_list, current_frame,
                       frame_to_play, frame_buffer_full, machine, drift, out_of_sync, pc>>
    BY <1>17 DEF network_suspend, session, buffer, emulation
  <2>2. \A q \in Peer : /\ Live(q)' = Live(q) /\ HasSocket(q)'
                        /\ Sent(q)' = Sent(q) /\ mode'[q] = mode[q]
    BY <1>12, <2>1 DEF Live, HasSocket, Connected, Open, Sent, Frame
  <2>3. NoDrift' => NoDrift
    BY <2>1 DEF NoDrift
  <2> DEFINE b == Other(a)
  <2>4. b \in Peer /\ b # a /\ \A q \in Peer : q = a \/ q = b
    BY TwoPeers
  <2>5. channel[a] \in Stream /\ channel[b] \in Stream
    BY <1>1, <2>4, PeerTypes
  <2>6. /\ channel \in [Peer -> Stream]
        /\ link \in [Peer -> {"up", "eof", "gone", "reset"}]
    BY <1>1 DEF TypeOK, Stream
  <2>7. \A q \in Peer :
          /\ link'[q] = link[q] \/ (link[q] = "eof" /\ link'[q] # "up")
          /\ channel'[q] = channel[q]
             \/ (q = b /\ link[a] = "up" /\ link' = link /\ channel'[q] = Append(channel[q], Suspending))
    <3>1. CASE UNCHANGED network
      BY <3>1 DEF network
    <3>2. CASE link[a] = "up" /\ channel' = [channel EXCEPT ![b] = Append(@, Suspending)] /\ link' = link
      BY <2>4, <2>6, <3>2
    <3>3. CASE /\ link[a] = "eof" /\ channel' = channel
               /\ \E known \in {"eof", "gone"} : link' = [link EXCEPT ![a] = known]
      BY <2>4, <2>6, <3>3
    <3> QED BY <2>1, <3>1, <3>2, <3>3 DEF SendOk
  <2>8. link[a] = "up" /\ Live(b) => link[b] = "up"
    <3>1. Live(a)
      BY <1>12, <2>1 DEF HasSocket, Live
    <3>2. Other(b) = a
      BY TwoPeers
    <3> QED BY <1>1, <2>4, <3>1, <3>2 DEF InvOf, Linked, BothLive
  <2> HIDE DEF b
  <2>9. ASSUME NEW q \in Peer
        PROVE  /\ Lists(channel'[q]) = Lists(channel[q])
               /\ Ordered(channel[q]) => Ordered(channel'[q])
               /\ Reads(q)' => Reads(q)
    <3>1. CASE channel'[q] = channel[q]
      BY <2>2, <2>7, <3>1 DEF Reads
    <3>2. CASE q = b /\ link[a] = "up" /\ link' = link /\ channel'[q] = Append(channel[q], Suspending)
      BY <2>2, <2>5, <2>8, <3>2, AppendSuspending DEF Reads
    <3> QED BY <2>7, <3>1, <3>2
  <2> QED BY <1>11, <2>1, <2>2, <2>3, <2>7, <2>9
<1>18. ASSUME NEW a \in Peer, ReceiveSuspend(a)
       PROVE  SessionInv'
  <2>1. /\ Live(a) /\ channel[a] # <<>> /\ Head(channel[a]) = Suspending
        /\ channel' = [channel EXCEPT ![a] = Tail(@)]
        /\ UNCHANGED <<mode, network_socket, used, frame_event_list, current_frame,
                       frame_to_play, frame_buffer_full, machine, drift, out_of_sync, pc, link>>
    BY <1>18 DEF ReceiveSuspend, session, buffer, emulation
  <2>2. \A q \in Peer : /\ Live(q)' = Live(q) /\ HasSocket(q)'
                        /\ Sent(q)' = Sent(q) /\ mode'[q] = mode[q] /\ link'[q] = link[q]
    BY <1>12, <2>1 DEF Live, HasSocket, Connected, Open, Sent, Frame
  <2>3. NoDrift' => NoDrift
    BY <2>1 DEF NoDrift
  <2>4. \A q \in Peer : channel'[q] = IF q = a THEN Tail(channel[q]) ELSE channel[q]
    BY <1>1, <2>1 DEF TypeOK
  <2>5. channel[a] \in Stream /\ Ordered(channel[a])
    BY <1>1, <2>1, PeerTypes DEF InvOf, Delivered, Delivers
  <2>6. Lists(Tail(channel[a])) = Lists(channel[a]) /\ Ordered(Tail(channel[a]))
    BY <2>1, <2>5, TailSuspending
  <2>7. \A q \in Peer : /\ Lists(channel'[q]) = Lists(channel[q])
                        /\ Ordered(channel[q]) => Ordered(channel'[q])
                        /\ Reads(q)' => Reads(q)
    BY <2>1, <2>2, <2>4, <2>6 DEF Reads
  <2> QED BY <1>11, <2>1, <2>2, <2>3, <2>7
<1>19. ASSUME NEW a \in Peer, ReceiveTorn(a)
       PROVE  SessionInv'
  <2>1. /\ Live(a) /\ link[a] = "reset" /\ channel[a] = <<>>
        /\ pc' = [pc EXCEPT ![a] = "run"]
        /\ UNCHANGED <<mode, network_socket, used, frame_event_list, current_frame,
                       frame_to_play, frame_buffer_full, machine, drift, out_of_sync,
                       channel, link>>
    BY <1>19 DEF ReceiveTorn, session, buffer, emulation, network
  <2>2. \A q \in Peer : /\ Live(q)' = Live(q) /\ HasSocket(q)' /\ Frame(q)' = Frame(q)
                        /\ Reads(q)' = Reads(q)
    BY <1>12, <2>1 DEF Live, HasSocket, Connected, Open, Reads, Frame
  <2>3. NoDrift' => NoDrift
    BY <2>1 DEF NoDrift
  <2>4. ~Reads(a) /\ ~BothLive(a)
    BY <1>1, <2>1 DEF Reads, InvOf, Linked
  <2>5. \A q \in Peer : pc'[q] = IF q = a THEN "run" ELSE pc[q]
    <3>1. pc \in [Peer -> {"run", "receive"}]
      BY <1>1 DEF TypeOK
    <3> QED BY <2>1, <3>1
  <2>6. ASSUME NEW q \in Peer
        PROVE  Sent(q)' = Sent(q) \/ (Sent(q)' <= Sent(q) /\ ~Reads(q) /\ ~BothLive(q))
    <3>1. CASE q # a
      <4>1. pc'[q] = pc[q]
        BY <2>5, <3>1
      <4> QED BY <2>2, <4>1 DEF Sent
    <3>2. CASE q = a
      <4>1. pc'[q] = "run" /\ Frame(q) \in Nat
        BY <1>1, <2>5, <3>2, PeerTypes
      <4>2. Sent(q)' <= Sent(q)
        BY <2>2, <4>1 DEF Sent
      <4> QED BY <2>4, <3>2, <4>2
    <3> QED BY <3>1, <3>2
  <2> QED BY <1>11, <2>1, <2>2, <2>3, <2>6
<1>20. CASE UNCHANGED vars
  <2>1. UNCHANGED <<mode, network_socket, used, frame_event_list, current_frame,
                    frame_to_play, frame_buffer_full, machine, drift, out_of_sync, pc,
                    channel, link>>
    BY <1>20 DEF vars, session, buffer, emulation, network
  <2> QED BY <1>14, <2>1 DEF NoDrift
<1>21. ASSUME NEW a \in Peer, Emulate(a)
       PROVE  SessionInv'
  BY <1>4, <1>6, <1>7, <1>8, <1>9, <1>18, <1>19, <1>20, <1>21 DEF Emulate, ReceiveSpins
<1> QED
  BY <1>5, <1>9, <1>10, <1>13, <1>15, <1>16, <1>17, <1>20, <1>21 DEF Next, Rest

(* Whatever the two sides do, and whatever becomes of the streams between  *)
(* them, the invariant of a session holds.                                 *)
THEOREM SessionInvariant == Spec => []SessionInv
<1>1. Init => SessionInv
  BY InitInv
<1>2. SessionInv /\ [Next]_vars => SessionInv'
  BY NextInv
<1> QED BY <1>1, <1>2, PTL DEF Spec

-----------------------------------------------------------------------------
(* The ring and the streams give a peer the two lists that are due.        *)
LEMMA SessionPlaysOnTime == SessionInv => PlaysOnTime
<1> SUFFICES ASSUME SessionInv, NEW p \in Peer, Live(p)
             PROVE  LET lists == {i \in DOMAIN channel[p] : channel[p][i] # Suspending}
                        frames == {channel[p][i].frame : i \in lists}
                    IN
                    /\ frame_event_list[p][current_frame[p]].frame = Frame(p)
                    /\ Waiting(p) => frame_event_list[p][frame_to_play[p]].frame = Played(p)
                    /\ \A i, j \in lists : i < j => channel[p][i].frame < channel[p][j].frame
                    /\ \A n \in frames : Played(p) <= n /\ Played(p)..n \subseteq frames
  BY DEF PlaysOnTime
<1> DEFINE ch == channel[p]
           lists == {i \in DOMAIN ch : ch[i] # Suspending}
           frames == {ch[i].frame : i \in lists}
           F == Frame(p)
           n == Played(p)
<1>1. FrameDelta \in Nat /\ FrameDelta >= 2 /\ FrameDelta > 0
  BY FrameDeltaAssumption
<1>2. F \in Nat /\ n \in Nat
  <2>1. F \in Nat
    <3>1. machine[p] \in Seq(Seq(InputEvent))
      BY DEF SessionInv, TypeOK
    <3> QED BY <3>1 DEF Frame
  <2> QED BY <1>1, <2>1 DEF Played
<1>3. Ring(p) /\ Delivered(p)
  BY DEF SessionInv, InvOf
<1>4. \A k \in Nat : Holds(p, k) <=> k <= F /\ F < k + FrameDelta
  BY DEF Holds
<1>5. Waiting(p) => F + 1 = n + FrameDelta
  <2>1. Waiting(p) => F >= FrameDelta - 1
    BY <1>3 DEF Ring, Waiting
  <2> QED BY <1>1, <1>2, <2>1 DEF Played
<1> HIDE DEF F, n
<1>6. frame_event_list[p][current_frame[p]].frame = F
  <2>1. Holds(p, F)
    BY <1>1, <1>2, <1>4
  <2> QED BY <1>2, <1>3, <2>1 DEF Ring, OwnList, F
<1>7. Waiting(p) => frame_event_list[p][frame_to_play[p]].frame = n
  <2> SUFFICES ASSUME Waiting(p)
               PROVE  frame_event_list[p][frame_to_play[p]].frame = n
    OBVIOUS
  <2>1. F > 0 /\ Holds(p, n)
    BY <1>1, <1>2, <1>4, <1>5
  <2>2. frame_to_play[p] = (F + 1) % FrameDelta
    BY <1>3, <2>1 DEF Ring, F
  <2>3. (F + 1) % FrameDelta = n % FrameDelta
    BY <1>1, <1>2, <1>5, ModAgain
  <2> QED BY <1>2, <1>3, <2>1, <2>2, <2>3 DEF Ring, OwnList
<1>8. PICK end \in Nat : Ordered(ch) /\ FramesOf(ch) = n .. end - 1
  BY <1>3 DEF Delivered, Delivers, n
<1>9. \A i, j \in lists : i < j => ch[i].frame < ch[j].frame
  BY <1>8 DEF Ordered
<1>10. frames = FramesOf(ch)
  BY DEF FramesOf, Lists
<1>11. \A k \in frames : n <= k /\ n .. k \subseteq frames
  <2>1. frames = n .. end - 1
    BY <1>8, <1>10
  <2> HIDE DEF frames, ch
  <2> QED BY <1>2, <2>1
<1> QED BY <1>6, <1>7, <1>9, <1>11 DEF F, n

(* A list is replayed FrameDelta - 1 frames after its recording, own and   *)
(* remote alike, however long the delay, whatever was lost or cut off, and *)
(* through any number of sessions.                                         *)
THEOREM ReplayIsOnTime == Spec => []PlaysOnTime
<1>1. SessionInv => PlaysOnTime
  BY SessionPlaysOnTime
<1> QED BY <1>1, SessionInvariant, PTL

(* The out-of-sync error is never raised against machines that agree.      *)
THEOREM AlarmIsTrue == Spec => []NoFalseAlarm
<1>1. SessionInv => NoFalseAlarm
  BY DEF SessionInv, InvOf, Alarmed, NoDrift, NoFalseAlarm
<1> QED BY <1>1, SessionInvariant, PTL

-----------------------------------------------------------------------------
(* A sequence is a prefix of another if it is no longer and agrees.        *)
LEMMA PrefixOf ==
  ASSUME NEW S, NEW s \in Seq(S), NEW t \in Seq(S), Len(s) <= Len(t),
         \A k \in 1..Len(s) : s[k] = t[k]
  PROVE  IsPrefix(s, t)
<1>1. /\ SubSeq(s, 1, Len(s)) = [k \in 1..Len(s) |-> s[k]]
      /\ SubSeq(t, 1, Len(s)) = [k \in 1..Len(s) |-> t[k]]
  OBVIOUS
<1> QED BY <1>1 DEF IsPrefix

(* A frame that ends is a frame of the service, if the peer is not too far *)
(* ahead.                                                                  *)
LEMMA FrameIsService ==
  ASSUME SessionInv, SessionInv', NEW a \in Peer, NEW b \in Peer, b = Other(a),
         NEW events \in Seq(InputEvent), FinishFrame(a, events),
         Frame(a) < Frame(b) + FrameDelta
  PROVE  Service!FinishFrame(a)
<1>1. TypeOK /\ TypeOK' /\ Ring(a) /\ Agree(a)' /\ a # b /\ b # a
  BY TwoPeers DEF SessionInv, InvOf
<1>2. /\ Frame(a)' = Frame(a) + 1 /\ Frame(b)' = Frame(b)
      /\ machine'[a] = Append(machine[a], events) /\ machine'[b] = machine[b]
      /\ \A k \in 1..Frame(a) : machine'[a][k] = machine[a][k]
  BY <1>1, Finishes
<1>3. /\ machine[a] \in Seq(Seq(InputEvent)) /\ machine'[a] \in Seq(Seq(InputEvent))
      /\ machine[b] \in Seq(Seq(InputEvent))
  BY <1>1 DEF TypeOK
<1>4. /\ Len(machine[a]) = Frame(a) /\ Len(machine[b]) = Frame(b)
      /\ Len(machine'[a]) = Frame(a) + 1
      /\ Frame(a) \in Nat /\ Frame(b) \in Nat
  BY <1>2, <1>3 DEF Frame
<1>5. IsPrefix(machine[a], machine'[a])
  <2>1. Len(machine[a]) <= Len(machine'[a])
    BY <1>4
  <2>2. \A k \in 1..Len(machine[a]) : machine[a][k] = machine'[a][k]
    BY <1>2, <1>4
  <2> QED BY <1>3, <2>1, <2>2, PrefixOf
<1>6. Frame(a) < Frame(b) => IsPrefix(machine'[a], machine[b])
  <2> SUFFICES ASSUME Frame(a) < Frame(b) PROVE IsPrefix(machine'[a], machine[b])
    OBVIOUS
  <2>1. \A k \in 1..Frame(a) + 1 : k <= Frame(b)
    BY <1>4
  <2>2. \A k \in 1..Frame(a) + 1 : k <= Frame(b) => machine'[a][k] = machine'[b][k]
    BY <1>1, <1>2 DEF Agree
  <2>3. \A k \in 1..Len(machine'[a]) : machine'[a][k] = machine[b][k]
    BY <1>2, <1>4, <2>1, <2>2
  <2>4. Len(machine'[a]) <= Len(machine[b])
    BY <1>4
  <2> QED BY <1>3, <2>3, <2>4, PrefixOf
<1>7. \A q \in Peer \ {a} : q = b
  BY TwoPeers
<1>8. /\ Service!Frames(a)' = Service!Frames(a) + 1
      /\ Service!Frames(a) = Frame(a) /\ Service!Frames(b) = Frame(b)
  BY <1>4 DEF Service!Frames
<1>9. ASSUME NEW q \in Peer \ {a}
      PROVE  /\ machine'[q] = machine[q]
             /\ Service!Frames(a) < Service!Frames(q) => IsPrefix(machine'[a], machine[q])
             /\ Service!Frames(a) < Service!Frames(q) + FrameDelta
  BY <1>2, <1>6, <1>7, <1>8
<1>10. \A s, t : Service!IsPrefix(s, t) <=> IsPrefix(s, t)
  BY DEF Service!IsPrefix, IsPrefix
<1> QED BY <1>5, <1>8, <1>9, <1>10 DEF Service!FinishFrame

(* A step of the two emulators is a step of the service or does not touch  *)
(* the histories.                                                          *)
LEMMA StepIsService ==
  ASSUME SessionInv, SessionInv', [Next]_vars
  PROVE  [Service!Next]_machine
<1>1. TypeOK /\ TypeOK' /\ \A p \in Peer : InvOf(p)
  BY DEF SessionInv
<1>2. FrameDelta \in Nat /\ FrameDelta >= 2
  BY FrameDeltaAssumption
<1>3. ASSUME NEW a \in Peer, NothingToPlay(a)
      PROVE  Service!Next
  <2> DEFINE b == Other(a)
  <2>1. b \in Peer /\ Frame(a) \in Nat /\ Frame(b) \in Nat
    BY <1>1, TwoPeers, PeerTypes
  <2>2. FinishFrame(a, <<>>) /\ <<>> \in Seq(InputEvent)
    BY <1>3 DEF NothingToPlay
  <2>3. Frame(a) + 1 < FrameDelta
    BY <1>1, <1>2, <1>3, <2>1 DEF NothingToPlay, InvOf, Ring, Sent
  <2>4. Frame(a) < Frame(b) + FrameDelta
    BY <1>2, <2>1, <2>3
  <2> QED BY <2>1, <2>2, <2>4, FrameIsService DEF Service!Next
<1>4. ASSUME NEW a \in Peer, ReceiveList(a)
      PROVE  Service!Next
  <2> DEFINE b == Other(a)
             h == Head(channel[a])
             own == frame_event_list[a][frame_to_play[a]]
             lists == ServerAndClient(a, h)
             events == Inputs(lists[1]) \o Inputs(lists[2])
  <2>1. b \in Peer /\ Frame(a) \in Nat /\ Frame(b) \in Nat
    BY <1>1, TwoPeers, PeerTypes
  <2>2. /\ Waiting(a) /\ Live(a) /\ channel[a] # <<>> /\ h # Suspending
        /\ FinishFrame(a, events)
    BY <1>4 DEF ReceiveList
  <2>3. /\ Played(a) \in Nat /\ Frame(a) + 1 = Played(a) + FrameDelta
        /\ Played(a) <= Frame(b) /\ h \in List /\ own \in List
    BY <1>1, <2>1, <2>2, ListMeets
  <2>4. Frame(a) < Frame(b) + FrameDelta
    BY <1>2, <2>1, <2>3
  <2>5. events \in Seq(InputEvent)
    <3>1. lists[1] \in {own, h} /\ lists[2] \in {own, h}
      BY DEF ServerAndClient
    <3> DEFINE x == Inputs(lists[1])
               y == Inputs(lists[2])
    <3>2. x \in Seq(InputEvent) /\ y \in Seq(InputEvent)
      BY <2>3, <3>1, InputsType
    <3> HIDE DEF x, y
    <3>3. x \o y \in Seq(InputEvent)
      BY <3>2
    <3> QED BY <3>3 DEF x, y
  <2> HIDE DEF events
  <2> QED BY <2>1, <2>2, <2>4, <2>5, FrameIsService DEF Service!Next
<1>5. ASSUME NEW s \in Peer, NEW c \in Peer, Connect(s, c)
      PROVE  Service!Next
  BY <1>5 DEF Connect, Service!Next, Service!StartSession
<1>6. ASSUME NEW a \in Peer,
             \/ network_event_record_sync_test(a) \/ HookSend(a) \/ ReceiveSuspend(a)
             \/ ReceiveFails(a) \/ ReceiveTorn(a) \/ network_start_server(a)
             \/ UserDisconnects(a) \/ Input(a) \/ LoseSyncTest(a) \/ Drift(a)
             \/ network_suspend(a)
      PROVE  UNCHANGED machine
  BY <1>6 DEF network_event_record_sync_test, HookSend, ReceiveSuspend, ReceiveFails,
              ReceiveTorn, network_start_server, UserDisconnects, Input, LoseSyncTest,
              Drift, network_suspend, emulation
<1>7. CASE UNCHANGED vars
  BY <1>7 DEF vars, emulation
<1> QED
  BY <1>3, <1>4, <1>5, <1>6, <1>7 DEF Next, Emulate, ReceiveSpins, Rest

(* The two machines stay in lockstep: frame by frame they replay the same  *)
(* events, and neither is more than FrameDelta frames ahead.               *)
THEOREM StaysInLockstep == Spec => IsLockstep
<1>1. Init => Service!Init
  BY DEF Init, Service!Init
<1>2. SessionInv /\ SessionInv' /\ [Next]_vars => [Service!Next]_machine
  BY StepIsService
<1> QED BY <1>1, <1>2, SessionInvariant, PTL DEF Spec, IsLockstep, Service!Spec
=============================================================================
