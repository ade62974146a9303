------------------------------- MODULE Netplay -------------------------------
(***************************************************************************)
(* Netplay: two emulators that run the same machine and exchange, once per *)
(* frame, the input events of that frame.  A peer replays the two lists of *)
(* a frame FrameDelta - 1 frames after they were recorded, so that lists   *)
(* travel while the emulation runs on.  Each list opens with a sync test:  *)
(* the CPU's registers, which must agree when the lists meet.  They are a  *)
(* function of what the machine has done and by no means tell all of it:   *)
(* different machines may well show the same registers.                    *)
(***************************************************************************)
EXTENDS Naturals, Sequences, SequencesExt, FiniteSets

CONSTANTS
  Peer,           \* the two emulators
  Slot,           \* the entries of an emulator's socket pool
  None,           \* no socket, no frame
  Suspending,     \* a length of zero, sent instead of a list
  FrameDelta,     \* frames between recording and replay, plus one
  Register,       \* the bits of PC, A, X, Y and SP
  On(_, _, _),    \* is a bit set, after this replay and that drift?
  MaxFrame,       \* bound: frames of a session
  Budget          \* bound: how often each kind of outside event happens

Outside == {"session", "input", "suspend", "lost test", "drift", "leave"}

ASSUME PeerAssumption == IsFiniteSet(Peer) /\ Cardinality(Peer) = 2
ASSUME SlotAssumption == Slot \subseteq Nat /\ IsFiniteSet(Slot) /\ None \notin Nat
ASSUME FrameDeltaAssumption == FrameDelta \in Nat /\ FrameDelta >= 2
ASSUME BoundsAssumption == MaxFrame \in Nat /\ Budget \in [Outside -> Nat]

VARIABLES
  mode,               \* network_mode
  listen_socket,      \* the socket the server waits on, or None
  network_socket,     \* the socket of the session, or None
  used,               \* socket_pool: the entries in use
  misclosed,          \* a socket was closed that was not open
  frame_event_list,   \* ring of the lists of the last FrameDelta frames
  current_frame,      \* the list that records
  frame_to_play,      \* the list that is replayed next
  frame_buffer_full,  \* there are lists old enough to replay
  suspended,          \* the other side was told, or has told, of a pause
  sync_trap,          \* the sync test of this frame is still to be taken
  pc,                 \* "run": emulating; "receive": inside the vsync hook
  out_of_sync,        \* a sync test failed in this session
  machine,            \* the machine: the events it replayed, frame by frame
  drift,              \* the frame in which a machine went its own way, or None
  channel,            \* TCP: what each peer has yet to read
  link,               \* TCP: what a peer's socket knows of the other end
  budget              \* what is left of Budget

session == <<mode, listen_socket, network_socket, used, misclosed>>
buffer == <<frame_event_list, current_frame, frame_to_play, frame_buffer_full>>
emulation == <<machine, drift>>
network == <<channel, link>>

vars == <<session, buffer, suspended, sync_trap, pc, out_of_sync, emulation,
          network, budget>>

Connected(p) == mode[p] \in {"server connected", "client"}

Other(p) == CHOOSE q \in Peer : q # p

Open(p) == network_socket[p] \in used[p]

Live(p) == Connected(p) /\ Open(p)

(* The number of the frame a peer emulates: every finished frame leaves    *)
(* its entry in the history of the machine.                                *)
Frame(p) == Len(machine[p])

Spend(what) ==
  /\ budget[what] > 0
  /\ budget' = [budget EXCEPT ![what] = @ - 1]

Spent(what) == Budget[what] - budget[what]

RegistersOf(replayed, gone) == {r \in Register : On(r, replayed, gone)}

(* All that the sync test sees of a machine.                               *)
Registers(p) == RegistersOf(machine[p], drift[p])

EmptyList(n) == [frame |-> n, events |-> <<>>]

Init ==
  /\ mode = [p \in Peer |-> "idle"]
  /\ listen_socket = [p \in Peer |-> None]
  /\ network_socket = [p \in Peer |-> None]
  /\ used = [p \in Peer |-> {}]
  /\ misclosed = [p \in Peer |-> FALSE]
  /\ frame_event_list = [p \in Peer |-> [i \in 0..FrameDelta-1 |-> EmptyList(0)]]
  /\ current_frame = [p \in Peer |-> 0]
  /\ frame_to_play = [p \in Peer |-> 0]
  /\ frame_buffer_full = [p \in Peer |-> FALSE]
  /\ suspended = [p \in Peer |-> FALSE]
  /\ sync_trap = [p \in Peer |-> FALSE]
  /\ pc = [p \in Peer |-> "run"]
  /\ out_of_sync = [p \in Peer |-> FALSE]
  /\ machine = [p \in Peer |-> <<>>]
  /\ drift = [p \in Peer |-> None]
  /\ channel = [p \in Peer |-> <<>>]
  /\ link = [p \in Peer |-> "up"]
  /\ budget = Budget

-----------------------------------------------------------------------------
(* The streams.  A peer that closes its end with lists unread resets the   *)
(* stream, and the other end may lose what it has not read itself.  If the *)
(* lists are still under way, or there are none, the other end reads to    *)
(* the end of the stream; from then on recv returns 0.                     *)

(* p closes its end and never reads `unread'.                              *)
CloseStream(p, unread) ==
  LET q == Other(p) IN
  \/ /\ ~Live(q) \/ link[q] # "up"
     /\ channel' = [channel EXCEPT ![p] = <<>>]
     /\ UNCHANGED link
  \/ /\ Live(q) /\ link[q] = "up"
     /\ channel' = [channel EXCEPT ![p] = <<>>]
     /\ link' = [link EXCEPT ![q] = "eof"]
  \/ /\ Live(q) /\ link[q] = "up" /\ unread # <<>>
     /\ \E kept \in {channel[q], <<>>} :
          channel' = [channel EXCEPT ![p] = <<>>, ![q] = kept]
     /\ link' = [link EXCEPT ![q] = "reset"]

(* A send after the other end has closed is accepted and lost, until the   *)
(* reset it provokes arrives.                                              *)
SendOk(p, message) ==
  LET q == Other(p) IN
  \/ /\ link[p] = "up"
     /\ channel' = [channel EXCEPT ![q] = Append(@, message)]
     /\ UNCHANGED link
  \/ /\ link[p] = "eof"
     /\ \E known \in {"eof", "gone"} : link' = [link EXCEPT ![p] = known]
     /\ UNCHANGED channel

SendFails(p) == link[p] \in {"gone", "reset"}

-----------------------------------------------------------------------------
(* Starting and ending a session.                                          *)

FreeSlot(p) == CHOOSE s \in Slot \ used[p] : \A t \in Slot \ used[p] : s <= t

network_start_server(p) ==
  /\ pc[p] = "run"
  /\ mode[p] = "idle"
  /\ Slot \ used[p] # {}
  /\ mode' = [mode EXCEPT ![p] = "server"]
  /\ listen_socket' = [listen_socket EXCEPT ![p] = FreeSlot(p)]
  /\ used' = [used EXCEPT ![p] = @ \cup {FreeSlot(p)}]
  /\ UNCHANGED <<network_socket, misclosed, buffer, suspended, sync_trap, pc,
                 out_of_sync, emulation, network, budget>>

\* Slip: current_frame is left over from the last session.
InitFrameEventList_KeepsCurrent ==
  /\ frame_event_list' = [p \in Peer |-> [i \in 0..FrameDelta-1 |-> EmptyList(0)]]
  /\ frame_buffer_full' = [p \in Peer |-> FALSE]
  /\ UNCHANGED <<current_frame, frame_to_play>>
  /\ sync_trap' = [p \in Peer |-> TRUE]

(* network_init_frame_event_list; frame_to_play keeps its last value.      *)
InitFrameEventList ==
  /\ frame_event_list' = [p \in Peer |-> [i \in 0..FrameDelta-1 |-> EmptyList(0)]]
  /\ current_frame' = [p \in Peer |-> 0]
  /\ frame_buffer_full' = [p \in Peer |-> FALSE]
  /\ UNCHANGED frame_to_play
  /\ sync_trap' = [p \in Peer |-> TRUE]

(* The client connects, the server's hook accepts, and the two connect     *)
(* traps exchange settings, snapshot and frame delta: the client's machine *)
(* becomes the server's.                                                   *)
Connect(s, c) ==
  /\ Spend("session")
  /\ pc[s] = "run" /\ pc[c] = "run"
  /\ s # c /\ mode[s] = "server" /\ mode[c] = "idle"
  /\ Slot \ used[s] # {} /\ Slot \ used[c] # {}
  /\ mode' = [mode EXCEPT ![s] = "server connected", ![c] = "client"]
  /\ network_socket' = [p \in Peer |-> FreeSlot(p)]
  /\ used' = [p \in Peer |-> used[p] \cup {FreeSlot(p)}]
  /\ InitFrameEventList
  /\ out_of_sync' = [p \in Peer |-> FALSE]
  /\ machine' = [p \in Peer |-> <<>>]
  /\ drift' = [p \in Peer |-> None]
  /\ channel' = [p \in Peer |-> <<>>]
  /\ link' = [p \in Peer |-> "up"]
  /\ UNCHANGED <<listen_socket, misclosed, suspended, pc>>

(* network_disconnect, with `unread' what is left in p's stream.           *)
Disconnect(p, unread) ==
  LET closing == IF mode[p] = "server connected"
                 THEN <<network_socket[p]>>
                 ELSE SelectSeq(<<network_socket[p], listen_socket[p]>>,
                                LAMBDA s : s # None)
  IN
  /\ mode' = [mode EXCEPT ![p] = IF @ = "server connected" THEN "server" ELSE "idle"]
  /\ used' = [used EXCEPT ![p] = @ \ ToSet(closing)]
  /\ misclosed' = [misclosed EXCEPT ![p] = @ \/ ~(ToSet(closing) \subseteq used[p])
                                             \/ ~IsInjective(closing)]
  /\ UNCHANGED <<listen_socket, network_socket>>
  /\ IF Live(p) THEN CloseStream(p, unread) ELSE UNCHANGED network

(* The user disconnects; no menu looks at the mode first.                  *)
UserDisconnects(p) ==
  /\ Spend("leave")
  /\ pc[p] = "run"
  /\ Disconnect(p, channel[p])
  /\ UNCHANGED <<buffer, suspended, sync_trap, pc, out_of_sync, emulation>>

-----------------------------------------------------------------------------
(* Emulating a frame.                                                      *)

Record(p, event) ==
  frame_event_list' = [frame_event_list EXCEPT
                         ![p][current_frame[p]].events = Append(@, event)]

(* A key or joystick event the control mask lets this side send.           *)
Input(p) ==
  /\ Spend("input")
  /\ pc[p] = "run" /\ Connected(p)
  /\ Record(p, [type |-> "input", by |-> p, frame |-> Frame(p)])
  /\ UNCHANGED <<session, current_frame, frame_to_play, frame_buffer_full,
                 suspended, sync_trap, pc, out_of_sync, emulation, network>>

(* The trap of network_prepare_next_frame, at the next instruction.        *)
network_event_record_sync_test(p) ==
  /\ pc[p] = "run" /\ sync_trap[p]
  /\ Record(p, [type |-> "sync test", data |-> Registers(p)])
  /\ sync_trap' = [sync_trap EXCEPT ![p] = FALSE]
  /\ UNCHANGED <<session, current_frame, frame_to_play, frame_buffer_full,
                 suspended, pc, out_of_sync, emulation, network, budget>>

(* Another trap takes the only slot: see NoTrapLost in Interrupt.          *)
LoseSyncTest(p) ==
  /\ Spend("lost test")
  /\ pc[p] = "run" /\ sync_trap[p]
  /\ sync_trap' = [sync_trap EXCEPT ![p] = FALSE]
  /\ UNCHANGED <<session, buffer, suspended, pc, out_of_sync, emulation, network>>

(* The machine does something the other machine does not.                  *)
Drift(p) ==
  /\ Spend("drift")
  /\ pc[p] = "run" /\ Connected(p) /\ drift[p] = None
  /\ drift' = [drift EXCEPT ![p] = Frame(p)]
  /\ UNCHANGED <<session, buffer, suspended, sync_trap, pc, out_of_sync,
                 machine, network>>

(* The user opens a menu or pauses; errors of the send are not looked at.  *)
network_suspend(p) ==
  /\ Spend("suspend")
  /\ pc[p] = "run" /\ Connected(p) /\ ~suspended[p]
  /\ SendOk(p, Suspending) \/ (SendFails(p) /\ UNCHANGED network)
  /\ suspended' = [suspended EXCEPT ![p] = TRUE]
  /\ UNCHANGED <<session, buffer, sync_trap, pc, out_of_sync, emulation>>

-----------------------------------------------------------------------------
(* The hook at the end of a frame: send, then receive.                     *)

network_hook_connected_send(p) ==
  \/ SendOk(p, frame_event_list[p][current_frame[p]]) /\ UNCHANGED session
  \/ SendFails(p) /\ Disconnect(p, channel[p])

(* The send, and the head of network_hook_connected_receive, which runs    *)
(* even if the send has just ended the session.                            *)
HookSend(p) ==
  /\ pc[p] = "run" /\ Connected(p) /\ ~sync_trap[p]
  /\ Frame(p) < MaxFrame
  /\ network_hook_connected_send(p)
  /\ suspended' = [suspended EXCEPT ![p] = FALSE]
  /\ frame_buffer_full' = [frame_buffer_full EXCEPT
                             ![p] = @ \/ current_frame[p] = FrameDelta - 1]
  /\ pc' = [pc EXCEPT ![p] = "receive"]
  /\ UNCHANGED <<frame_event_list, current_frame, frame_to_play, sync_trap,
                 out_of_sync, emulation, budget>>

\* Slip: no wrap at the end of the ring.
FrameToPlay_Unwrapped(current) == current + 1

\* Slip: the list to play is the one that is recorded.
FrameToPlay_Undelayed(current) == current

FrameToPlay(current) == (current + 1) % FrameDelta

(* network_prepare_next_frame, after a frame that replayed `events'.       *)
FinishFrame(p, events) ==
  LET next == (current_frame[p] + 1) % FrameDelta IN
  /\ current_frame' = [current_frame EXCEPT ![p] = next]
  /\ frame_to_play' = [frame_to_play EXCEPT ![p] = FrameToPlay(next)]
  /\ frame_event_list' = [frame_event_list EXCEPT ![p][next] = EmptyList(Frame(p) + 1)]
  /\ sync_trap' = [sync_trap EXCEPT ![p] = TRUE]
  /\ machine' = [machine EXCEPT ![p] = Append(@, events)]
  /\ pc' = [pc EXCEPT ![p] = "run"]

(* The first frames of a session have nothing to replay yet.               *)
NothingToPlay(p) ==
  /\ pc[p] = "receive" /\ ~frame_buffer_full[p]
  /\ FinishFrame(p, <<>>)
  /\ UNCHANGED <<session, frame_buffer_full, suspended, out_of_sync, drift,
                 network, budget>>

Waiting(p) == pc[p] = "receive" /\ frame_buffer_full[p]

\* Slip: a length of zero is taken for the end of the session.
ReceiveSuspend_Ends(p) ==
  /\ Waiting(p) /\ Live(p)
  /\ channel[p] # <<>> /\ Head(channel[p]) = Suspending
  /\ Disconnect(p, Tail(channel[p]))
  /\ pc' = [pc EXCEPT ![p] = "run"]
  /\ UNCHANGED <<buffer, suspended, sync_trap, out_of_sync, emulation, budget>>

ReceiveSuspend(p) ==
  /\ Waiting(p) /\ Live(p)
  /\ channel[p] # <<>> /\ Head(channel[p]) = Suspending
  /\ channel' = [channel EXCEPT ![p] = Tail(@)]
  /\ suspended' = [suspended EXCEPT ![p] = TRUE]
  /\ UNCHANGED <<session, buffer, sync_trap, pc, out_of_sync, emulation, link,
                 budget>>

\* Slip: each side replays its own events first.
ServerAndClient_OwnFirst(p, remote) ==
  <<frame_event_list[p][frame_to_play[p]], remote>>

\* Slip: the lists that meet are not of the same frame.
ServerAndClient_Current(p, remote) ==
  LET own == frame_event_list[p][current_frame[p]] IN
  IF mode[p] = "server connected" THEN <<own, remote>> ELSE <<remote, own>>

(* The two lists of a frame, the server's first.                           *)
ServerAndClient(p, remote) ==
  LET own == frame_event_list[p][frame_to_play[p]] IN
  IF mode[p] = "server connected" THEN <<own, remote>> ELSE <<remote, own>>

OpensWithTest(list) ==
  list.events # <<>> /\ Head(list.events).type = "sync test"

InSync(lists) ==
  (\A i \in {1, 2} : OpensWithTest(lists[i]))
    => Head(lists[1].events).data = Head(lists[2].events).data

(* What a list has for the machine: its events without the sync test.      *)
Inputs(list) ==
  LET kept[n \in 0..Len(list.events)] ==
        IF n = 0 THEN <<>>
        ELSE IF list.events[n].type = "sync test" THEN kept[n - 1]
        ELSE Append(kept[n - 1], list.events[n])
  IN kept[Len(list.events)]

\* Slip: a failed test is reported, and the session goes on.
EndOutOfSync_StaysConnected(p, unread) ==
  /\ channel' = [channel EXCEPT ![p] = unread]
  /\ out_of_sync' = [out_of_sync EXCEPT ![p] = TRUE]
  /\ UNCHANGED <<session, link>>

EndOutOfSync(p, unread) ==
  /\ Disconnect(p, unread)
  /\ out_of_sync' = [out_of_sync EXCEPT ![p] = TRUE]

(* A failed test ends the session, but the lists are still replayed.       *)
ReceiveList(p) ==
  /\ Waiting(p) /\ Live(p)
  /\ channel[p] # <<>> /\ Head(channel[p]) # Suspending
  /\ LET lists == ServerAndClient(p, Head(channel[p]))
         unread == Tail(channel[p])
     IN /\ FinishFrame(p, Inputs(lists[1]) \o Inputs(lists[2]))
        /\ \/ /\ InSync(lists)
              /\ channel' = [channel EXCEPT ![p] = unread]
              /\ UNCHANGED <<session, out_of_sync, link>>
           \/ /\ ~InSync(lists)
              /\ EndOutOfSync(p, unread)
  /\ UNCHANGED <<frame_buffer_full, suspended, drift, budget>>

(* recv fails on a stream that was reset and on a socket that is closed.   *)
RecvFails(p) == ~Live(p) \/ (link[p] = "reset" /\ channel[p] = <<>>)

ReceiveFails(p) ==
  /\ Waiting(p) /\ RecvFails(p)
  /\ Disconnect(p, <<>>)
  /\ pc' = [pc EXCEPT ![p] = "run"]
  /\ UNCHANGED <<buffer, suspended, sync_trap, out_of_sync, emulation, budget>>

(* The stream fails between the length and the list: no disconnect then.   *)
ReceiveTorn(p) ==
  /\ Waiting(p) /\ Live(p) /\ link[p] = "reset" /\ channel[p] = <<>>
  /\ pc' = [pc EXCEPT ![p] = "run"]
  /\ UNCHANGED <<session, buffer, suspended, sync_trap, out_of_sync, emulation,
                 network, budget>>

(* At the end of the stream recv returns 0, and network_recv_buffer asks   *)
(* again without end.                                                      *)
ReceiveSpins(p) ==
  /\ Waiting(p) /\ Live(p)
  /\ link[p] \in {"eof", "gone"} /\ channel[p] = <<>>
  /\ UNCHANGED vars

-----------------------------------------------------------------------------
(* Past the bounds, and without a session, there is nothing to do.         *)
Rest ==
  /\ \A p \in Peer : pc[p] = "run" /\ (Connected(p) => Frame(p) = MaxFrame)
  /\ UNCHANGED vars

Emulate(p) ==
  \/ network_event_record_sync_test(p)
  \/ HookSend(p)
  \/ NothingToPlay(p)
  \/ ReceiveSuspend(p)
  \/ ReceiveList(p)
  \/ ReceiveFails(p)
  \/ ReceiveTorn(p)
  \/ ReceiveSpins(p)

Next ==
  \/ \E p \in Peer :
       \/ Emulate(p)
       \/ network_start_server(p)
       \/ UserDisconnects(p)
       \/ Input(p)
       \/ LoseSyncTest(p)
       \/ Drift(p)
       \/ network_suspend(p)
  \/ \E s, c \in Peer : Connect(s, c)
  \/ Rest

Spec == Init /\ [][Next]_vars

(* Each emulator keeps emulating.                                          *)
FairSpec == Spec /\ \A p \in Peer : WF_vars(Emulate(p))

-----------------------------------------------------------------------------
(* Properties.                                                             *)

InputEvent == [type : {"input"}, by : Peer, frame : Nat]

SyncTest == [type : {"sync test"}, data : SUBSET Register]

List == [frame : Nat, events : Seq(InputEvent \cup SyncTest)]

(* What is sent for a list has a length that is not zero.                  *)
ASSUME SuspendingAssumption == Suspending \notin List

(* The variables stay in their types.                                      *)
TypeOK ==
  /\ mode \in [Peer -> {"idle", "server", "server connected", "client"}]
  /\ listen_socket \in [Peer -> Slot \cup {None}]
  /\ network_socket \in [Peer -> Slot \cup {None}]
  /\ used \in [Peer -> SUBSET Slot]
  /\ misclosed \in [Peer -> BOOLEAN]
  /\ frame_event_list \in [Peer -> [0..FrameDelta-1 -> List]]
  /\ current_frame \in [Peer -> 0..FrameDelta-1]
  /\ frame_to_play \in [Peer -> 0..FrameDelta-1]
  /\ frame_buffer_full \in [Peer -> BOOLEAN]
  /\ suspended \in [Peer -> BOOLEAN]
  /\ sync_trap \in [Peer -> BOOLEAN]
  /\ pc \in [Peer -> {"run", "receive"}]
  /\ out_of_sync \in [Peer -> BOOLEAN]
  /\ machine \in [Peer -> Seq(Seq(InputEvent))]
  /\ drift \in [Peer -> Nat \cup {None}]
  /\ channel \in [Peer -> Seq(List \cup {Suspending})]
  /\ link \in [Peer -> {"up", "eof", "gone", "reset"}]
  /\ budget \in [Outside -> Nat]

(* How many frames a peer has replayed.                                    *)
Played(p) == IF Frame(p) < FrameDelta THEN 0 ELSE Frame(p) - (FrameDelta - 1)

(* A list is replayed FrameDelta - 1 frames after its recording, own and   *)
(* remote alike: the ring still holds the own list of the frame that is    *)
(* due, and the stream delivers the other side's lists from that frame on, *)
(* without a gap, whatever suspend markers lie between them.               *)
PlaysOnTime ==
  \A p \in Peer : Live(p) =>
    LET lists == {i \in DOMAIN channel[p] : channel[p][i] # Suspending}
        frames == {channel[p][i].frame : i \in lists}
    IN
    /\ frame_event_list[p][current_frame[p]].frame = Frame(p)
    /\ Waiting(p) => frame_event_list[p][frame_to_play[p]].frame = Played(p)
    /\ \A i, j \in lists : i < j => channel[p][i].frame < channel[p][j].frame
    /\ \A n \in frames : Played(p) <= n /\ Played(p)..n \subseteq frames

(* The emulators stay in lockstep: the history of the one is a prefix of   *)
(* the history of the other, and they differ by FrameDelta frames at most. *)
Service == INSTANCE Lockstep WITH Lead <- FrameDelta, log <- machine

IsLockstep == Service!Spec

(* The out-of-sync error is never raised against machines that agree.      *)
NoFalseAlarm ==
  \A p \in Peer : out_of_sync[p] => \E q \in Peer : drift[q] # None

(* The registers at the start of a frame that a peer has long finished.    *)
RegistersAt(p, n) ==
  RegistersOf(SubSeq(machine[p], 1, n),
              IF drift[p] # None /\ drift[p] < n THEN drift[p] ELSE None)

(* The frames in which the registers showed a difference, that a machine   *)
(* had gone its own way before.                                            *)
Differences(p) ==
  {n \in 0..Played(p) - 1 : /\ \A q \in Peer : drift[q] # n
                            /\ RegistersAt(p, n) # RegistersAt(Other(p), n)}

(* A session does not outlive a frame in which the registers of the two    *)
(* machines differ, once its lists are replayed, but for a frame whose     *)
(* sync test was lost or came after an input event in its list.  (What the *)
(* registers do not show, memory or a chip, goes unnoticed.)               *)
DifferenceCaught ==
  \A p \in Peer : Live(p) =>
    Cardinality(Differences(p)) <= Spent("input") + Spent("lost test")

(* The two hooks never wait for each other: a session runs on to the end.  *)
Progress == \A p \in Peer : Connected(p) ~> Frame(p) = MaxFrame

(* "REMOTE HOST DISCONNECTED": a hook that waits for a peer that has left  *)
(* comes back.                                                             *)
LeaverNoticed == \A p \in Peer : Waiting(p) ~> pc[p] = "run"

(* vice_network_socket_close asserts that the socket is in use.            *)
NoDoubleClose == \A p \in Peer : ~misclosed[p]
=============================================================================
