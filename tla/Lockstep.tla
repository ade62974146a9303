------------------------------ MODULE Lockstep ------------------------------
(***************************************************************************)
(* What netplay promises its two emulators: frame by frame they replay the *)
(* same events, and neither is more than Lead frames ahead of the other.   *)
(* Netplay implements it with delayed event lists and two TCP streams.     *)
(***************************************************************************)
EXTENDS Naturals, Sequences, SequencesExt

CONSTANTS Peer, Lead

VARIABLE
  log             \* for each peer the events replayed in each of its frames

Frames(p) == Len(log[p])

Init == log = [p \in Peer |-> <<>>]

(* The peer behind repeats what the other replayed in that frame.  The     *)
(* peer ahead, or level, decides, if it is not too far ahead.              *)
FinishFrame(p) ==
  /\ Frames(p)' = Frames(p) + 1
  /\ IsPrefix(log[p], log'[p])
  /\ \A q \in Peer \ {p} :
       /\ log'[q] = log[q]
       /\ Frames(p) < Frames(q) => IsPrefix(log'[p], log[q])
       /\ Frames(p) < Frames(q) + Lead

StartSession == log' = [p \in Peer |-> <<>>]

Next == StartSession \/ \E p \in Peer : FinishFrame(p)

Spec == Init /\ [][Next]_log
=============================================================================
