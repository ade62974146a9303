----------------------------- MODULE MCNetplay -----------------------------
(* Instances of Netplay for TLC: each run chooses which outside events it  *)
(* studies, and how often they happen.                                     *)
EXTENDS Netplay, TLC

CONSTANTS a, b

Peers == {a, b}

Symmetric == Permutations(Peers)

Slots == 0..2

Nothing == [what \in Outside |-> 0]

(* One bit tells of the input so far; the other shows that a machine has   *)
(* gone its own way in every other frame only.                             *)
Bits == {"input", "drift"}

IsOn(bit, replayed, gone) ==
  IF bit = "input"
  THEN Len(FlattenSeq(replayed)) % 2 = 1
  ELSE gone # None /\ (Len(replayed) + gone) % 2 = 1

PlayBudget == [Nothing EXCEPT !["session"] = 1, !["input"] = 2, !["suspend"] = 1]

FaultBudget == [Nothing EXCEPT !["session"] = 2, !["input"] = 1, !["drift"] = 1,
                               !["lost test"] = 1, !["leave"] = 1]

LeaveBudget == [Nothing EXCEPT !["session"] = 1, !["leave"] = 1]
=============================================================================
