--------------------------- MODULE InterruptLines ---------------------------
(***************************************************************************)
(* What the interrupt lines of one CPU promise to the chips on them: IRQ   *)
(* is a wired-or level, NMI an edge that stays latched until the CPU takes *)
(* it.  Interrupt implements this with counters and a bit mask.            *)
(***************************************************************************)

CONSTANT Source

VARIABLES
  irq_holders,    \* the chips that pull IRQ
  nmi_holders,    \* the chips that pull NMI
  irq,            \* the level the CPU sees
  nmi,            \* an NMI edge the CPU has not taken
  frozen          \* the CPU runs emulator code between two instructions

lines == <<irq_holders, nmi_holders, irq, nmi, frozen>>

Init ==
  /\ irq_holders = {} /\ nmi_holders = {}
  /\ ~irq /\ ~nmi /\ ~frozen

PullIrq(s) ==
  /\ irq_holders' = irq_holders \cup {s}
  /\ irq'
  /\ UNCHANGED <<nmi_holders, nmi, frozen>>

ReleaseIrq(s) ==
  /\ irq_holders' = irq_holders \ {s}
  /\ (irq' <=> irq_holders' # {})
  /\ UNCHANGED <<nmi_holders, nmi, frozen>>

(* Only the first chip to pull the line makes an edge. *)
PullNmi(s) ==
  /\ nmi_holders' = nmi_holders \cup {s}
  /\ (nmi' <=> nmi \/ nmi_holders = {})
  /\ UNCHANGED <<irq_holders, irq, frozen>>

ReleaseNmi(s) ==
  /\ nmi_holders' = nmi_holders \ {s}
  /\ UNCHANGED <<irq_holders, irq, nmi, frozen>>

TakeNmi ==
  /\ nmi /\ ~nmi'
  /\ UNCHANGED <<irq_holders, nmi_holders, irq, frozen>>

Reset ==
  /\ irq_holders' = {} /\ nmi_holders' = {}
  /\ ~irq' /\ ~nmi'
  /\ UNCHANGED frozen

FreezeOrThaw ==
  /\ frozen' = ~frozen
  /\ UNCHANGED <<irq_holders, nmi_holders, irq, nmi>>

(* Only emulator code replaces the lines by those of a snapshot. *)
Load ==
  /\ frozen /\ frozen'
  /\ irq_holders' \in SUBSET Source
  /\ nmi_holders' \in SUBSET Source
  /\ (irq' <=> irq_holders' # {})
  /\ nmi' \in BOOLEAN

Next ==
  \/ \E s \in Source : PullIrq(s) \/ ReleaseIrq(s) \/ PullNmi(s) \/ ReleaseNmi(s)
  \/ TakeNmi \/ Reset \/ FreezeOrThaw \/ Load

Spec == Init /\ [][Next]_lines
=============================================================================
