----------------------------- MODULE Interrupt -----------------------------
(***************************************************************************)
(* The interrupt status of one 6502-family CPU (interrupt.h, interrupt.c)  *)
(* together with the part of the CPU loop that consumes it: DO_INTERRUPT,  *)
(* BRK and the opcodes that change the I flag (6510core.c), and cpu_reset  *)
(* and the delay checks (maincpu.c).                                       *)
(*                                                                         *)
(* Clocks are kept relative to CLK: irq_age is CLK - irq_clk, and          *)
(* irq_pending is irq_pending_clk - CLK.  Both saturate where the code     *)
(* stops telling values apart, and interrupt_cpu_status_time_warp, which   *)
(* moves all of them with CLK, changes neither.                            *)
(***************************************************************************)
EXTENDS Integers, FiniteSets

CONSTANTS
  Source,          \* the chips that have an interrupt line
  SetsOnRestore,   \* those whose snapshot reader calls interrupt_set_int
  StartAges,       \* how long before CLK a chip says its line changed
  Trap,            \* functions handed to interrupt_maincpu_trigger_trap
  NoTrap,          \* trap_func = NULL
  Resets,          \* may the machine be reset?
  Snapshots        \* may a trap function load a snapshot?

AgeMax == 3        \* INTERRUPT_DELAY, and one more cycle after a branch
Never  == 4        \* irq_pending_clk = CLOCK_MAX

ASSUME InterruptAssumption ==
  /\ IsFiniteSet(Source)
  /\ SetsOnRestore \subseteq Source
  /\ StartAges \subseteq 0 .. AgeMax
  /\ NoTrap \notin Trap
  /\ {Resets, Snapshots} \subseteq BOOLEAN

VARIABLES
  pending_int,     \* what each chip asserts
  nirq, nnmi,      \* number of active IRQ and NMI lines
  global,          \* global_pending_int
  irq_age, nmi_age, irq_pending,
  trap_func,
  owed,            \* requested trap functions that have not been called
  I,               \* the CPU's I flag
  last,            \* what last_opcode_info says of the last opcode
  pc,              \* where in the CPU loop we are
  ik,              \* DO_INTERRUPT's copy of global_pending_int
  jump             \* the vector taken since the last opcode fetch

lines  == <<pending_int, nirq, nnmi>>
clocks == <<irq_age, nmi_age, irq_pending>>
traps  == <<trap_func, owed>>
cpu    == <<I, last, pc, ik, jump>>
vars   == <<lines, global, clocks, traps, cpu>>

Line   == {"IRQ", "NMI"}
Global == {"IRQ", "IRQPEND", "NMI", "RESET", "TRAP"}

Holders(line, p) == {s \in Source : line \in p[s]}

TypeOK ==
  /\ pending_int \in [Source -> SUBSET Line]
  /\ nirq \in Nat /\ nnmi \in Nat
  /\ global \subseteq Global
  /\ irq_age \in 0 .. AgeMax /\ nmi_age \in 0 .. AgeMax
  /\ irq_pending \in 0 .. Never
  /\ trap_func \in Trap \cup {NoTrap}
  /\ owed \subseteq Trap
  /\ I \in BOOLEAN
  /\ last \in {"plain", "brk", "delays", "disables", "enables"}
  /\ pc \in {"fetch", "vector", "trap", "trapfn", "reset", "clean", "opcode", "brk"}
  /\ ik \subseteq Global
  /\ jump \in {"none", "NMI", "IRQ", "BRK", "RESET"}

Init ==
  /\ pending_int = [s \in Source |-> {}]
  /\ nirq = 0 /\ nnmi = 0
  /\ global = {}
  /\ irq_age = AgeMax /\ nmi_age = AgeMax /\ irq_pending = Never
  /\ trap_func = NoTrap /\ owed = {}
  /\ I \in BOOLEAN /\ last = "plain" /\ pc = "fetch" /\ ik = {} /\ jump = "none"

-----------------------------------------------------------------------------
(* The chips.  They act from alarm callbacks, from the memory accesses of  *)
(* an opcode and from trap functions.                                      *)

ChipsMayAct == pc \in {"fetch", "vector", "trapfn", "opcode", "brk"}

SetIrq(s, k) ==
  /\ "IRQ" \notin pending_int[s]
  /\ pending_int' = [pending_int EXCEPT ![s] = @ \cup {"IRQ"}]
  /\ nirq' = nirq + 1
  /\ global' = global \cup {"IRQ", "IRQPEND"}
  /\ irq_pending' = Never
  /\ irq_age' = k
  /\ UNCHANGED <<nnmi, nmi_age>>

UnsetIrq_WideWindow(s, k) ==   \* Slip: the window is counted from the wrong clock
  /\ "IRQ" \in pending_int[s] /\ nirq > 0
  /\ pending_int' = [pending_int EXCEPT ![s] = @ \ {"IRQ"}]
  /\ nirq' = nirq - 1
  /\ global' = IF nirq = 1 THEN global \ {"IRQ"} ELSE global
  /\ irq_pending' = 5
  /\ UNCHANGED <<nnmi, irq_age, nmi_age>>

UnsetIrq_NoWindow(s, k) ==   \* Slip: the line drops but irq_pending_clk stays
  /\ "IRQ" \in pending_int[s] /\ nirq > 0
  /\ pending_int' = [pending_int EXCEPT ![s] = @ \ {"IRQ"}]
  /\ nirq' = nirq - 1
  /\ global' = IF nirq = 1 THEN global \ {"IRQ"} ELSE global
  /\ UNCHANGED <<nnmi, clocks>>

UnsetIrq(s, k) ==
  /\ "IRQ" \in pending_int[s] /\ nirq > 0
  /\ pending_int' = [pending_int EXCEPT ![s] = @ \ {"IRQ"}]
  /\ nirq' = nirq - 1
  /\ IF nirq = 1
       THEN global' = global \ {"IRQ"} /\ irq_pending' = 3 - k
       ELSE UNCHANGED <<global, irq_pending>>
  /\ UNCHANGED <<nnmi, irq_age, nmi_age>>

SetNmi(s, k) ==
  /\ "NMI" \notin pending_int[s]
  /\ IF nnmi = 0 /\ "NMI" \notin global
       THEN global' = global \cup {"NMI"} /\ nmi_age' = k
       ELSE UNCHANGED <<global, nmi_age>>
  /\ nnmi' = nnmi + 1
  /\ pending_int' = [pending_int EXCEPT ![s] = @ \cup {"NMI"}]
  /\ UNCHANGED <<nirq, irq_age, irq_pending>>

UnsetNmi_Unlatch(s, k) ==    \* Slip: the disabled code that clears IK_NMI
  /\ "NMI" \in pending_int[s] /\ nnmi > 0
  /\ nnmi' = nnmi - 1
  /\ pending_int' = [pending_int EXCEPT ![s] = @ \ {"NMI"}]
  /\ global' = global \ {"NMI"}
  /\ UNCHANGED <<nirq, clocks>>

UnsetNmi(s, k) ==
  /\ "NMI" \in pending_int[s] /\ nnmi > 0
  /\ nnmi' = nnmi - 1
  /\ pending_int' = [pending_int EXCEPT ![s] = @ \ {"NMI"}]
  /\ UNCHANGED <<nirq, global, clocks>>

ChangeLine(s, k) ==
  /\ ChipsMayAct
  /\ SetIrq(s, k) \/ UnsetIrq(s, k) \/ SetNmi(s, k) \/ UnsetNmi(s, k)
  /\ UNCHANGED <<traps, cpu>>

-----------------------------------------------------------------------------
(* Requests from the user interface and from other modules. *)

interrupt_trigger_reset ==
  /\ Resets /\ ChipsMayAct
  /\ global' = global \cup {"RESET"}
  /\ UNCHANGED <<lines, clocks, traps, cpu>>

interrupt_maincpu_trigger_trap(t) ==
  /\ ChipsMayAct
  /\ global' = global \cup {"TRAP"}
  /\ trap_func' = t
  /\ owed' = owed \cup {t}
  /\ UNCHANGED <<lines, clocks, cpu>>

-----------------------------------------------------------------------------
(* The CPU. *)

Saturate(n) == IF n > AgeMax THEN AgeMax ELSE n

(* CLK += n; pending is irq_pending as the step has left it. *)
Elapse(n, pending) ==
  /\ irq_age' = Saturate(irq_age + n)
  /\ nmi_age' = Saturate(nmi_age + n)
  /\ irq_pending' = IF pending = Never THEN Never
                    ELSE IF pending > n THEN pending - n ELSE 0

Delay == IF last = "delays" THEN 3 ELSE 2

interrupt_check_nmi_delay == last # "brk" /\ nmi_age >= Delay

IrqRequested(g) == g \cap {"IRQ", "IRQPEND"} # {}

IrqDue(g) == IrqRequested(g) /\ (~I \/ last = "disables") /\ irq_age >= Delay

Dispatches_IrqFirst(g) ==   \* Slip: NMI is put off while IRQ is asserted
  \/ "NMI" \in g /\ ~IrqRequested(g) /\ interrupt_check_nmi_delay
  \/ IrqDue(g) /\ last # "enables"

(* An opcode that has just cleared I lets one more opcode pass. *)
Dispatches(g) ==
  \/ "NMI" \in g /\ interrupt_check_nmi_delay
  \/ IrqDue(g) /\ last # "enables"

(* global_pending_int once an expired IRQPEND has been dropped. *)
Fresh ==
  IF "IRQ" \notin global /\ irq_pending = 0 THEN global \ {"IRQPEND"} ELSE global

FreshPending == IF "IRQPEND" \in global \ Fresh THEN Never ELSE irq_pending

Fetch ==
  /\ pc = "fetch"
  /\ ik' = Fresh
  /\ jump' = "none"
  /\ IF Dispatches(Fresh)
       THEN /\ global' = Fresh
            /\ Elapse(5, FreshPending)
            /\ I' = TRUE
            /\ pc' = "vector"
       ELSE /\ global' = IF IrqDue(Fresh) THEN Fresh \cup {"IRQPEND"} ELSE Fresh
            /\ Elapse(0, FreshPending)
            /\ pc' = IF Fresh = {} THEN "opcode" ELSE "trap"
            /\ UNCHANGED I
  /\ UNCHANGED <<lines, traps, last>>

interrupt_ack_nmi(cycles) ==
  /\ global' = global \ {"NMI"}
  /\ Elapse(cycles, irq_pending)

interrupt_ack_irq_All(cycles) ==     \* Slip: acknowledges the line, not the request
  /\ global' = global \ {"IRQ", "IRQPEND"}
  /\ Elapse(cycles, Never)

interrupt_ack_irq(cycles) ==
  /\ global' = global \ {"IRQPEND"}
  /\ Elapse(cycles, Never)

NmiHijacks == "NMI" \in global /\ nmi_age >= 2

(* The alarms between the pushes and this step may have raised an NMI. *)
Vector ==
  /\ pc = "vector"
  /\ IF NmiHijacks
       THEN interrupt_ack_nmi(2) /\ jump' = "NMI"
       ELSE interrupt_ack_irq(2) /\ jump' = "IRQ"
  /\ last' = "brk"
  /\ pc' = "trap"
  /\ UNCHANGED <<lines, traps, I, ik>>

interrupt_do_trap_ClearsAll ==    \* Slip: clears the mask instead of one bit
  /\ pc = "trap"
  /\ IF "TRAP" \in ik
       THEN global' = {} /\ owed' = owed \ {trap_func} /\ pc' = "trapfn"
       ELSE pc' = "reset" /\ UNCHANGED <<global, owed>>
  /\ UNCHANGED <<lines, clocks, trap_func, I, last, ik, jump>>

interrupt_do_trap ==
  /\ pc = "trap"
  /\ IF "TRAP" \in ik
       THEN /\ global' = global \ {"TRAP"}
            /\ owed' = owed \ {trap_func}
            /\ pc' = "trapfn"
       ELSE /\ pc' = "reset"
            /\ UNCHANGED <<global, owed>>
  /\ UNCHANGED <<lines, clocks, trap_func, I, last, ik, jump>>

(* A trap function may have asked for a reset. *)
TrapReturns ==
  /\ pc = "trapfn"
  /\ ik' = ik \cup (global \cap {"RESET"})
  /\ pc' = "reset"
  /\ UNCHANGED <<lines, global, clocks, traps, I, last, jump>>

interrupt_cpu_status_reset_KeepsLines ==   \* Slip: the chips' lines survive
  /\ nirq' = 0 /\ nnmi' = 0
  /\ global' = {}
  /\ irq_age' = AgeMax /\ nmi_age' = AgeMax /\ irq_pending' = Never
  /\ trap_func' = NoTrap
  /\ UNCHANGED pending_int

interrupt_cpu_status_reset ==
  /\ pending_int' = [s \in Source |-> {}]
  /\ nirq' = 0 /\ nnmi' = 0
  /\ global' = {}
  /\ irq_age' = AgeMax /\ nmi_age' = AgeMax /\ irq_pending' = Never
  /\ trap_func' = NoTrap

cpu_reset ==
  /\ pc = "reset"
  /\ IF "RESET" \in ik
       THEN interrupt_cpu_status_reset /\ jump' = "RESET"
       ELSE UNCHANGED <<lines, global, clocks, trap_func, jump>>
  /\ pc' = "clean"
  /\ UNCHANGED <<owed, I, last, ik>>

(* A request that was not taken does not outlive its line. *)
DropIrqPend ==
  /\ pc = "clean"
  /\ global' = IF "IRQ" \in global THEN global ELSE global \ {"IRQPEND"}
  /\ ik' = {}
  /\ pc' = "opcode"
  /\ UNCHANGED <<lines, clocks, traps, I, last, jump>>

(* Any opcode but BRK; 3 stands for three cycles or more. *)
Opcode(kind, flag) ==
  /\ pc = "opcode"
  /\ last' = kind
  /\ I' = flag
  /\ \E n \in 2 .. 3 : Elapse(n, irq_pending)
  /\ pc' = "fetch"
  /\ UNCHANGED <<lines, global, traps, ik, jump>>

PLP(flag) == Opcode(IF flag /\ ~I THEN "disables"
                    ELSE IF ~flag /\ I THEN "enables" ELSE "plain", flag)
SEI == PLP(TRUE)
CLI == PLP(FALSE)
RTI(flag) == Opcode("plain", flag)
Branch == Opcode("delays", I)
OtherOpcode == Opcode("plain", I)

BRK ==
  /\ pc = "opcode"
  /\ last' = "brk"
  /\ Elapse(5, irq_pending)
  /\ pc' = "brk"
  /\ UNCHANGED <<lines, global, traps, I, ik, jump>>

BrkVector ==
  /\ pc = "brk"
  /\ \/ NmiHijacks /\ interrupt_ack_nmi(2) /\ jump' = "NMI"
     \/ /\ ~NmiHijacks /\ IrqRequested(global) /\ ~I /\ irq_age >= 2
        /\ interrupt_ack_irq(2) /\ jump' = "IRQ"
     \/ /\ ~NmiHijacks /\ ~(IrqRequested(global) /\ ~I /\ irq_age >= 2)
        /\ Elapse(2, irq_pending) /\ jump' = "BRK" /\ UNCHANGED global
  /\ I' = TRUE
  /\ pc' = "fetch"
  /\ UNCHANGED <<lines, traps, last, ik>>

-----------------------------------------------------------------------------
(* Loading a snapshot from a trap function.  The file holds a state some   *)
(* run of the machine was in: the counters and the pending kinds as the    *)
(* CPU wrote them, and the line of each chip, which the chip's own module  *)
(* restores.                                                               *)

SavedState ==
  {m \in [lines : [Source -> SUBSET Line],
          global : SUBSET {"IRQ", "IRQPEND", "NMI"},
          pending : {1, Never}] :
     /\ "IRQ" \in m.global <=> Holders("IRQ", m.lines) # {}
     /\ "IRQPEND" \in m.global /\ "IRQ" \notin m.global <=> m.pending # Never}

Restored(line, saved) == Cardinality(Holders(line, saved))

(* interrupt_set_int on a chip of SetsOnRestore counts its line once more. *)
Recounted(line, saved) == Cardinality(Holders(line, saved) \cap SetsOnRestore)

ReadSnapshot(m) ==
  /\ Snapshots /\ pc = "trapfn"
  /\ pending_int' = m.lines
  /\ nirq' = Restored("IRQ", m.lines) + Recounted("IRQ", m.lines)
  /\ nnmi' = Restored("NMI", m.lines) + Recounted("NMI", m.lines)
  /\ global' = m.global \cup (IF Recounted("IRQ", m.lines) > 0
                              THEN {"IRQ", "IRQPEND"} ELSE {})
  /\ irq_age' = AgeMax /\ nmi_age' = AgeMax
  /\ irq_pending' = IF Recounted("IRQ", m.lines) > 0 THEN Never ELSE m.pending
  /\ I' \in BOOLEAN /\ last' = "plain"
  /\ UNCHANGED <<traps, pc, ik, jump>>

-----------------------------------------------------------------------------
Cpu ==
  \/ Fetch \/ Vector \/ interrupt_do_trap \/ TrapReturns \/ cpu_reset \/ DropIrqPend
  \/ SEI \/ CLI \/ PLP(TRUE) \/ PLP(FALSE) \/ RTI(TRUE) \/ RTI(FALSE)
  \/ Branch \/ OtherOpcode \/ BRK \/ BrkVector

Requests ==
  \/ \E s \in Source, k \in StartAges : ChangeLine(s, k)
  \/ interrupt_trigger_reset
  \/ \E t \in Trap : interrupt_maincpu_trigger_trap(t)
  \/ \E m \in SavedState : ReadSnapshot(m)

Next == Cpu \/ Requests

Spec == Init /\ [][Next]_vars

(* The CPU loop never stops: whatever the chips do, the next step of the   *)
(* instruction is taken.                                                   *)
FairSpec == Spec /\ WF_vars(Cpu)

-----------------------------------------------------------------------------
(* nirq and nnmi count the chips that assert a line, through resets and    *)
(* snapshots, and IK_IRQ is their wired-or.  A count that is one too high  *)
(* holds IRQ low for good and hides every later NMI edge.                  *)
LinesCounted ==
  /\ nirq = Cardinality(Holders("IRQ", pending_int))
  /\ nnmi = Cardinality(Holders("NMI", pending_int))
  /\ "IRQ" \in global <=> nirq > 0

(* interrupt.h calls nirq "Number of active IRQ lines." *)
IrqLinesCounted == nirq = Cardinality(Holders("IRQ", pending_int))

(* IK_IRQPEND keeps a request alive for a few cycles after its line has    *)
(* been released; it always has an expiry date, or a handler would run for *)
(* an interrupt nobody asserts.                                            *)
GhostIrqBounded ==
  ("IRQPEND" \in global /\ "IRQ" \notin global) => irq_pending # Never

(* The counters and masks implement a wired-or level and a latched edge.   *)
InterruptLines ==
  INSTANCE InterruptLines WITH
    irq_holders <- Holders("IRQ", pending_int),
    nmi_holders <- Holders("NMI", pending_int),
    irq <- "IRQ" \in global,
    nmi <- "NMI" \in global,
    frozen <- pc = "trapfn"

IsInterruptLines == InterruptLines!Spec

(* An NMI edge reaches the CPU whatever the program does: BRK puts it off  *)
(* by an opcode, and a loop of BRKs does not put it off for ever.          *)
NmiServed == "NMI" \in global ~> jump \in {"NMI", "RESET"}

(* What is asked for in the middle of DO_INTERRUPT, by an alarm or by a    *)
(* trap function, is done: a reset is carried out, and a trap function,    *)
(* which may ask for itself again, is called (again), unless the machine   *)
(* is reset first.                                                         *)
RequestsServed ==
  /\ "RESET" \in global ~> jump = "RESET"
  /\ \A t \in Trap : t \in owed /\ "TRAP" \in global ~> t \notin owed \/ jump = "RESET"

(* An IRQ that stays asserted is served if the program opens the I flag    *)
(* often enough for other than the opcode after CLI and PLP, and NMIs and  *)
(* resets are not what keeps the CPU busy.                                 *)
IrqServed ==
  /\ <>[](\E s \in Source : "IRQ" \in pending_int[s])
  /\ <>[](global \cap {"NMI", "RESET"} = {})
  /\ []<>(pc = "fetch" /\ ~I /\ last # "enables")
  => []<>(jump = "IRQ")

(* interrupt.c says of the trap: "`trap_func' will be called with PC as    *)
(* the argument when this condition is detected."  So every function that  *)
(* is still owed a call is one the CPU knows of.                           *)
NoTrapLost == \A t \in owed : "TRAP" \in global /\ trap_func = t
=============================================================================
