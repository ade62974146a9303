-------------------------- MODULE InterruptProofs --------------------------
(***************************************************************************)
(* Proofs about Interrupt, for every finite set of chips and of trap       *)
(* functions, with resets and snapshot loads.                              *)
(*                                                                         *)
(* The lemmas say how a change of one chip's line changes the sets of      *)
(* chips that hold a line, so that counting them is left to the theorems   *)
(* on finite cardinalities.  The inductive invariant is the conjunction of *)
(* TypeOK, LinesCounted and GhostIrqBounded; from it every step is a step  *)
(* of InterruptLines or leaves the lines alone.                            *)
(***************************************************************************)
EXTENDS Interrupt, FiniteSetTheorems, TLAPS

Inv == TypeOK /\ LinesCounted /\ GhostIrqBounded

-----------------------------------------------------------------------------
(* Sets of holders. *)

(* The chips that hold a line are finitely many.                           *)
LEMMA HoldersFinite ==
  ASSUME NEW p, NEW l
  PROVE  /\ IsFiniteSet(Holders(l, p))
         /\ Cardinality(Holders(l, p)) \in Nat
         /\ Cardinality(Holders(l, p)) = 0 <=> Holders(l, p) = {}
<1>1. IsFiniteSet(Holders(l, p))
  <2>1. Holders(l, p) \subseteq Source
    BY DEF Holders
  <2> QED
    BY <2>1, FS_Subset, InterruptAssumption
<1> QED
  BY <1>1, FS_CardinalityType, FS_EmptySet

(* A chip that pulls a line joins its holders and no other's.              *)
LEMMA Pulled ==
  ASSUME NEW p \in [Source -> SUBSET Line], NEW s \in Source, NEW l \in Line,
         l \notin p[s],
         NEW q \in [Source -> SUBSET Line],
         q[s] = p[s] \cup {l}, \A t \in Source \ {s} : q[t] = p[t]
  PROVE  /\ Holders(l, q) = Holders(l, p) \cup {s}
         /\ Cardinality(Holders(l, q)) = Cardinality(Holders(l, p)) + 1
         /\ \A k \in Line \ {l} : Holders(k, q) = Holders(k, p)
<1>2. Holders(l, q) = Holders(l, p) \cup {s}
  BY DEF Holders
<1>3. \A k \in Line \ {l} : Holders(k, q) = Holders(k, p)
  BY DEF Holders
<1>4. s \notin Holders(l, p)
  BY DEF Holders
<1> DEFINE H == Holders(l, p)
<1>5. IsFiniteSet(H) /\ s \notin H
  BY <1>4, HoldersFinite
<1> HIDE DEF H
<1>6. Cardinality(H \cup {s}) = Cardinality(H) + 1
  BY <1>5, FS_AddElement
<1> QED
  BY <1>2, <1>3, <1>6 DEF H

(* A chip that releases a line leaves its holders and no other's.          *)
LEMMA Released ==
  ASSUME NEW p \in [Source -> SUBSET Line], NEW s \in Source, NEW l \in Line,
         l \in p[s],
         NEW q \in [Source -> SUBSET Line],
         q[s] = p[s] \ {l}, \A t \in Source \ {s} : q[t] = p[t]
  PROVE  /\ Holders(l, q) = Holders(l, p) \ {s}
         /\ Cardinality(Holders(l, q)) = Cardinality(Holders(l, p)) - 1
         /\ \A k \in Line \ {l} : Holders(k, q) = Holders(k, p)
<1>2. Holders(l, q) = Holders(l, p) \ {s}
  BY DEF Holders
<1>3. \A k \in Line \ {l} : Holders(k, q) = Holders(k, p)
  BY DEF Holders
<1>4. s \in Holders(l, p)
  BY DEF Holders
<1> DEFINE H == Holders(l, p)
<1>5. IsFiniteSet(H) /\ s \in H
  BY <1>4, HoldersFinite
<1> HIDE DEF H
<1>6. Cardinality(H \ {s}) = Cardinality(H) - 1
  BY <1>5, FS_RemoveElement
<1> QED
  BY <1>2, <1>3, <1>6 DEF H

(* With no line asserted both counts are zero.                             *)
LEMMA NobodyHolds ==
  ASSUME NEW l
  PROVE  /\ Holders(l, [s \in Source |-> {}]) = {}
         /\ Cardinality(Holders(l, [s \in Source |-> {}])) = 0
<1>1. Holders(l, [s \in Source |-> {}]) = {}
  BY DEF Holders
<1> QED
  BY <1>1, FS_EmptySet

(* Letting cycles pass keeps the clocks in range, and an expiry date.      *)
LEMMA ElapseKeeps ==
  ASSUME NEW n \in Nat, NEW p \in 0 .. Never, TypeOK, Elapse(n, p)
  PROVE  /\ irq_age' \in 0 .. AgeMax
         /\ nmi_age' \in 0 .. AgeMax
         /\ irq_pending' \in 0 .. Never
         /\ p # Never => irq_pending' # Never
  BY DEF Elapse, Saturate, AgeMax, Never, TypeOK

-----------------------------------------------------------------------------
(* Each action keeps the invariant. *)

(* The chips' own changes of their lines.                                  *)
LEMMA ChangeLineKeeps ==
  ASSUME Inv, NEW s \in Source, NEW k \in StartAges, ChangeLine(s, k)
  PROVE  Inv'
<1>0. /\ k \in 0 .. AgeMax /\ 3 - k \in 0 .. AgeMax
      /\ pending_int \in [Source -> SUBSET Line]
      /\ nirq \in Nat /\ nnmi \in Nat
      /\ nirq = Cardinality(Holders("IRQ", pending_int))
      /\ nnmi = Cardinality(Holders("NMI", pending_int))
      /\ "IRQ" \in global <=> nirq > 0
  BY InterruptAssumption DEF AgeMax, Inv, TypeOK, LinesCounted
<1>T. pending_int \in [Source -> SUBSET Line]
  BY <1>0
<1>1. CASE SetIrq(s, k)
  <2> DEFINE q == [pending_int EXCEPT ![s] = pending_int[s] \cup {"IRQ"}]
  <2>1. pending_int' = q /\ nirq' = nirq + 1 /\ nnmi' = nnmi
    BY <1>1 DEF SetIrq
  <2>2. /\ q \in [Source -> SUBSET Line]
        /\ q[s] = pending_int[s] \cup {"IRQ"}
        /\ \A t \in Source \ {s} : q[t] = pending_int[t]
    BY <1>0 DEF Line
  <2>3. "IRQ" \in Line /\ "NMI" \in Line \ {"IRQ"} /\ "IRQ" \notin pending_int[s]
    BY <1>1 DEF Line, SetIrq
  <2> HIDE DEF q
  <2>4. /\ Cardinality(Holders("IRQ", q)) = Cardinality(Holders("IRQ", pending_int)) + 1
        /\ \A j \in Line \ {"IRQ"} : Holders(j, q) = Holders(j, pending_int)
    BY <1>T, <2>2, <2>3, Pulled
  <2>5. /\ nirq' = Cardinality(Holders("IRQ", pending_int'))
        /\ nnmi' = Cardinality(Holders("NMI", pending_int'))
    BY <1>0, <2>1, <2>3, <2>4
  <2>6. "IRQ" \in global' <=> nirq' > 0
    BY <1>0, <1>1, <2>1 DEF SetIrq
  <2>7. TypeOK'
    <3>1. pending_int' \in [Source -> SUBSET Line] /\ nirq' \in Nat /\ nnmi' \in Nat
      BY <1>0, <2>1, <2>2
    <3>2. global' \subseteq Global
      BY <1>1 DEF SetIrq, Global, Inv, TypeOK
    <3>3. /\ irq_age' \in 0 .. AgeMax /\ nmi_age' \in 0 .. AgeMax
          /\ irq_pending' \in 0 .. Never
      BY <1>0, <1>1 DEF SetIrq, clocks, AgeMax, Never, Inv, TypeOK
    <3> QED
      BY <3>1, <3>2, <3>3 DEF ChangeLine, cpu, traps, Inv, TypeOK
  <2>8. GhostIrqBounded'
    BY <1>0, <1>1 DEF SetIrq, clocks, AgeMax, Never, GhostIrqBounded, Inv
  <2> QED
    BY <2>5, <2>6, <2>7, <2>8 DEF LinesCounted, Inv
<1>2. CASE UnsetIrq(s, k)
  <2> DEFINE q == [pending_int EXCEPT ![s] = pending_int[s] \ {"IRQ"}]
  <2>1. pending_int' = q /\ nirq' = nirq - 1 /\ nnmi' = nnmi /\ nirq > 0
    BY <1>2 DEF UnsetIrq
  <2>2. /\ q \in [Source -> SUBSET Line]
        /\ q[s] = pending_int[s] \ {"IRQ"}
        /\ \A t \in Source \ {s} : q[t] = pending_int[t]
    BY <1>0 DEF Line
  <2>3. "IRQ" \in Line /\ "NMI" \in Line \ {"IRQ"} /\ "IRQ" \in pending_int[s]
    BY <1>2 DEF Line, UnsetIrq
  <2> HIDE DEF q
  <2>4. /\ Cardinality(Holders("IRQ", q)) = Cardinality(Holders("IRQ", pending_int)) - 1
        /\ \A j \in Line \ {"IRQ"} : Holders(j, q) = Holders(j, pending_int)
    BY <1>T, <2>2, <2>3, Released
  <2>5. /\ nirq' = Cardinality(Holders("IRQ", pending_int'))
        /\ nnmi' = Cardinality(Holders("NMI", pending_int'))
    BY <1>0, <2>1, <2>3, <2>4
  <2>6. "IRQ" \in global' <=> nirq' > 0
    BY <1>0, <1>2, <2>1 DEF UnsetIrq
  <2>7. TypeOK'
    <3>1. pending_int' \in [Source -> SUBSET Line] /\ nirq' \in Nat /\ nnmi' \in Nat
      BY <1>0, <2>1, <2>2
    <3>2. global' \subseteq Global
      BY <1>2 DEF UnsetIrq, Global, Inv, TypeOK
    <3>3. /\ irq_age' \in 0 .. AgeMax /\ nmi_age' \in 0 .. AgeMax
          /\ irq_pending' \in 0 .. Never
      BY <1>0, <1>2 DEF UnsetIrq, clocks, AgeMax, Never, Inv, TypeOK
    <3> QED
      BY <3>1, <3>2, <3>3 DEF ChangeLine, cpu, traps, Inv, TypeOK
  <2>8. GhostIrqBounded'
    BY <1>0, <1>2 DEF UnsetIrq, clocks, AgeMax, Never, GhostIrqBounded, Inv
  <2> QED
    BY <2>5, <2>6, <2>7, <2>8 DEF LinesCounted, Inv
<1>3. CASE SetNmi(s, k)
  <2> DEFINE q == [pending_int EXCEPT ![s] = pending_int[s] \cup {"NMI"}]
  <2>1. pending_int' = q /\ nnmi' = nnmi + 1 /\ nirq' = nirq
    BY <1>3 DEF SetNmi
  <2>2. /\ q \in [Source -> SUBSET Line]
        /\ q[s] = pending_int[s] \cup {"NMI"}
        /\ \A t \in Source \ {s} : q[t] = pending_int[t]
    BY <1>0 DEF Line
  <2>3. "NMI" \in Line /\ "IRQ" \in Line \ {"NMI"} /\ "NMI" \notin pending_int[s]
    BY <1>3 DEF Line, SetNmi
  <2> HIDE DEF q
  <2>4. /\ Cardinality(Holders("NMI", q)) = Cardinality(Holders("NMI", pending_int)) + 1
        /\ \A j \in Line \ {"NMI"} : Holders(j, q) = Holders(j, pending_int)
    BY <1>T, <2>2, <2>3, Pulled
  <2>5. /\ nnmi' = Cardinality(Holders("NMI", pending_int'))
        /\ nirq' = Cardinality(Holders("IRQ", pending_int'))
    BY <1>0, <2>1, <2>3, <2>4
  <2>6. "IRQ" \in global' <=> nirq' > 0
    BY <1>0, <1>3, <2>1 DEF SetNmi
  <2>7. TypeOK'
    <3>1. pending_int' \in [Source -> SUBSET Line] /\ nirq' \in Nat /\ nnmi' \in Nat
      BY <1>0, <2>1, <2>2
    <3>2. global' \subseteq Global
      BY <1>3 DEF SetNmi, Global, Inv, TypeOK
    <3>3. /\ irq_age' \in 0 .. AgeMax /\ nmi_age' \in 0 .. AgeMax
          /\ irq_pending' \in 0 .. Never
      BY <1>0, <1>3 DEF SetNmi, clocks, AgeMax, Never, Inv, TypeOK
    <3> QED
      BY <3>1, <3>2, <3>3 DEF ChangeLine, cpu, traps, Inv, TypeOK
  <2>8. GhostIrqBounded'
    BY <1>0, <1>3 DEF SetNmi, clocks, AgeMax, Never, GhostIrqBounded, Inv
  <2> QED
    BY <2>5, <2>6, <2>7, <2>8 DEF LinesCounted, Inv
<1>4. CASE UnsetNmi(s, k)
  <2> DEFINE q == [pending_int EXCEPT ![s] = pending_int[s] \ {"NMI"}]
  <2>1. pending_int' = q /\ nnmi' = nnmi - 1 /\ nirq' = nirq /\ nnmi > 0
    BY <1>4 DEF UnsetNmi
  <2>2. /\ q \in [Source -> SUBSET Line]
        /\ q[s] = pending_int[s] \ {"NMI"}
        /\ \A t \in Source \ {s} : q[t] = pending_int[t]
    BY <1>0 DEF Line
  <2>3. "NMI" \in Line /\ "IRQ" \in Line \ {"NMI"} /\ "NMI" \in pending_int[s]
    BY <1>4 DEF Line, UnsetNmi
  <2> HIDE DEF q
  <2>4. /\ Cardinality(Holders("NMI", q)) = Cardinality(Holders("NMI", pending_int)) - 1
        /\ \A j \in Line \ {"NMI"} : Holders(j, q) = Holders(j, pending_int)
    BY <1>T, <2>2, <2>3, Released
  <2>5. /\ nnmi' = Cardinality(Holders("NMI", pending_int'))
        /\ nirq' = Cardinality(Holders("IRQ", pending_int'))
    BY <1>0, <2>1, <2>3, <2>4
  <2>6. "IRQ" \in global' <=> nirq' > 0
    BY <1>0, <1>4, <2>1 DEF UnsetNmi
  <2>7. TypeOK'
    <3>1. pending_int' \in [Source -> SUBSET Line] /\ nirq' \in Nat /\ nnmi' \in Nat
      BY <1>0, <2>1, <2>2
    <3>2. global' \subseteq Global
      BY <1>4 DEF UnsetNmi, Global, Inv, TypeOK
    <3>3. /\ irq_age' \in 0 .. AgeMax /\ nmi_age' \in 0 .. AgeMax
          /\ irq_pending' \in 0 .. Never
      BY <1>0, <1>4 DEF UnsetNmi, clocks, AgeMax, Never, Inv, TypeOK
    <3> QED
      BY <3>1, <3>2, <3>3 DEF ChangeLine, cpu, traps, Inv, TypeOK
  <2>8. GhostIrqBounded'
    BY <1>0, <1>4 DEF UnsetNmi, clocks, AgeMax, Never, GhostIrqBounded, Inv
  <2> QED
    BY <2>5, <2>6, <2>7, <2>8 DEF LinesCounted, Inv
<1> QED
  BY <1>1, <1>2, <1>3, <1>4 DEF ChangeLine

(* A step that leaves the lines and IK_IRQ alone keeps the counts.         *)
LEMMA SameLines ==
  ASSUME LinesCounted, UNCHANGED lines, "IRQ" \in global' <=> "IRQ" \in global
  PROVE  LinesCounted'
  BY DEF LinesCounted, lines

(* An expired IRQPEND is dropped before the CPU looks at it.               *)
LEMMA FreshKeeps ==
  ASSUME Inv
  PROVE  /\ Fresh \subseteq Global
         /\ "IRQ" \in Fresh <=> "IRQ" \in global
         /\ FreshPending \in 0 .. Never
         /\ "IRQPEND" \in Fresh /\ "IRQ" \notin Fresh => FreshPending # Never
  BY DEF Inv, TypeOK, GhostIrqBounded, Fresh, FreshPending, Never

(* The start of an instruction, up to the choice of DO_INTERRUPT.          *)
LEMMA FetchKeeps ==
  ASSUME Inv, Fetch
  PROVE  Inv'
<1>1. /\ Fresh \subseteq Global
      /\ "IRQ" \in Fresh <=> "IRQ" \in global
      /\ FreshPending \in 0 .. Never
      /\ "IRQPEND" \in Fresh /\ "IRQ" \notin Fresh => FreshPending # Never
  BY FreshKeeps
<1>2. PICK n \in {0, 5} : Elapse(n, FreshPending)
  BY DEF Fetch
<1>3. /\ irq_age' \in 0 .. AgeMax /\ nmi_age' \in 0 .. AgeMax
      /\ irq_pending' \in 0 .. Never
      /\ FreshPending # Never => irq_pending' # Never
  BY <1>1, <1>2, ElapseKeeps DEF Inv
<1>4. /\ global' \subseteq Global
      /\ "IRQ" \in global' <=> "IRQ" \in global
      /\ "IRQPEND" \in global' /\ "IRQ" \notin global' => FreshPending # Never
  <2>1. CASE global' = Fresh
    BY <1>1, <2>1
  <2>2. CASE IrqDue(Fresh) /\ global' = Fresh \cup {"IRQPEND"}
    BY <1>1, <2>2 DEF IrqDue, IrqRequested, Global
  <2> QED
    BY <2>1, <2>2 DEF Fetch
<1>5. LinesCounted'
  BY <1>4, SameLines DEF Fetch, Inv
<1>6. GhostIrqBounded'
  BY <1>3, <1>4 DEF GhostIrqBounded
<1>7. ik' \subseteq Global /\ I' \in BOOLEAN /\ pc' \in {"vector", "opcode", "trap"}
  BY <1>1 DEF Fetch, Inv, TypeOK
<1>8. TypeOK'
  BY <1>3, <1>4, <1>7 DEF Fetch, lines, traps, Inv, TypeOK
<1> QED
  BY <1>5, <1>6, <1>8 DEF Inv

(* The acknowledgements leave IK_IRQ alone, and IK_IRQPEND a way out.      *)
LEMMA AckKeeps ==
  ASSUME Inv, NEW n \in Nat,
         \/ interrupt_ack_nmi(n)
         \/ interrupt_ack_irq(n)
         \/ Elapse(n, irq_pending) /\ UNCHANGED global
  PROVE  /\ global' \subseteq Global
         /\ "IRQ" \in global' <=> "IRQ" \in global
         /\ irq_age' \in 0 .. AgeMax /\ nmi_age' \in 0 .. AgeMax
         /\ irq_pending' \in 0 .. Never
         /\ GhostIrqBounded'
<1>1. irq_pending \in 0 .. Never /\ Never \in 0 .. Never /\ global \subseteq Global
  BY DEF Inv, TypeOK, Never
<1>2. CASE interrupt_ack_nmi(n)
  <2>1. Elapse(n, irq_pending) /\ global' = global \ {"NMI"}
    BY <1>2 DEF interrupt_ack_nmi
  <2> QED
    BY <1>1, <2>1, ElapseKeeps DEF Inv, GhostIrqBounded
<1>3. CASE interrupt_ack_irq(n)
  <2>1. Elapse(n, Never) /\ global' = global \ {"IRQPEND"}
    BY <1>3 DEF interrupt_ack_irq
  <2> QED
    BY <1>1, <2>1, ElapseKeeps DEF Inv, GhostIrqBounded
<1>4. CASE Elapse(n, irq_pending) /\ UNCHANGED global
  BY <1>1, <1>4, ElapseKeeps DEF Inv, GhostIrqBounded
<1> QED
  BY <1>2, <1>3, <1>4

(* The rest of the CPU loop.                                               *)
LEMMA CpuKeeps ==
  ASSUME Inv, Cpu
  PROVE  Inv'
<1>1. CASE Fetch
  BY <1>1, FetchKeeps
<1>2. CASE Vector
  <2>1. interrupt_ack_nmi(2) \/ interrupt_ack_irq(2)
    BY <1>2 DEF Vector
  <2>2. /\ global' \subseteq Global
        /\ "IRQ" \in global' <=> "IRQ" \in global
        /\ irq_age' \in 0 .. AgeMax /\ nmi_age' \in 0 .. AgeMax
        /\ irq_pending' \in 0 .. Never
        /\ GhostIrqBounded'
    BY <2>1, AckKeeps
  <2>3. LinesCounted'
    BY <1>2, <2>2, SameLines DEF Vector, Inv
  <2>4. TypeOK'
    BY <1>2, <2>2 DEF Vector, lines, traps, Inv, TypeOK
  <2> QED
    BY <2>2, <2>3, <2>4 DEF Inv
<1>3. CASE BrkVector
  <2>1. \/ interrupt_ack_nmi(2)
        \/ interrupt_ack_irq(2)
        \/ Elapse(2, irq_pending) /\ UNCHANGED global
    BY <1>3 DEF BrkVector
  <2>2. /\ global' \subseteq Global
        /\ "IRQ" \in global' <=> "IRQ" \in global
        /\ irq_age' \in 0 .. AgeMax /\ nmi_age' \in 0 .. AgeMax
        /\ irq_pending' \in 0 .. Never
        /\ GhostIrqBounded'
    BY <2>1, AckKeeps
  <2>3. LinesCounted'
    BY <1>3, <2>2, SameLines DEF BrkVector, Inv
  <2>4. jump' \in {"NMI", "IRQ", "BRK"} /\ I' = TRUE
    BY <1>3 DEF BrkVector
  <2>5. TypeOK'
    BY <1>3, <2>2, <2>4 DEF BrkVector, lines, traps, Inv, TypeOK
  <2> QED
    BY <2>2, <2>3, <2>5 DEF Inv
<1>4. CASE interrupt_do_trap
  <2>1. LinesCounted'
    BY <1>4, SameLines DEF interrupt_do_trap, Inv
  <2>2. TypeOK' /\ GhostIrqBounded'
    BY <1>4 DEF interrupt_do_trap, lines, clocks, Inv, TypeOK, GhostIrqBounded
  <2> QED
    BY <2>1, <2>2 DEF Inv
<1>5. CASE TrapReturns
  <2>1. LinesCounted'
    BY <1>5, SameLines DEF TrapReturns, Inv
  <2>2. TypeOK' /\ GhostIrqBounded'
    BY <1>5 DEF TrapReturns, lines, clocks, traps, Global, Inv, TypeOK, GhostIrqBounded
  <2> QED
    BY <2>1, <2>2 DEF Inv
<1>6. CASE cpu_reset
  <2>1. CASE "RESET" \in ik
    <3>1. interrupt_cpu_status_reset
      BY <1>6, <2>1 DEF cpu_reset
    <3>2. LinesCounted'
      BY <3>1, NobodyHolds DEF interrupt_cpu_status_reset, LinesCounted
    <3>3. GhostIrqBounded'
      BY <3>1 DEF interrupt_cpu_status_reset, GhostIrqBounded
    <3>4. TypeOK'
      BY <1>6, <3>1, <2>1 DEF interrupt_cpu_status_reset, cpu_reset, Inv, TypeOK,
         AgeMax, Never
    <3> QED
      BY <3>2, <3>3, <3>4 DEF Inv
  <2>2. CASE "RESET" \notin ik
    <3>1. LinesCounted'
      BY <1>6, <2>2, SameLines DEF cpu_reset, Inv
    <3>2. TypeOK' /\ GhostIrqBounded'
      BY <1>6, <2>2 DEF cpu_reset, lines, clocks, Inv, TypeOK, GhostIrqBounded
    <3> QED
      BY <3>1, <3>2 DEF Inv
  <2> QED
    BY <2>1, <2>2
<1>7. CASE DropIrqPend
  <2>1. LinesCounted'
    BY <1>7, SameLines DEF DropIrqPend, Inv
  <2>2. TypeOK' /\ GhostIrqBounded'
    BY <1>7 DEF DropIrqPend, lines, clocks, traps, Inv, TypeOK, GhostIrqBounded
  <2> QED
    BY <2>1, <2>2 DEF Inv
<1>8. ASSUME NEW kind \in {"plain", "delays", "disables", "enables"},
             NEW flag \in BOOLEAN, Opcode(kind, flag)
      PROVE  Inv'
  <2>1. PICK n \in 2 .. 3 : Elapse(n, irq_pending)
    BY <1>8 DEF Opcode
  <2>2. /\ irq_age' \in 0 .. AgeMax /\ nmi_age' \in 0 .. AgeMax
        /\ irq_pending' \in 0 .. Never /\ GhostIrqBounded'
    BY <1>8, <2>1, AckKeeps DEF Opcode
  <2>3. LinesCounted'
    BY <1>8, SameLines DEF Opcode, Inv
  <2>4. TypeOK'
    BY <1>8, <2>2 DEF Opcode, lines, traps, Inv, TypeOK
  <2> QED
    BY <2>2, <2>3, <2>4 DEF Inv
<1>9. CASE SEI \/ CLI \/ PLP(TRUE) \/ PLP(FALSE) \/ RTI(TRUE) \/ RTI(FALSE)
           \/ Branch \/ OtherOpcode
  <2>1. I \in BOOLEAN
    BY DEF Inv, TypeOK
  <2> QED
    BY <1>8, <1>9, <2>1 DEF SEI, CLI, PLP, RTI, Branch, OtherOpcode
<1>10. CASE BRK
  <2>1. /\ irq_age' \in 0 .. AgeMax /\ nmi_age' \in 0 .. AgeMax
        /\ irq_pending' \in 0 .. Never /\ GhostIrqBounded'
    BY <1>10, AckKeeps DEF BRK
  <2>2. LinesCounted'
    BY <1>10, SameLines DEF BRK, Inv
  <2>3. TypeOK'
    BY <1>10, <2>1 DEF BRK, lines, traps, Inv, TypeOK
  <2> QED
    BY <2>1, <2>2, <2>3 DEF Inv
<1> QED
  BY <1>1, <1>2, <1>3, <1>4, <1>5, <1>6, <1>7, <1>9, <1>10 DEF Cpu

(* A snapshot brings counts that agree with the lines, provided that every *)
(* chip restores its line without counting it.                             *)
LEMMA ReadSnapshotKeeps ==
  ASSUME Inv, SetsOnRestore = {}, NEW m \in SavedState, ReadSnapshot(m)
  PROVE  Inv'
<1>1. /\ m.lines \in [Source -> SUBSET Line]
      /\ m.global \subseteq {"IRQ", "IRQPEND", "NMI"}
      /\ m.pending \in {1, Never}
      /\ "IRQ" \in m.global <=> Holders("IRQ", m.lines) # {}
      /\ "IRQPEND" \in m.global /\ "IRQ" \notin m.global => m.pending # Never
  BY DEF SavedState
<1>2. \A l : Recounted(l, m.lines) = 0
  BY FS_EmptySet DEF Recounted
<1>3. /\ pending_int' = m.lines
      /\ global' = m.global
      /\ irq_pending' = m.pending
  BY <1>2 DEF ReadSnapshot
<1>4. /\ nirq' = Cardinality(Holders("IRQ", m.lines))
      /\ nnmi' = Cardinality(Holders("NMI", m.lines))
  BY <1>2, HoldersFinite DEF ReadSnapshot, Restored
<1>5. LinesCounted'
  BY <1>1, <1>3, <1>4, HoldersFinite DEF LinesCounted
<1>6. GhostIrqBounded'
  BY <1>1, <1>3 DEF GhostIrqBounded
<1>7. nirq' \in Nat /\ nnmi' \in Nat
  BY <1>4, HoldersFinite
<1>8. irq_pending' \in 0 .. Never /\ global' \subseteq Global
  BY <1>1, <1>3 DEF Never, Global
<1>9. TypeOK'
  BY <1>1, <1>3, <1>7, <1>8 DEF ReadSnapshot, traps, Inv, TypeOK, AgeMax
<1> QED
  BY <1>5, <1>6, <1>9 DEF Inv

(* Every step keeps the invariant.                                         *)
LEMMA NextKeeps ==
  ASSUME SetsOnRestore = {}, Inv, [Next]_vars
  PROVE  Inv'
<1>1. CASE Cpu
  BY <1>1, CpuKeeps
<1>2. ASSUME NEW s \in Source, NEW k \in StartAges, ChangeLine(s, k)
      PROVE  Inv'
  BY <1>2, ChangeLineKeeps
<1>3. CASE interrupt_trigger_reset
  <2>1. LinesCounted'
    BY <1>3, SameLines DEF interrupt_trigger_reset, Inv
  <2>2. TypeOK' /\ GhostIrqBounded'
    BY <1>3 DEF interrupt_trigger_reset, lines, clocks, traps, cpu, Global, Inv,
       TypeOK, GhostIrqBounded
  <2> QED
    BY <2>1, <2>2 DEF Inv
<1>4. ASSUME NEW t \in Trap, interrupt_maincpu_trigger_trap(t)
      PROVE  Inv'
  <2>1. LinesCounted'
    BY <1>4, SameLines DEF interrupt_maincpu_trigger_trap, Inv
  <2>2. TypeOK' /\ GhostIrqBounded'
    BY <1>4 DEF interrupt_maincpu_trigger_trap, lines, clocks, cpu, Global, Inv,
       TypeOK, GhostIrqBounded
  <2> QED
    BY <2>1, <2>2 DEF Inv
<1>5. ASSUME NEW m \in SavedState, ReadSnapshot(m)
      PROVE  Inv'
  BY <1>5, ReadSnapshotKeeps
<1>6. CASE UNCHANGED vars
  BY <1>6 DEF vars, lines, clocks, traps, cpu, Inv, TypeOK, LinesCounted, GhostIrqBounded
<1> QED
  BY <1>1, <1>2, <1>3, <1>4, <1>5, <1>6 DEF Next, Requests

(* The CPU starts with no line asserted.                                   *)
LEMMA InitHolds ==
  ASSUME Init
  PROVE  Inv
  BY NobodyHolds DEF Init, Inv, TypeOK, LinesCounted, GhostIrqBounded, AgeMax, Never, Line

-----------------------------------------------------------------------------
(* Every variable keeps its type.                                          *)
THEOREM TypeCorrect == ASSUME SetsOnRestore = {} PROVE Spec => []TypeOK
<1>1. Init => Inv
  BY InitHolds
<1>2. Inv /\ [Next]_vars => Inv'
  BY NextKeeps
<1>3. Inv => TypeOK
  BY DEF Inv
<1> QED
  BY <1>1, <1>2, <1>3, PTL DEF Spec

(* nirq and nnmi always count the lines that are asserted, through resets, *)
(* acknowledgements and snapshot loads, and IK_IRQ is their wired-or.      *)
THEOREM LinesCorrect == ASSUME SetsOnRestore = {} PROVE Spec => []LinesCounted
<1>1. Init => Inv
  BY InitHolds
<1>2. Inv /\ [Next]_vars => Inv'
  BY NextKeeps
<1>3. Inv => LinesCounted
  BY DEF Inv
<1> QED
  BY <1>1, <1>2, <1>3, PTL DEF Spec

(* A released IRQ never leaves a request without an expiry date behind.    *)
THEOREM GhostCorrect == ASSUME SetsOnRestore = {} PROVE Spec => []GhostIrqBounded
<1>1. Init => Inv
  BY InitHolds
<1>2. Inv /\ [Next]_vars => Inv'
  BY NextKeeps
<1>3. Inv => GhostIrqBounded
  BY DEF Inv
<1> QED
  BY <1>1, <1>2, <1>3, PTL DEF Spec

-----------------------------------------------------------------------------
(* The refinement.  lines and frozen of InterruptLines are functions of    *)
(* pending_int, global and pc.                                             *)

(* A step that changes none of them is a stutter of InterruptLines.        *)
LEMMA Unseen ==
  ASSUME UNCHANGED pending_int,
         "IRQ" \in global' <=> "IRQ" \in global,
         "NMI" \in global' <=> "NMI" \in global,
         pc' = "trapfn" <=> pc = "trapfn"
  PROVE  UNCHANGED InterruptLines!lines
<1>1. \A l : Holders(l, pending_int') = Holders(l, pending_int)
  OBVIOUS
<1>2. /\ ("IRQ" \in global') = ("IRQ" \in global)
      /\ ("NMI" \in global') = ("NMI" \in global)
      /\ (pc' = "trapfn") = (pc = "trapfn")
  OBVIOUS
<1> QED
  BY <1>1, <1>2 DEF InterruptLines!lines

(* A chip's change of its line is that change of InterruptLines.           *)
LEMMA ChangeLineRefines ==
  ASSUME Inv, NEW s \in Source, NEW k \in StartAges, ChangeLine(s, k)
  PROVE  [InterruptLines!Next]_InterruptLines!lines
<1>1. /\ pending_int \in [Source -> SUBSET Line]
      /\ nirq = Cardinality(Holders("IRQ", pending_int))
      /\ nnmi = Cardinality(Holders("NMI", pending_int))
      /\ nirq \in Nat /\ nnmi \in Nat
      /\ "IRQ" \in global <=> nirq > 0
  BY DEF Inv, TypeOK, LinesCounted
<1>2. pc' = pc
  BY DEF ChangeLine, cpu
<1>3. CASE SetIrq(s, k)
  <2>1. /\ Holders("IRQ", pending_int') = Holders("IRQ", pending_int) \cup {s}
        /\ Holders("NMI", pending_int') = Holders("NMI", pending_int)
    BY <1>1, <1>3 DEF SetIrq, Holders, Line
  <2>2. "IRQ" \in global' /\ ("NMI" \in global' <=> "NMI" \in global)
    BY <1>3 DEF SetIrq
  <2>3. InterruptLines!PullIrq(s)
    BY <1>2, <2>1, <2>2 DEF InterruptLines!PullIrq
  <2> QED
    BY <2>3 DEF InterruptLines!Next
<1>4. CASE UnsetIrq(s, k)
  <2>1. /\ Holders("IRQ", pending_int') = Holders("IRQ", pending_int) \ {s}
        /\ Holders("NMI", pending_int') = Holders("NMI", pending_int)
    BY <1>1, <1>4 DEF UnsetIrq, Holders, Line
  <2>2. "NMI" \in global' <=> "NMI" \in global
    BY <1>4 DEF UnsetIrq
  <2>3. LinesCounted'
    BY ChangeLineKeeps DEF Inv
  <2>4. "IRQ" \in global' <=> Holders("IRQ", pending_int') # {}
    BY <2>3, HoldersFinite DEF LinesCounted
  <2>5. InterruptLines!ReleaseIrq(s)
    BY <1>2, <2>1, <2>2, <2>4 DEF InterruptLines!ReleaseIrq
  <2> QED
    BY <2>5 DEF InterruptLines!Next
<1>5. CASE SetNmi(s, k)
  <2>1. /\ Holders("NMI", pending_int') = Holders("NMI", pending_int) \cup {s}
        /\ Holders("IRQ", pending_int') = Holders("IRQ", pending_int)
    BY <1>1, <1>5 DEF SetNmi, Holders, Line
  <2>2. nnmi = 0 <=> Holders("NMI", pending_int) = {}
    BY <1>1, HoldersFinite
  <2>3. /\ "IRQ" \in global' <=> "IRQ" \in global
        /\ "NMI" \in global' <=> "NMI" \in global \/ Holders("NMI", pending_int) = {}
    BY <1>5, <2>2 DEF SetNmi
  <2>4. InterruptLines!PullNmi(s)
    BY <1>2, <2>1, <2>3 DEF InterruptLines!PullNmi
  <2> QED
    BY <2>4 DEF InterruptLines!Next
<1>6. CASE UnsetNmi(s, k)
  <2>1. /\ Holders("NMI", pending_int') = Holders("NMI", pending_int) \ {s}
        /\ Holders("IRQ", pending_int') = Holders("IRQ", pending_int)
        /\ global' = global
    BY <1>1, <1>6 DEF UnsetNmi, Holders, Line
  <2>2. InterruptLines!ReleaseNmi(s)
    BY <1>2, <2>1 DEF InterruptLines!ReleaseNmi
  <2> QED
    BY <2>2 DEF InterruptLines!Next
<1> QED
  BY <1>3, <1>4, <1>5, <1>6 DEF ChangeLine

(* Acknowledging an NMI takes it; acknowledging an IRQ is not seen.        *)
LEMMA AckRefines ==
  ASSUME NEW n, UNCHANGED pending_int, pc # "trapfn", pc' # "trapfn",
         \/ interrupt_ack_nmi(n) /\ NmiHijacks
         \/ interrupt_ack_irq(n)
  PROVE  [InterruptLines!Next]_InterruptLines!lines
<1>1. CASE interrupt_ack_nmi(n) /\ NmiHijacks
  <2>1. /\ "NMI" \in global /\ "NMI" \notin global'
        /\ "IRQ" \in global' <=> "IRQ" \in global
    BY <1>1 DEF interrupt_ack_nmi, NmiHijacks
  <2>2. \A l : Holders(l, pending_int') = Holders(l, pending_int)
    OBVIOUS
  <2>3. InterruptLines!TakeNmi
    BY <2>1, <2>2 DEF InterruptLines!TakeNmi
  <2> QED
    BY <2>3 DEF InterruptLines!Next
<1>2. CASE interrupt_ack_irq(n)
  BY <1>2, Unseen DEF interrupt_ack_irq
<1> QED
  BY <1>1, <1>2

(* Entering or leaving a trap function is all that InterruptLines sees.    *)
LEMMA FreezeRefines ==
  ASSUME UNCHANGED pending_int,
         "IRQ" \in global' <=> "IRQ" \in global,
         "NMI" \in global' <=> "NMI" \in global
  PROVE  [InterruptLines!Next]_InterruptLines!lines
<1>1. CASE pc' = "trapfn" <=> pc = "trapfn"
  BY <1>1, Unseen
<1>2. CASE ~(pc' = "trapfn" <=> pc = "trapfn")
  <2>1. \A l : Holders(l, pending_int') = Holders(l, pending_int)
    OBVIOUS
  <2>2. InterruptLines!FreezeOrThaw
    BY <1>2, <2>1 DEF InterruptLines!FreezeOrThaw
  <2> QED
    BY <2>2 DEF InterruptLines!Next
<1> QED
  BY <1>1, <1>2

(* The CPU loop takes NMIs, resets, and enters and leaves trap functions.  *)
LEMMA CpuRefines ==
  ASSUME Inv, Cpu
  PROVE  [InterruptLines!Next]_InterruptLines!lines
<1>1. CASE Fetch
  BY <1>1, FreezeRefines, FreshKeeps DEF Fetch, Fresh, lines
<1>2. CASE Vector
  BY <1>2, AckRefines DEF Vector, lines
<1>3. CASE BrkVector
  <2>1. CASE interrupt_ack_nmi(2) /\ NmiHijacks
    BY <1>3, <2>1, AckRefines DEF BrkVector, lines
  <2>2. CASE interrupt_ack_irq(2)
    BY <1>3, <2>2, AckRefines DEF BrkVector, lines
  <2>3. CASE UNCHANGED global
    BY <1>3, <2>3, FreezeRefines DEF BrkVector, lines
  <2> QED
    BY <1>3, <2>1, <2>2, <2>3 DEF BrkVector
<1>4. CASE interrupt_do_trap
  BY <1>4, FreezeRefines DEF interrupt_do_trap, lines
<1>5. CASE TrapReturns
  BY <1>5, FreezeRefines DEF TrapReturns, lines
<1>6. CASE cpu_reset
  <2>1. CASE "RESET" \in ik
    <3>1. /\ pending_int' = [s \in Source |-> {}]
          /\ global' = {} /\ pc = "reset" /\ pc' = "clean"
      BY <1>6, <2>1 DEF cpu_reset, interrupt_cpu_status_reset
    <3>2. Holders("IRQ", pending_int') = {} /\ Holders("NMI", pending_int') = {}
      BY <3>1, NobodyHolds
    <3>3. InterruptLines!Reset
      BY <3>1, <3>2 DEF InterruptLines!Reset
    <3> QED
      BY <3>3 DEF InterruptLines!Next
  <2>2. CASE "RESET" \notin ik
    BY <1>6, <2>2, FreezeRefines DEF cpu_reset, lines
  <2> QED
    BY <2>1, <2>2
<1>7. CASE DropIrqPend
  BY <1>7, FreezeRefines DEF DropIrqPend, lines
<1>8. ASSUME NEW kind, NEW flag, Opcode(kind, flag)
      PROVE  [InterruptLines!Next]_InterruptLines!lines
  BY <1>8, FreezeRefines DEF Opcode, lines
<1>9. CASE SEI \/ CLI \/ PLP(TRUE) \/ PLP(FALSE) \/ RTI(TRUE) \/ RTI(FALSE)
           \/ Branch \/ OtherOpcode
  BY <1>8, <1>9 DEF SEI, CLI, PLP, RTI, Branch, OtherOpcode
<1>10. CASE BRK
  BY <1>10, FreezeRefines DEF BRK, lines
<1> QED
  BY <1>1, <1>2, <1>3, <1>4, <1>5, <1>6, <1>7, <1>9, <1>10 DEF Cpu

(* A snapshot is loaded while the CPU is in a trap function.               *)
LEMMA ReadSnapshotRefines ==
  ASSUME Inv, SetsOnRestore = {}, NEW m \in SavedState, ReadSnapshot(m)
  PROVE  [InterruptLines!Next]_InterruptLines!lines
<1>1. LinesCounted'
  BY ReadSnapshotKeeps DEF Inv
<1>2. "IRQ" \in global' <=> Holders("IRQ", pending_int') # {}
  BY <1>1, HoldersFinite DEF LinesCounted
<1>3. \A l : Holders(l, pending_int') \subseteq Source
  BY DEF Holders
<1>4. pc = "trapfn" /\ pc' = "trapfn"
  BY DEF ReadSnapshot
<1>5. ("NMI" \in global') \in BOOLEAN
  OBVIOUS
<1>6. InterruptLines!Load
  BY <1>2, <1>3, <1>4, <1>5 DEF InterruptLines!Load
<1> QED
  BY <1>6 DEF InterruptLines!Next

(* The counters and masks of interrupt.c implement, for any number of      *)
(* chips, a wired-or IRQ level and an NMI edge that only the CPU, a reset  *)
(* or a snapshot load clears.                                              *)
THEOREM LinesRefine == ASSUME SetsOnRestore = {} PROVE Spec => IsInterruptLines
<1>1. Init => Inv
  BY InitHolds
<1>2. Inv /\ [Next]_vars => Inv'
  BY NextKeeps
<1>3. Init => InterruptLines!Init
  BY NobodyHolds DEF Init, InterruptLines!Init
<1>4. Inv /\ [Next]_vars => [InterruptLines!Next]_InterruptLines!lines
  <2> SUFFICES ASSUME Inv, [Next]_vars
               PROVE  [InterruptLines!Next]_InterruptLines!lines
    OBVIOUS
  <2>1. CASE Cpu
    BY <2>1, CpuRefines
  <2>2. ASSUME NEW s \in Source, NEW k \in StartAges, ChangeLine(s, k)
        PROVE  [InterruptLines!Next]_InterruptLines!lines
    BY <2>2, ChangeLineRefines
  <2>3. CASE interrupt_trigger_reset
    BY <2>3, FreezeRefines DEF interrupt_trigger_reset, lines
  <2>4. ASSUME NEW t \in Trap, interrupt_maincpu_trigger_trap(t)
        PROVE  [InterruptLines!Next]_InterruptLines!lines
    BY <2>4, FreezeRefines DEF interrupt_maincpu_trigger_trap, lines
  <2>5. ASSUME NEW m \in SavedState, ReadSnapshot(m)
        PROVE  [InterruptLines!Next]_InterruptLines!lines
    BY <2>5, ReadSnapshotRefines
  <2>6. CASE UNCHANGED vars
    BY <2>6, FreezeRefines DEF vars, lines
  <2> QED
    BY <2>1, <2>2, <2>3, <2>4, <2>5, <2>6 DEF Next, Requests
<1> QED
  BY <1>1, <1>2, <1>3, <1>4, PTL DEF Spec, IsInterruptLines, InterruptLines!Spec
=============================================================================
