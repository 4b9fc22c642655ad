----------------------------- MODULE Interrupts -----------------------------
(***************************************************************************)
(* The path of an interrupt: the two 8259 controllers of pic.c with their  *)
(* cascade and masks, the table irq_routines of idt.c, and the CPU's       *)
(* interrupt flag as the gates and the stubs of low_level.S set it.        *)
(*                                                                         *)
(* Lines 0..7 are those of the master, 8..15 those of the slave, which     *)
(* asks for attention on line 2 of the master.  The controllers themselves *)
(* are external; the order of priority and the end of interrupt (EOI),     *)
(* which retires the most urgent line in service, are those of the fully   *)
(* nested mode that pic_remap leaves them in.                              *)
(***************************************************************************)
EXTENDS Integers

VARIABLES
  irr,            \* lines with a request
  isr,            \* lines in service, of both controllers
  imr,            \* masked lines
  iflag,          \* IF, the CPU's interrupt flag
  irq_routines    \* lines for which a routine is installed

pics == <<irr, isr, imr, iflag, irq_routines>>

Line == 0 .. 15
Master == 0 .. 7
Slave == 8 .. 15
CASCADE == 2

\* The smaller the more urgent: the slave's lines rank with line 2.
Rank(i) == IF i \in Master THEN 16 * i ELSE 16 * CASCADE + i

\* The lines that are in service while the interrupt of line i is.
InService(i) == {i} \cup (IF i \in Slave THEN {CASCADE} ELSE {})

\* A request that gets past the masks and the lines in service.
Passes(i) ==
  /\ i \in irr \ {CASCADE} /\ InService(i) \cap imr = {}
  /\ \A j \in isr : j \in Master \/ i \in Slave => Rank(i) < Rank(j)

Deliverable(i) ==
  /\ iflag /\ Passes(i)
  /\ \A j \in irr : Passes(j) => Rank(i) <= Rank(j)

\* The CPU takes the interrupt: its gate is an interrupt gate and clears IF.
Take(i) ==
  /\ Deliverable(i)
  /\ irr' = irr \ {i}
  /\ isr' = isr \cup InService(i)
  /\ iflag' = FALSE
  /\ UNCHANGED <<imr, irq_routines>>

MostUrgent(S) == {i \in S : \A j \in S : Rank(i) <= Rank(j)}

\* Mutant: only the controller that the line belongs to is told.
pic_send_eoi_OneOnly(irq) ==
  isr \ MostUrgent(isr \cap (IF irq >= 8 THEN Slave ELSE Master))

\* Mutant: the slave is never told.
pic_send_eoi_MasterOnly(irq) == isr \ MostUrgent(isr \cap Master)

\* What remains in service.
pic_send_eoi(irq) ==
  isr \ (MostUrgent(isr \cap Master) \cup
           IF irq >= 8 THEN MostUrgent(isr \cap Slave) ELSE {})

\* A device asks for an interrupt.
Raise(i) ==
  /\ i \notin irr
  /\ irr' = irr \cup {i}
  /\ UNCHANGED <<isr, imr, iflag, irq_routines>>

irq_install_handler(i) == irq_routines' = irq_routines \cup {i}

\* pic_unmask_irq for each line of U.
pic_unmask_irqs(U) == imr' = imr \ U

\* idt_init: pic_remap puts back the masks that the firmware has left.
PicInit(masks) ==
  /\ irr = {} /\ isr = {} /\ imr = masks /\ iflag = FALSE
  /\ irq_routines = {}
=============================================================================
