----------------------------- MODULE ShellProofs -----------------------------
(***************************************************************************)
(* Proofs about Shell for every size of the buffer, every choice of        *)
(* devices, of characters and of masks.  The stack of interrupts never     *)
(* holds more than two, because the controller lets only the timer's       *)
(* interrupt nest in the keyboard's and nothing in the timer's; everything *)
(* else follows from that.                                                 *)
(***************************************************************************)
EXTENDS Shell, SequenceTheorems, FiniteSetTheorems, WellFoundedInduction, TLAPS

USE DEF TIMER, KEYBOARD, MOUSE, CASCADE, Line, Master, Slave

-----------------------------------------------------------------------------
(* The controllers                                                          *)

\* The EOI of the only interrupt in service empties both controllers.
LEMMA EoiOfOnly ==
  ASSUME NEW i \in Line, isr = InService(i)
  PROVE  pic_send_eoi(i) = {}
  BY DEF InService, pic_send_eoi, MostUrgent, Rank

\* The EOI of a timer interrupt that nests in a keyboard interrupt retires the
\* former.
LEMMA EoiOfNested ==
  ASSUME isr = {KEYBOARD, TIMER}
  PROVE  pic_send_eoi(TIMER) = {KEYBOARD}
  BY DEF pic_send_eoi, MostUrgent, Rank

\* What gets past the timer or the keyboard in service: nothing past the former,
\* and only the timer past the latter.
LEMMA OnlyTimerNests ==
  ASSUME NEW i \in Line, NEW j \in {TIMER, KEYBOARD}, j \in isr, Deliverable(i)
  PROVE  i = TIMER /\ j = KEYBOARD
  BY DEF Deliverable, Passes, Rank

-----------------------------------------------------------------------------
(* The stack of interrupts                                                  *)

\* Goto replaces the place of the innermost frame.
LEMMA GotoFrames ==
  ASSUME frames \in Seq(Frame), frames # <<>>,
         NEW p \in {"routine", "ring3", "tail", "eoi"}, Goto(p)
  PROVE  /\ frames' \in Seq(Frame) /\ Depth' = Depth /\ Depth \in Nat \ {0}
         /\ \A d \in 1 .. Depth :
              frames'[d] = IF d = Depth THEN [irq |-> Top.irq, at |-> p] ELSE frames[d]
  <1>1. Depth \in Nat \ {0} /\ Top \in Frame
    BY EmptySeq, ElementOfSeq DEF Depth, Top
  <1> DEFINE f == [irq |-> Top.irq, at |-> p]
  <1>2. f \in Frame /\ [Top EXCEPT !.at = p] = f
    BY <1>1 DEF Frame
  <1>3. frames' = [frames EXCEPT ![Depth] = f]
    BY <1>2 DEF Goto, Top
  <1>4. Depth \in 1 .. Len(frames)
    BY <1>1 DEF Depth
  <1> HIDE DEF f
  <1>5. ASSUME NEW i \in 1 .. Len(frames)
        PROVE  /\ [frames EXCEPT ![i] = f] \in Seq(Frame)
               /\ Len([frames EXCEPT ![i] = f]) = Len(frames)
               /\ \A d \in 1 .. Len(frames) :
                    [frames EXCEPT ![i] = f][d] = IF d = i THEN f ELSE frames[d]
    BY <1>2, ExceptSeq
  <1>6. /\ frames' \in Seq(Frame) /\ Len(frames') = Len(frames)
        /\ \A d \in 1 .. Len(frames) :
             frames'[d] = IF d = Depth THEN f ELSE frames[d]
    BY <1>3, <1>4, <1>5
  <1> QED
    BY <1>1, <1>6 DEF Depth, f

\* An interrupt is pushed.
LEMMA PushFrames ==
  ASSUME frames \in Seq(Frame), NEW f \in Frame, frames' = Append(frames, f)
  PROVE  /\ frames' \in Seq(Frame) /\ Depth \in Nat /\ Depth' = Depth + 1
         /\ \A d \in 1 .. Depth : frames'[d] = frames[d]
         /\ frames'[Depth + 1] = f
  BY AppendProperties, LenProperties DEF Depth

\* The first n elements of a sequence.
LEMMA Prefix ==
  ASSUME NEW S, NEW s \in Seq(S), NEW n \in 0 .. Len(s)
  PROVE  /\ SubSeq(s, 1, n) \in Seq(S)
         /\ Len(SubSeq(s, 1, n)) = n
         /\ \A i \in 1 .. n : SubSeq(s, 1, n)[i] = s[i]
  OBVIOUS

\* An interrupt returns.
LEMMA PopFrames ==
  ASSUME frames \in Seq(Frame), frames # <<>>,
         frames' = SubSeq(frames, 1, Depth - 1)
  PROVE  /\ frames' \in Seq(Frame) /\ Depth \in Nat \ {0} /\ Depth' = Depth - 1
         /\ \A d \in 1 .. Depth - 1 : frames'[d] = frames[d]
  <1>1. Depth \in Nat \ {0} /\ Depth - 1 \in 0 .. Len(frames)
    BY EmptySeq DEF Depth
  <1>2. /\ frames' \in Seq(Frame) /\ Len(frames') = Depth - 1
        /\ \A d \in 1 .. Depth - 1 : frames'[d] = frames[d]
    BY <1>1, Prefix
  <1> QED
    BY <1>1, <1>2 DEF Depth

\* The lines in service depend on the interrupts in progress only through their
\* lines.
LEMMA SameService ==
  ASSUME EoiMatches, Depth \in Nat, Depth' = Depth, isr' = isr,
         \A d \in 1 .. Depth : frames'[d].irq = frames[d].irq
  PROVE  EoiMatches'
  BY DEF EoiMatches, InService
-----------------------------------------------------------------------------
(* Strings                                                                  *)

Text == [Index -> Char \cup {NUL}]

\* A set of natural numbers that is not empty has a least element.
LEMMA Least ==
  ASSUME NEW S \in SUBSET Nat, S # {}
  PROVE  \E n \in S : \A m \in S : n <= m
  <1> DEFINE T == {0 .. n : n \in S}
             R == StrictSubsetOrdering(Nat)
             D == FiniteSubsetsOf(Nat)
  <1>1. \A n \in Nat : 0 .. n \in D
    BY FS_Interval DEF FiniteSubsetsOf
  <1>2. T \subseteq D /\ T # {}
    BY <1>1
  <1>3. IsWellFoundedOn(R, D)
    BY FS_StrictSubsetOrderingWellFounded
  <1>4. \E x \in T : \A y \in T : <<y, x>> \notin R
    <2> HIDE DEF T, R, D
    <2> QED
      BY <1>2, <1>3, WFMin
  <1>5. PICK n \in S : \A m \in S : <<0 .. m, 0 .. n>> \notin R
    BY <1>4
  <1>6. ASSUME NEW m \in S
        PROVE  n <= m
    <2> SUFFICES ASSUME m < n
                 PROVE  FALSE
      OBVIOUS
    <2>1. 0 .. m \subseteq 0 .. n /\ n \in 0 .. n /\ n \notin 0 .. m
      OBVIOUS
    <2>2. 0 .. m \in SUBSET Nat /\ 0 .. n \in SUBSET Nat
      OBVIOUS
    <2> QED
      BY <1>5, <2>1, <2>2 DEF StrictSubsetOrdering
  <1> QED
    BY <1>6

\* A string that ends inside its buffer consists of characters.
LEMMA CStringType ==
  ASSUME NEW b \in Text, \E i \in Index : b[i] = NUL
  PROVE  CString(b) \in Seq(Char)
  <1> DEFINE E == {i \in Index : b[i] = NUL}
             P(n) == b[n] = NUL /\ \A j \in Index : j < n => b[j] # NUL
             end == CHOOSE i \in Index : P(i)
  <1>1. E \in SUBSET Nat /\ E # {}
    BY ShellConstants DEF Index
  <1>2. PICK n \in E : \A m \in E : n <= m
    BY <1>1, Least
  <1>3. n \in Index /\ P(n)
    BY <1>2, ShellConstants DEF Index
  <1>4. end \in Index /\ P(end)
    <2> HIDE DEF P
    <2> QED
      BY <1>3
  <1>5. CString(b) = [k \in 1 .. end |-> b[k - 1]]
    BY DEF CString
  <1>6. end \in Nat /\ \A k \in 1 .. end : b[k - 1] \in Char
    BY <1>4, ShellConstants DEF Index, Text
  <1> HIDE DEF end
  <1> QED
    BY <1>5, <1>6

\* The string that a sequence of characters and a terminator make.
LEMMA CStringOf ==
  ASSUME NEW b \in Text, NEW s \in Seq(Char), Len(s) \in Index,
         b[Len(s)] = NUL, \A k \in 1 .. Len(s) : b[k - 1] = s[k]
  PROVE  CString(b) = s
  <1> DEFINE P(n) == b[n] = NUL /\ \A j \in Index : j < n => b[j] # NUL
             end == CHOOSE i \in Index : P(i)
  <1>1. \A k \in 1 .. Len(s) : s[k] \in Char /\ s[k] # NUL
    BY ElementOfSeq, ShellConstants
  <1>2. P(Len(s))
    <2> SUFFICES ASSUME NEW j \in Index, j < Len(s)
                 PROVE  b[j] # NUL
      OBVIOUS
    <2>1. j + 1 \in 1 .. Len(s) /\ (j + 1) - 1 = j
      BY ShellConstants DEF Index
    <2> QED
      BY <1>1, <2>1
  <1>3. \A n \in Index : P(n) => n = Len(s)
    <2> SUFFICES ASSUME NEW n \in Index, P(n)
                 PROVE  n = Len(s)
      OBVIOUS
    <2>1. ~(n < Len(s)) /\ ~(Len(s) < n)
      BY <1>2
    <2> QED
      BY <2>1, ShellConstants DEF Index
  <1>4. end = Len(s)
    <2> HIDE DEF P
    <2> QED
      BY <1>2, <1>3
  <1>5. CString(b) = [k \in 1 .. end |-> b[k - 1]]
    BY DEF CString
  <1>6. s = [k \in 1 .. Len(s) |-> s[k]]
    BY LenProperties
  <1> HIDE DEF end
  <1> QED
    BY <1>4, <1>5, <1>6
-----------------------------------------------------------------------------
(* What every step keeps of the stack of interrupts                         *)

Stack == HandlersUninterrupted /\ EoiMatches /\ NestingInv /\ ReturnInv

\* The innermost frame.
LEMMA TopFrame ==
  ASSUME frames \in Seq(Frame), frames # <<>>
  PROVE  /\ Depth \in Nat \ {0} /\ Top \in Frame
         /\ Top.irq \in Line /\ Top.at \in {"routine", "ring3", "tail", "eoi"}
  <1>1. Depth \in Nat \ {0} /\ Top \in Frame
    BY EmptySeq, ElementOfSeq DEF Depth, Top
  <1> QED
    BY <1>1 DEF Frame

\* Steps that leave the stack, the lines in service and the interrupt flag alone.
LEMMA StackSame ==
  ASSUME Stack, UNCHANGED <<frames, isr, iflag, km_esp, clobbered>>
  PROVE  Stack'
  BY DEF Stack, HandlersUninterrupted, EoiMatches, NestingInv, ReturnInv, Commands, Top,
         Depth, InService

\* The kernel gets on inside the innermost interrupt; to the tail of a command it
\* comes only from the two lines that bring characters.
LEMMA StackGoto ==
  ASSUME TypeOK, Stack, NEW q \in {"routine", "ring3", "tail"}, At(q),
         NEW p \in {"routine", "tail", "eoi"}, Goto(p),
         p = "tail" => Top.irq \in {TIMER, KEYBOARD},
         ~iflag', ~clobbered', UNCHANGED <<isr, km_esp>>,
         q = "ring3" => Depth = 1
  PROVE  Stack'
  <1>1. /\ frames \in Seq(Frame) /\ frames # <<>> /\ Top.at = q /\ ~clobbered
    BY DEF At, TypeOK
  <1>2. /\ Depth \in Nat \ {0} /\ Top \in Frame
        /\ Top.irq \in Line
    BY <1>1, TopFrame
  <1>3. /\ Depth' = Depth
        /\ \A d \in 1 .. Depth :
             frames'[d] = IF d = Depth THEN [irq |-> Top.irq, at |-> p] ELSE frames[d]
    BY <1>1, GotoFrames
  <1>4. Top' = [irq |-> Top.irq, at |-> p] /\ frames' # <<>>
    BY <1>1, <1>2, <1>3, EmptySeq DEF Top, Depth
  <1>5. HandlersUninterrupted'
    BY <1>2, <1>3, <1>4 DEF Stack, HandlersUninterrupted
  <1>6. EoiMatches'
    <2>1. \A d \in 1 .. Depth : frames'[d].irq = frames[d].irq
      BY <1>2, <1>3 DEF Top
    <2> QED
      BY <1>2, <1>3, <2>1, SameService DEF Stack
  <1>7. NestingInv'
    <2>1. \A d \in 1 .. Depth : frames'[d].at \in {"ring3", "tail"}
                                  => frames'[d].irq \in {TIMER, KEYBOARD}
      BY <1>2, <1>3 DEF Stack, NestingInv, Commands
    <2>2. Depth = 2 => /\ frames'[1] = [irq |-> KEYBOARD, at |-> "ring3"]
                       /\ frames'[2].irq = TIMER
      BY <1>2, <1>3 DEF Stack, NestingInv, Top
    <2> QED
      BY <1>3, <2>1, <2>2 DEF NestingInv, Commands
  <1>8. ReturnInv'
    <2> SUFFICES ASSUME NEW d \in 1 .. Depth, frames'[d].at = "ring3"
                 PROVE  km_esp = d
      BY <1>3, <1>4 DEF ReturnInv
    <2>1. d # Depth /\ frames[d].at = "ring3"
      BY <1>2, <1>3
    <2>2. Top.at # "ring3"
      BY <1>1, <1>2, <2>1
    <2> QED
      BY <1>1, <2>1, <2>2 DEF Stack, ReturnInv
  <1> QED
    BY <1>5, <1>6, <1>7, <1>8 DEF Stack

\* usertest leaves for ring 3.
LEMMA StackLeave ==
  ASSUME TypeOK, Stack, At("routine"), Top.irq \in {TIMER, KEYBOARD},
         enter_usermode, UNCHANGED <<isr, clobbered>>
  PROVE  Stack'
  <1>1. /\ frames \in Seq(Frame) /\ frames # <<>> /\ Top.at = "routine" /\ ~clobbered
        /\ Goto("ring3") /\ km_esp' = Depth /\ iflag'
    BY DEF At, TypeOK, enter_usermode
  <1>2. /\ Depth \in Nat \ {0} /\ Top \in Frame
        /\ Top.irq \in Line
    BY <1>1, TopFrame
  <1>3. /\ Depth' = Depth
        /\ \A d \in 1 .. Depth :
             frames'[d] = IF d = Depth THEN [irq |-> Top.irq, at |-> "ring3"]
                          ELSE frames[d]
    BY <1>1, GotoFrames
  <1>4. Top' = [irq |-> Top.irq, at |-> "ring3"] /\ frames' # <<>>
    BY <1>1, <1>2, <1>3, EmptySeq DEF Top, Depth
  <1>5. HandlersUninterrupted'
    BY <1>1, <1>2, <1>3, <1>4 DEF Stack, HandlersUninterrupted
  <1>6. EoiMatches'
    <2>1. \A d \in 1 .. Depth : frames'[d].irq = frames[d].irq
      BY <1>2, <1>3 DEF Top
    <2> QED
      BY <1>2, <1>3, <2>1, SameService DEF Stack
  <1>7. NestingInv'
    <2>1. \A d \in 1 .. Depth : frames'[d].at \in {"ring3", "tail"}
                                  => frames'[d].irq \in {TIMER, KEYBOARD}
      BY <1>2, <1>3 DEF Stack, NestingInv, Commands
    <2>2. Depth = 2 => /\ frames'[1] = [irq |-> KEYBOARD, at |-> "ring3"]
                       /\ frames'[2].irq = TIMER
      BY <1>2, <1>3 DEF Stack, NestingInv, Top
    <2> QED
      BY <1>3, <2>1, <2>2 DEF NestingInv, Commands
  <1>8. ReturnInv'
    BY <1>1, <1>3, <1>4 DEF ReturnInv
  <1> QED
    BY <1>5, <1>6, <1>7, <1>8 DEF Stack

\* An interrupt is taken in kernel_main's idle loop, where nothing else is in
\* service, or it is the timer's, in a usertest that the keyboard has begun.
LEMMA StackEnter ==
  ASSUME TypeOK, Stack, BootInv, NEW i \in Line, irq_handler(i)
  PROVE  Stack'
  <1>1. /\ frames \in Seq(Frame) /\ ~clobbered /\ ~clobbered' /\ ~iflag' /\ iflag
        /\ Deliverable(i) /\ isr' = isr \cup InService(i) /\ km_esp' = km_esp
    BY DEF irq_handler, TypeOK, Take, Deliverable, editor
  <1> DEFINE f == [irq |-> i, at |-> IF i \in irq_routines THEN "routine" ELSE "eoi"]
  <1>2. f \in Frame /\ f.irq = i /\ f.at \in {"routine", "eoi"}
    BY DEF Frame
  <1>3. frames' = Append(frames, f)
    BY DEF irq_handler
  <1> HIDE DEF f
  <1>4. /\ Depth \in Nat /\ Depth' = Depth + 1
        /\ \A d \in 1 .. Depth : frames'[d] = frames[d]
        /\ frames'[Depth + 1] = f
    BY <1>1, <1>2, <1>3, PushFrames
  <1>5. Top' = f /\ frames' # <<>>
    BY <1>1, <1>4, EmptySeq DEF Top, Depth
  <1>6. CASE frames = <<>>
    <2>1. Depth = 0 /\ isr = {}
      BY <1>6, EmptySeq DEF Depth, Stack, EoiMatches
    <2>2. HandlersUninterrupted'
      BY <1>1, <1>2, <1>4, <1>5, <2>1 DEF HandlersUninterrupted
    <2>3. EoiMatches'
      BY <1>1, <1>2, <1>4, <2>1 DEF EoiMatches, InService
    <2>4. NestingInv' /\ ReturnInv'
      BY <1>1, <1>2, <1>4, <1>5, <2>1 DEF NestingInv, ReturnInv, Commands
    <2> QED
      BY <2>2, <2>3, <2>4 DEF Stack
  <1>7. CASE frames # <<>>
    <2>1. Depth \in Nat \ {0} /\ Top \in Frame /\ Top.at = "ring3" /\ Depth <= 2
      BY <1>1, <1>7, TopFrame DEF Stack, HandlersUninterrupted
    <2>2. Top.irq \in {TIMER, KEYBOARD}
      BY <2>1 DEF Stack, NestingInv, Commands, Top
    <2>3. Top.irq \in isr
      BY <2>1 DEF Stack, EoiMatches, InService, Top
    <2>4. i = TIMER /\ Top.irq = KEYBOARD
      BY <1>1, <2>2, <2>3, OnlyTimerNests
    <2>5. Depth = 1
      BY <2>1, <2>4 DEF Stack, NestingInv, Top
    <2>6. Top = [irq |-> KEYBOARD, at |-> "ring3"] /\ frames[1] = Top
      BY <2>1, <2>4, <2>5 DEF Frame, Top
    <2>7. isr = {KEYBOARD} /\ InService(i) = {TIMER}
      BY <2>4, <2>5, <2>6 DEF Stack, EoiMatches, InService
    <2>8. HandlersUninterrupted'
      BY <1>1, <1>2, <1>4, <1>5, <2>5, <2>6 DEF HandlersUninterrupted
    <2>9. EoiMatches'
      BY <1>1, <1>2, <1>4, <2>4, <2>5, <2>6, <2>7 DEF EoiMatches, InService
    <2>10. NestingInv'
      BY <1>2, <1>4, <2>4, <2>5, <2>6 DEF NestingInv, Commands
    <2>11. km_esp = 1
      BY <1>1, <2>1, <2>5, <2>6 DEF Stack, ReturnInv
    <2>12. ReturnInv'
      BY <1>1, <1>2, <1>4, <1>5, <2>5, <2>11 DEF ReturnInv
    <2> QED
      BY <2>8, <2>9, <2>10, <2>12 DEF Stack
  <1> QED
    BY <1>6, <1>7

\* The EOI is for the innermost interrupt, and the interrupt flag goes on again
\* outside it: in the idle loop, or in ring 3.
LEMMA StackReturn ==
  ASSUME TypeOK, Stack, IrqReturn
  PROVE  Stack'
  <1>1. /\ frames \in Seq(Frame) /\ frames # <<>> /\ ~clobbered /\ ~clobbered'
        /\ Top.at = "eoi" /\ iflag' /\ km_esp' = km_esp
        /\ isr' = pic_send_eoi(Top.irq) /\ frames' = SubSeq(frames, 1, Depth - 1)
    BY DEF IrqReturn, TypeOK, At, editor
  <1>2. /\ frames' \in Seq(Frame) /\ Depth \in Nat \ {0} /\ Depth' = Depth - 1
        /\ \A d \in 1 .. Depth - 1 : frames'[d] = frames[d]
    BY <1>1, PopFrames
  <1>3. Top \in Frame /\ Top.irq \in Line /\ Depth <= 2
    BY <1>1, TopFrame DEF Stack, HandlersUninterrupted
  <1>4. CASE Depth = 1
    <2>1. frames' = <<>> /\ Depth' = 0
      BY <1>2, <1>4, EmptySeq DEF Depth
    <2>2. isr = InService(Top.irq)
      BY <1>4 DEF Stack, EoiMatches, Top
    <2>3. isr' = {}
      BY <1>1, <1>3, <2>2, EoiOfOnly
    <2> QED
      BY <1>1, <2>1, <2>3
      DEF Stack, HandlersUninterrupted, EoiMatches, NestingInv, ReturnInv, Commands
  <1>5. CASE Depth = 2
    <2>1. frames[1] = [irq |-> KEYBOARD, at |-> "ring3"] /\ Top.irq = TIMER
      BY <1>5 DEF Stack, NestingInv, Top
    <2>2. isr = {KEYBOARD, TIMER}
      BY <1>5, <2>1 DEF Stack, EoiMatches, InService, Top
    <2>3. isr' = {KEYBOARD}
      BY <1>1, <2>1, <2>2, EoiOfNested
    <2>4. /\ Depth' = 1 /\ frames'[1] = [irq |-> KEYBOARD, at |-> "ring3"]
          /\ Top' = [irq |-> KEYBOARD, at |-> "ring3"] /\ frames' # <<>>
      <3>1. Depth' = 1 /\ frames'[1] = [irq |-> KEYBOARD, at |-> "ring3"]
        BY <1>2, <1>5, <2>1
      <3>2. frames' # <<>>
        BY <3>1, EmptySeq DEF Depth
      <3> QED
        BY <3>1, <3>2 DEF Top
    <2>5. HandlersUninterrupted'
      BY <1>1, <2>4 DEF HandlersUninterrupted
    <2>6. EoiMatches'
      BY <2>3, <2>4 DEF EoiMatches, InService
    <2>7. NestingInv'
      BY <2>4 DEF NestingInv, Commands
    <2>8. km_esp = 1
      BY <1>1, <1>5, <2>1 DEF Stack, ReturnInv
    <2>9. ReturnInv'
      BY <1>1, <2>4, <2>8 DEF ReturnInv
    <2> QED
      BY <2>5, <2>6, <2>7, <2>9 DEF Stack
  <1> QED
    BY <1>2, <1>3, <1>4, <1>5

\* Whoever is in ring 3 has the return point of the innermost interrupt, so that
\* its last system call goes back to the command that began it.
LEMMA ExitIsGoto ==
  ASSUME TypeOK, Stack, SysExit
  PROVE  /\ At("ring3") /\ Goto("tail") /\ clobbered' = (Depth > 1)
         /\ Top.irq \in {TIMER, KEYBOARD} /\ Depth \in {1, 2}
  <1>1. /\ frames \in Seq(Frame) /\ frames # <<>> /\ ~clobbered /\ At("ring3")
        /\ Top.at = "ring3" /\ return_to_kernel /\ clobbered' = (Depth > 1)
    BY DEF SysExit, At, TypeOK, PushRegisters
  <1>2. Depth \in Nat \ {0} /\ Depth <= 2
    BY <1>1, TopFrame DEF Stack, HandlersUninterrupted
  <1>3. km_esp = Depth /\ Top.irq \in {TIMER, KEYBOARD}
    BY <1>1, <1>2 DEF Stack, ReturnInv, NestingInv, Commands, Top
  <1>4. SubSeq(frames, 1, Depth) = frames
    BY <1>1 DEF Depth
  <1>5. Goto("tail")
    BY <1>1, <1>3, <1>4 DEF return_to_kernel, Goto
  <1> QED
    BY <1>1, <1>2, <1>3, <1>5

LEMMA StackExit ==
  ASSUME TypeOK, Stack, SysExit
  PROVE  Stack'
  <1>1. /\ At("ring3") /\ Goto("tail") /\ clobbered' = (Depth > 1)
        /\ Top.irq \in {TIMER, KEYBOARD} /\ Depth \in {1, 2}
    BY ExitIsGoto
  <1>2. ~iflag' /\ UNCHANGED <<isr, km_esp>>
    BY DEF SysExit, editor
  <1>3. CASE Depth = 1
    <2>1. ~clobbered'
      <3>1. ~(Depth > 1)
        BY <1>3
      <3> QED
        BY <1>1, <3>1, Zenon
    <2> QED
      BY <1>1, <1>2, <1>3, <2>1, StackGoto
  <1>4. CASE Depth = 2
    <2>1. frames \in Seq(Frame) /\ frames # <<>> /\ clobbered'
      <3>1. Depth > 1
        BY <1>4
      <3>2. clobbered'
        BY <1>1, <3>1, Zenon
      <3> QED
        BY <1>1, <3>2 DEF At, TypeOK
    <2>2. /\ Depth' = 2 /\ frames' \in Seq(Frame)
          /\ \A d \in 1 .. 2 :
               frames'[d] = IF d = 2 THEN [irq |-> Top.irq, at |-> "tail"] ELSE frames[d]
      BY <1>4, <1>1, <2>1, GotoFrames
    <2>3. frames[1] = [irq |-> KEYBOARD, at |-> "ring3"] /\ Top.irq = TIMER
      BY <1>4 DEF Stack, NestingInv, Top
    <2>4. frames'[1] = frames[1] /\ frames'[2] = [irq |-> TIMER, at |-> "tail"]
      BY <2>2, <2>3
    <2>5. frames' # <<>>
      <3>1. Depth' = 2
        BY <2>2
      <3> QED
        BY <3>1, EmptySeq DEF Depth
    <2>6. HandlersUninterrupted'
      BY <2>1, <2>2, <2>3, <2>4 DEF HandlersUninterrupted
    <2>7. EoiMatches'
      <3>1. \A d \in 1 .. Depth : frames'[d].irq = frames[d].irq
        BY <1>4, <2>3, <2>4 DEF Top
      <3> QED
        BY <1>2, <1>4, <2>2, <3>1, SameService DEF Stack
    <2>8. NestingInv' /\ ReturnInv'
      BY <2>1, <2>2, <2>3, <2>4, <2>5 DEF NestingInv, ReturnInv, Commands
    <2> QED
      BY <2>6, <2>7, <2>8 DEF Stack
  <1> QED
    BY <1>1, <1>3, <1>4

\* SYS_WRITE changes nothing but what it overwrites.
LEMMA StackWrite ==
  ASSUME TypeOK, Stack, SysWrite
  PROVE  Stack'
  <1>1. /\ UNCHANGED <<frames, isr, iflag, km_esp>> /\ ~clobbered /\ frames # <<>>
    BY DEF SysWrite, At, pics, editor
  <1>2. HandlersUninterrupted' /\ EoiMatches' /\ NestingInv'
    BY <1>1 DEF Stack, HandlersUninterrupted, EoiMatches, NestingInv, Commands, Top,
                Depth, InService
  <1>3. ReturnInv'
    BY <1>1 DEF Stack, ReturnInv, Top, Depth
  <1> QED
    BY <1>2, <1>3 DEF Stack

\* A character that edits the line, or begins a command that is done at once or
\* leaves for ring 3.
LEMMA StackChar ==
  ASSUME TypeOK, Stack, At("routine"), Top.irq \in {TIMER, KEYBOARD},
         NEW c, NEW p \in {"routine", "eoi"}, shell_handle_char(c, p),
         UNCHANGED clobbered
  PROVE  Stack'
  <1>1. ~iflag /\ ~clobbered
    BY DEF At, Stack, HandlersUninterrupted
  <1>2. CASE Edit(c, p)
    <2>1. Goto(p) /\ UNCHANGED <<isr, km_esp, iflag>>
      BY <1>2 DEF Edit, pics
    <2> QED
      BY <1>1, <2>1, StackGoto
  <1>3. CASE Execute(c) /\ enter_usermode
    BY <1>3, StackLeave DEF Execute
  <1>4. CASE Execute(c) /\ ~enter_usermode
    <2>1. Goto("tail") /\ UNCHANGED <<isr, km_esp, iflag>>
      BY <1>4 DEF Execute
    <2> QED
      BY <1>1, <2>1, StackGoto
  <1> QED
    BY <1>2, <1>3, <1>4 DEF shell_handle_char

LEMMA StackInv ==
  ASSUME TypeOK, Stack, BootInv, [Next]_vars
  PROVE  Stack'
  <1>1. ASSUME NEW i \in Devices, DriverInit(i)
        PROVE  Stack'
    BY <1>1, StackSame DEF DriverInit, editor
  <1>2. CASE Sti
    <2>1. frames = <<>> /\ frames' = <<>> /\ UNCHANGED <<isr, km_esp, clobbered>>
      BY <1>2 DEF Sti, BootInv, editor
    <2> QED
      BY <2>1 DEF Stack, HandlersUninterrupted, EoiMatches, NestingInv, ReturnInv,
                  Commands, Top, Depth, InService
  <1>3. CASE shell_init
    BY <1>3, StackSame DEF shell_init, pics
  <1>4. CASE Environment
    <2>1. UNCHANGED <<frames, isr, iflag, km_esp, clobbered>>
      BY <1>4 DEF Environment, KeyPress, SerialArrive, DeviceIrq, Raise, pics, editor
    <2> QED
      BY <2>1, StackSame
  <1>5. ASSUME NEW i \in Line, irq_handler(i)
        PROVE  Stack'
    BY <1>5, StackEnter
  <1>6. CASE keyboard_callback
    BY <1>6, StackChar DEF keyboard_callback
  <1>7. CASE TimerChar
    BY <1>7, StackChar DEF TimerChar
  <1>8. ASSUME TimerDone \/ OtherRoutine
        PROVE  Stack'
    <2>1. At("routine") /\ Goto("eoi") /\ UNCHANGED <<isr, km_esp, iflag, clobbered>>
      BY <1>8 DEF TimerDone, OtherRoutine, pics, editor
    <2>2. ~iflag /\ ~clobbered
      BY <2>1 DEF At, Stack, HandlersUninterrupted
    <2> QED
      BY <2>1, <2>2, StackGoto
  <1>9. CASE HandleCharEnd
    <2>1. /\ At("tail") /\ UNCHANGED <<isr, km_esp, iflag, clobbered>>
          /\ Goto(After(Top.irq)) /\ After(Top.irq) \in {"routine", "eoi"}
      BY <1>9 DEF HandleCharEnd, pics, After
    <2>2. ~iflag /\ ~clobbered
      BY <2>1 DEF At, Stack, HandlersUninterrupted
    <2> QED
      BY <2>1, <2>2, StackGoto
  <1>10. CASE IrqReturn
    BY <1>10, StackReturn
  <1>11. CASE SysWrite
    BY <1>11, StackWrite
  <1>12. CASE SysExit
    BY <1>12, StackExit
  <1>13. ASSUME Undefined \/ UNCHANGED vars
         PROVE  Stack'
    BY <1>13, StackSame DEF Undefined, vars, pics, editor
  <1> QED
    BY <1>1, <1>2, <1>3, <1>4, <1>5, <1>6, <1>7, <1>8, <1>9, <1>10, <1>11, <1>12,
       <1>13 DEF Next

-----------------------------------------------------------------------------
(* Types                                                                    *)

\* What a character does to the editor's own state.
LEMMA EditorType ==
  ASSUME TypeOK, NEW c, NEW p, shell_handle_char(c, p), Depth \in Nat
  PROVE  /\ cmd_buffer' \in Text /\ cmd_buffer'[CMD_BUFFER_SIZE - 1] = NUL
         /\ cmd_len' \in Index /\ km_esp' \in Nat
         /\ typed' \in Seq(Char) /\ line' \in Seq(Char) /\ mixed' \in BOOLEAN
  <1>1. CMD_BUFFER_SIZE \in Nat \ {0} /\ CMD_BUFFER_SIZE - 1 \in Index /\ 0 \in Index
    BY ShellConstants DEF Index
  <1>2. /\ cmd_buffer \in Text /\ cmd_buffer[CMD_BUFFER_SIZE - 1] = NUL
        /\ cmd_len \in Index /\ typed \in Seq(Char)
    BY DEF TypeOK, Text
  <1>3. CASE Edit(c, p)
    <2>1. /\ km_esp' \in Nat /\ line' \in Seq(Char) /\ mixed' \in BOOLEAN
      BY <1>3 DEF Edit, TypeOK
    <2>2. CASE Put(c)
      <3>1. /\ cmd_buffer' \in Text /\ cmd_buffer'[CMD_BUFFER_SIZE - 1] = NUL
            /\ cmd_len' \in Index
        BY <1>1, <1>2, <2>2 DEF Put, Room, Text, Index
      <3>2. typed' \in Seq(Char)
        BY <1>2, <2>2 DEF Put
      <3> QED
        BY <2>1, <3>1, <3>2
    <2>3. CASE Erase(c)
      <3>1. cmd_buffer' = cmd_buffer /\ cmd_len' \in Index
        BY <1>1, <1>2, <2>3 DEF Erase, Index
      <3>2. typed' \in Seq(Char)
        <4>1. CASE typed = <<>>
          BY <1>2, <2>3, <4>1 DEF Erase
        <4>2. CASE typed # <<>>
          <5>1. Len(typed) - 1 \in 0 .. Len(typed)
            BY <1>2, <4>2, EmptySeq
          <5> QED
            BY <1>2, <2>3, <4>2, <5>1, Prefix DEF Erase
        <4> QED
          BY <4>1, <4>2
      <3> QED
        BY <1>2, <2>1, <3>1, <3>2
    <2> QED
      BY <1>3, <2>2, <2>3 DEF Edit
  <1>4. CASE Execute(c)
    <2>1. Terminated \in Text /\ Terminated[CMD_BUFFER_SIZE - 1] = NUL
      BY <1>1, <1>2 DEF Terminated, Text
    <2>2. CString(Terminated) \in Seq(Char)
      <3> HIDE DEF Terminated
      <3> QED
        BY <1>1, <2>1, CStringType
    <2>3. \A b \in Text : b[CMD_BUFFER_SIZE - 1] = NUL
             => split_command(b) \in Text /\ split_command(b)[CMD_BUFFER_SIZE - 1] = NUL
      <3> SUFFICES ASSUME NEW b \in Text, b[CMD_BUFFER_SIZE - 1] = NUL,
                          NEW n
                   PROVE  /\ [b EXCEPT ![n] = NUL] \in Text
                          /\ [b EXCEPT ![n] = NUL][CMD_BUFFER_SIZE - 1] = NUL
        BY DEF split_command
      <3> QED
        BY <1>1 DEF Text
    <2>4. cmd_buffer' \in Text /\ cmd_buffer'[CMD_BUFFER_SIZE - 1] = NUL
      <3> HIDE DEF Terminated
      <3> QED
        BY <1>4, <2>1, <2>3 DEF Execute
    <2>5. km_esp' \in Nat
      BY <1>4 DEF Execute, enter_usermode, TypeOK
    <2>6. mixed' \in BOOLEAN
      BY <1>4 DEF Execute, TypeOK
    <2> QED
      BY <1>2, <1>4, <2>2, <2>4, <2>5, <2>6 DEF Execute
  <1> QED
    BY <1>3, <1>4 DEF shell_handle_char

\* The controllers' registers hold lines, whatever happens.
PicsType ==
  /\ irr \subseteq Line /\ isr \subseteq Line /\ imr \subseteq Line
  /\ iflag \in BOOLEAN /\ irq_routines \subseteq Devices

LEMMA PicsTypeInv ==
  ASSUME TypeOK, [Next]_vars
  PROVE  PicsType'
  <1>1. PicsType
    BY DEF TypeOK, PicsType
  <1>2. Devices \subseteq Line
    BY ShellConstants
  <1>3. ASSUME NEW i \in Devices, DriverInit(i)
        PROVE  PicsType'
    BY <1>1, <1>3 DEF DriverInit, PicsType, irq_install_handler, pic_unmask_irqs
  <1>4. CASE Sti
    BY <1>1, <1>4 DEF Sti, PicsType
  <1>5. CASE Environment
    <2>1. ASSUME NEW i \in Line, Raise(i)
          PROVE  PicsType'
      BY <1>1, <2>1 DEF Raise, PicsType
    <2>2. CASE UNCHANGED pics
      BY <1>1, <2>2 DEF pics, PicsType
    <2> QED
      BY <1>2, <1>5, <2>1, <2>2 DEF Environment, KeyPress, SerialArrive, DeviceIrq
  <1>6. ASSUME NEW i \in Line, irq_handler(i)
        PROVE  PicsType'
    <2>1. InService(i) \subseteq Line
      BY DEF InService
    <2> QED
      BY <1>1, <1>6, <2>1 DEF irq_handler, Take, PicsType
  <1>7. ASSUME NEW c, NEW p, shell_handle_char(c, p)
        PROVE  PicsType'
    BY <1>1, <1>7 DEF shell_handle_char, Edit, Execute, enter_usermode, pics, PicsType
  <1>8. CASE keyboard_callback \/ TimerChar
    BY <1>7, <1>8 DEF keyboard_callback, TimerChar
  <1>9. CASE IrqReturn
    BY <1>1, <1>9 DEF IrqReturn, pic_send_eoi, PicsType
  <1>10. CASE SysExit
    BY <1>1, <1>10 DEF SysExit, PicsType
  <1>11. ASSUME UNCHANGED pics
         PROVE  PicsType'
    BY <1>1, <1>11 DEF pics, PicsType
  <1>12. CASE shell_init \/ TimerDone \/ OtherRoutine \/ HandleCharEnd \/ SysWrite
                \/ Undefined \/ UNCHANGED vars
    BY <1>11, <1>12 DEF shell_init, TimerDone, OtherRoutine, HandleCharEnd, SysWrite,
                       Undefined, vars
  <1> QED
    BY <1>3, <1>4, <1>5, <1>6, <1>8, <1>9, <1>10, <1>12 DEF Next

LEMMA TypeInv ==
  ASSUME IInv, [Next]_vars
  PROVE  TypeOK'
  <1> DEFINE EditorOK ==
               /\ cmd_buffer \in Text /\ cmd_buffer[CMD_BUFFER_SIZE - 1] = NUL
               /\ cmd_len \in Index /\ km_esp \in Nat
               /\ typed \in Seq(Char) /\ line \in Seq(Char) /\ mixed \in BOOLEAN
             Flags == booted \in BOOLEAN /\ prompted \in BOOLEAN /\ clobbered \in BOOLEAN
             Inputs == key \in Input \cup {NONE} /\ serial \in Input \cup {NONE}
             FramesType == frames \in Seq(Frame)
  <1>1. TypeOK /\ Stack /\ frames \in Seq(Frame)
    BY DEF IInv, Stack, TypeOK
  <1>2. EditorOK /\ Flags /\ Inputs
    BY <1>1 DEF TypeOK, Text
  <1>3. PicsType'
    BY <1>1, PicsTypeInv
  <1>4. SUFFICES EditorOK' /\ Flags' /\ Inputs' /\ FramesType'
    BY <1>3 DEF TypeOK, PicsType, Text
  <1> HIDE DEF EditorOK
  <1>5. UNCHANGED editor => EditorOK'
    BY <1>2 DEF editor, EditorOK
  <1>6. ASSUME frames # <<>>, NEW p \in {"routine", "ring3", "tail", "eoi"}, Goto(p)
        PROVE  FramesType'
    BY <1>1, <1>6, GotoFrames
  <1>7. ASSUME NEW c, NEW p \in {"routine", "eoi"}, At("routine"),
               shell_handle_char(c, p)
        PROVE  EditorOK' /\ FramesType'
    <2>1. EditorOK'
      <3>1. Depth \in Nat
        BY <1>1 DEF Depth
      <3> QED
        BY <1>1, <1>7, <3>1, EditorType DEF EditorOK
    <2>2. \E q \in {"routine", "ring3", "tail", "eoi"} : Goto(q)
      BY <1>7 DEF shell_handle_char, Edit, Execute, enter_usermode
    <2> QED
      BY <1>6, <1>7, <2>1, <2>2 DEF At
  <1>8. ASSUME UNCHANGED <<booted, prompted, key, serial, editor>>,
               clobbered' \in BOOLEAN, FramesType'
        PROVE  EditorOK' /\ Flags' /\ Inputs' /\ FramesType'
    BY <1>2, <1>5, <1>8
  <1>9. ASSUME NEW i \in Devices, DriverInit(i)
        PROVE  EditorOK' /\ Flags' /\ Inputs' /\ FramesType'
    BY <1>1, <1>2, <1>8, <1>9 DEF DriverInit
  <1>10. CASE Sti
    BY <1>1, <1>2, <1>5, <1>10 DEF Sti
  <1>11. CASE shell_init
    <2>1. EditorOK'
      BY <1>2, <1>11, ShellConstants DEF shell_init, EditorOK, Index
    <2> QED
      BY <1>1, <1>2, <1>11, <2>1 DEF shell_init
  <1>12. CASE Environment
    BY <1>1, <1>2, <1>5, <1>12 DEF Environment, KeyPress, SerialArrive, DeviceIrq
  <1>13. ASSUME NEW i \in Line, irq_handler(i)
         PROVE  EditorOK' /\ Flags' /\ Inputs' /\ FramesType'
    <2>1. [irq |-> i, at |-> IF i \in irq_routines THEN "routine" ELSE "eoi"] \in Frame
      BY DEF Frame
    <2>2. FramesType'
      BY <1>1, <1>13, <2>1, PushFrames DEF irq_handler
    <2> QED
      BY <1>2, <1>8, <1>13, <2>2 DEF irq_handler
  <1>14. CASE keyboard_callback
    BY <1>2, <1>7, <1>14 DEF keyboard_callback
  <1>15. CASE TimerChar
    BY <1>2, <1>7, <1>15 DEF TimerChar
  <1>16. ASSUME TimerDone \/ OtherRoutine
         PROVE  EditorOK' /\ Flags' /\ Inputs' /\ FramesType'
    BY <1>2, <1>6, <1>8, <1>16 DEF TimerDone, OtherRoutine, At
  <1>17. CASE HandleCharEnd
    <2>1. EditorOK'
      BY <1>2, <1>17, ShellConstants DEF HandleCharEnd, LenAfter, EditorOK, Index
    <2> QED
      BY <1>2, <1>6, <1>17, <2>1 DEF HandleCharEnd, At, After
  <1>18. CASE IrqReturn
    <2>1. FramesType'
      BY <1>1, <1>18, PopFrames DEF IrqReturn, At
    <2> QED
      BY <1>2, <1>8, <1>18, <2>1 DEF IrqReturn
  <1>19. CASE SysWrite
    BY <1>1, <1>8, <1>19 DEF SysWrite, PushRegisters
  <1>20. CASE SysExit
    <2>1. FramesType'
      BY <1>1, <1>6, <1>20, ExitIsGoto DEF At
    <2> QED
      BY <1>8, <1>20, <2>1 DEF SysExit, PushRegisters
  <1>21. ASSUME Undefined \/ UNCHANGED vars
         PROVE  EditorOK' /\ Flags' /\ Inputs' /\ FramesType'
    BY <1>1, <1>2, <1>8, <1>21 DEF Undefined, vars
  <1> QED
    BY <1>9, <1>10, <1>11, <1>12, <1>13, <1>14, <1>15, <1>16, <1>17, <1>18, <1>19,
       <1>20, <1>21 DEF Next

-----------------------------------------------------------------------------
(* Boot                                                                     *)

LEMMA BootKept ==
  ASSUME IInv, [Next]_vars
  PROVE  BootInv'
  <1>1. BootInv /\ TypeOK /\ Stack
    BY DEF IInv, Stack
  <1>2. ASSUME UNCHANGED <<imr, irq_routines, booted>>, booted
        PROVE  BootInv'
    BY <1>1, <1>2 DEF BootInv, Unmasked
  <1>3. ASSUME UNCHANGED <<imr, irq_routines, booted, iflag, frames>>
        PROVE  BootInv'
    BY <1>1, <1>3 DEF BootInv, Unmasked
  <1>4. ASSUME NEW i \in Devices, DriverInit(i)
        PROVE  BootInv'
    <2>1. /\ irq_routines' = irq_routines \cup {i} /\ imr' = imr \ Unmasked(i)
          /\ ~booted' /\ ~iflag' /\ frames' = <<>>
      BY <1>1, <1>4 DEF DriverInit, irq_install_handler, pic_unmask_irqs, BootInv
    <2>2. \A j \in irq_routines' : Unmasked(j) \cap imr' = {}
      <3> HIDE DEF TIMER, MOUSE, CASCADE
      <3> QED
        BY <1>1, <2>1 DEF BootInv
    <2>3. TIMER \notin imr'
      BY <1>1, <2>1 DEF BootInv
    <2>4. ASSUME NEW j PROVE Unmasked(j)' = Unmasked(j)
      BY DEF Unmasked
    <2> QED
      BY <2>1, <2>2, <2>3, <2>4 DEF BootInv
  <1>5. CASE Sti
    BY <1>1, <1>5 DEF Sti, BootInv, Unmasked
  <1>6. CASE Environment
    BY <1>3, <1>6 DEF Environment, KeyPress, SerialArrive, DeviceIrq, Raise, pics
  <1>7. ASSUME NEW i \in Line, irq_handler(i)
        PROVE  BootInv'
    <2>1. booted /\ UNCHANGED <<imr, irq_routines, booted>>
      BY <1>1, <1>7 DEF irq_handler, Take, Deliverable, BootInv
    <2> QED
      BY <1>2, <2>1
  <1>8. ASSUME frames # <<>>
        PROVE  booted
    BY <1>1, <1>8 DEF BootInv
  <1>9. ASSUME NEW c, NEW p, shell_handle_char(c, p)
        PROVE  UNCHANGED <<imr, irq_routines>>
    BY <1>9 DEF shell_handle_char, Edit, Execute, pics
  <1>10. CASE keyboard_callback \/ TimerChar
    BY <1>2, <1>8, <1>9, <1>10 DEF keyboard_callback, TimerChar, At
  <1>11. CASE TimerDone \/ OtherRoutine \/ HandleCharEnd \/ IrqReturn \/ SysWrite
                \/ SysExit
    BY <1>2, <1>8, <1>11 DEF TimerDone, OtherRoutine, HandleCharEnd, IrqReturn, SysWrite,
                            SysExit, At, pics
  <1>12. CASE shell_init \/ Undefined \/ UNCHANGED vars
    BY <1>3, <1>12 DEF shell_init, Undefined, vars, pics
  <1> QED
    BY <1>4, <1>5, <1>6, <1>7, <1>10, <1>11, <1>12 DEF Next

LEMMA Reachable ==
  ASSUME TypeOK, BootInv
  PROVE  HandlersReachable
  <1> SUFFICES ASSUME booted, NEW i \in irq_routines
               PROVE  InService(i) \cap imr = {}
    BY DEF HandlersReachable
  <1>1. /\ i \in Devices /\ Devices \subseteq Line \ {CASCADE} /\ TIMER \notin imr
        /\ \A j \in Devices : Unmasked(j) \cap imr = {}
    BY ShellConstants DEF TypeOK, BootInv
  <1>2. i \notin imr
    BY <1>1 DEF Unmasked
  <1>3. i \in Slave => CASCADE \notin imr
    <2> SUFFICES ASSUME i \in Slave
                 PROVE  CASCADE \notin imr
      OBVIOUS
    <2>1. MOUSE \in Devices
      BY <1>1, ShellConstants
    <2>2. Unmasked(MOUSE) = {MOUSE, CASCADE}
      BY DEF Unmasked
    <2> QED
      BY <1>1, <2>1, <2>2
  <1> QED
    BY <1>2, <1>3 DEF InService

-----------------------------------------------------------------------------
(* The line                                                                 *)

LEMMA LineSame ==
  ASSUME LineInv, LineAsTyped, Commands' = Commands,
         UNCHANGED <<cmd_buffer, cmd_len, typed, line, mixed>>
  PROVE  LineInv' /\ LineAsTyped'
  <1>1. LineAsTyped <=> (~mixed => \A d \in Commands : line = typed)
    BY DEF LineAsTyped, Commands
  <1>2. LineAsTyped' <=> (~mixed' => \A d \in Commands' : line' = typed')
    BY DEF LineAsTyped, Commands
  <1> QED
    BY <1>1, <1>2 DEF LineInv

\* A step of the kernel that neither begins a command nor ends one.
LEMMA SameCommands ==
  ASSUME TypeOK, NEW q \in {"routine", "ring3", "tail", "eoi"}, At(q),
         NEW p \in {"routine", "ring3", "tail", "eoi"}, Goto(p),
         q \in {"ring3", "tail"} <=> p \in {"ring3", "tail"}
  PROVE  Commands' = Commands
  <1>1. frames \in Seq(Frame) /\ frames # <<>> /\ frames[Depth].at = q
    BY DEF At, TypeOK, Top
  <1>2. /\ Depth' = Depth /\ Depth \in Nat \ {0}
        /\ \A d \in 1 .. Depth :
             frames'[d] = IF d = Depth THEN [irq |-> Top.irq, at |-> p] ELSE frames[d]
    BY <1>1, GotoFrames
  <1>3. \A d \in 1 .. Depth : frames'[d].at \in {"ring3", "tail"}
                                <=> frames[d].at \in {"ring3", "tail"}
    BY <1>1, <1>2
  <1> QED
    BY <1>2, <1>3 DEF Commands

\* Editing: while no command is in progress the buffer is what has been typed.
LEMMA LineEdit ==
  ASSUME TypeOK, LineInv, NEW c, Put(c) \/ Erase(c)
  PROVE  /\ Len(typed') = cmd_len'
         /\ Commands = {} => \A k \in 1 .. cmd_len' : cmd_buffer'[k - 1] = typed'[k]
  <1>1. /\ CMD_BUFFER_SIZE \in Nat \ {0} /\ cmd_buffer \in Text /\ cmd_len \in Index
        /\ typed \in Seq(Char) /\ Len(typed) = cmd_len
    BY ShellConstants DEF TypeOK, LineInv, Text
  <1>2. CASE Put(c) /\ Room
    <2>1. /\ typed' = Append(typed, c) /\ cmd_len' = cmd_len + 1 /\ c \in Char
          /\ cmd_buffer' = [cmd_buffer EXCEPT ![cmd_len] = c]
      BY <1>1, <1>2 DEF Put, Room, Index
    <2>2. /\ Len(typed') = cmd_len + 1 /\ typed'[cmd_len + 1] = c
          /\ \A k \in 1 .. cmd_len : typed'[k] = typed[k]
      BY <1>1, <2>1, AppendProperties
    <2>3. ASSUME Commands = {}, NEW k \in 1 .. cmd_len + 1
          PROVE  cmd_buffer'[k - 1] = typed'[k]
      <3>1. k - 1 \in Index /\ k \in Int
        BY <1>1, <1>2 DEF Room, Index
      <3>2. CASE k = cmd_len + 1
        <4>1. k - 1 = cmd_len
          BY <1>1, <3>2 DEF Index
        <4> QED
          BY <1>1, <2>1, <2>2, <3>2, <4>1 DEF Text
      <3>3. CASE k # cmd_len + 1
        <4>1. k \in 1 .. cmd_len /\ k - 1 # cmd_len
          BY <1>1, <3>1, <3>3 DEF Index
        <4> QED
          BY <1>1, <2>1, <2>2, <2>3, <3>1, <4>1 DEF Text, LineInv
      <3> QED
        BY <3>2, <3>3
    <2> QED
      BY <2>1, <2>2, <2>3
  <1>3. CASE Put(c) /\ ~Room
    <2>1. UNCHANGED <<cmd_buffer, cmd_len, typed>>
      BY <1>1, <1>3 DEF Put, Room, Index
    <2> QED
      BY <2>1 DEF LineInv
  <1>4. CASE Erase(c) /\ typed = <<>>
    <2>1. cmd_len = 0
      BY <1>1, <1>4, EmptySeq
    <2>2. UNCHANGED <<cmd_buffer, cmd_len, typed>>
      BY <1>4, <2>1 DEF Erase
    <2> QED
      BY <2>2 DEF LineInv
  <1>5. CASE Erase(c) /\ typed # <<>>
    <2>1. cmd_len > 0 /\ cmd_len - 1 \in 0 .. Len(typed)
      BY <1>1, <1>5, EmptySeq DEF Index
    <2>2. /\ typed' = SubSeq(typed, 1, cmd_len - 1) /\ cmd_len' = cmd_len - 1
          /\ cmd_buffer' = cmd_buffer
      BY <1>1, <1>5, <2>1 DEF Erase
    <2>3. /\ Len(typed') = cmd_len - 1
          /\ \A k \in 1 .. cmd_len - 1 : typed'[k] = typed[k]
      BY <1>1, <2>1, <2>2, Prefix
    <2>4. 1 .. cmd_len - 1 \subseteq 1 .. cmd_len
      BY <1>1 DEF Index
    <2> QED
      BY <2>2, <2>3, <2>4 DEF LineInv
  <1> QED
    BY <1>2, <1>3, <1>4, <1>5

\* A character, in the only command in progress or in one that a usertest has
\* been interrupted by.
LEMMA LineChar ==
  ASSUME IInv, At("routine"), NEW c, NEW p \in {"routine", "eoi"},
         shell_handle_char(c, p)
  PROVE  LineInv' /\ LineAsTyped'
  <1>1. /\ TypeOK /\ Stack /\ LineInv /\ frames \in Seq(Frame) /\ frames # <<>>
        /\ Top.at = "routine"
    BY DEF IInv, Stack, TypeOK, At
  <1>2. Depth \in {1, 2}
    BY <1>1, TopFrame DEF Stack, HandlersUninterrupted
  <1>3. CASE Depth = 2
    <2>1. frames[1].at = "ring3"
      BY <1>1, <1>3 DEF Stack, NestingInv
    <2>2. PICK q \in {"routine", "ring3", "tail", "eoi"} : Goto(q)
      BY DEF shell_handle_char, Edit, Execute, enter_usermode
    <2>3. Depth' = 2 /\ frames'[1] = frames[1]
      BY <1>1, <1>3, <2>2, GotoFrames
    <2>4. 1 \in Commands'
      BY <2>1, <2>3 DEF Commands
    <2>5. mixed'
      <3>1. Depth > 1 /\ mixed' = (mixed \/ Depth > 1)
        BY <1>3 DEF shell_handle_char, Edit, Execute
      <3> QED
        BY <3>1, Zenon
    <2>6. Len(typed') = cmd_len'
      BY <1>1, LineEdit DEF shell_handle_char, Edit, Execute, LineInv
    <2> QED
      BY <2>4, <2>5, <2>6 DEF LineInv, LineAsTyped
  <1>4. CASE Depth = 1
    <2>1. Commands = {}
      BY <1>1, <1>4 DEF Commands, Top
    <2>2. CASE Edit(c, p)
      <3>1. Commands' = {}
        BY <1>1, <2>1, <2>2, SameCommands DEF Edit
      <3>2. LineInv'
        BY <1>1, <2>1, <2>2, LineEdit DEF Edit, LineInv
      <3> QED
        BY <3>1, <3>2 DEF LineAsTyped, Commands
    <2>3. CASE Execute(c)
      <3>1. PICK q \in {"ring3", "tail"} : Goto(q)
        BY <2>3 DEF Execute, enter_usermode
      <3>2. Depth' = 1 /\ frames'[1].at = q
        BY <1>1, <1>4, <3>1, GotoFrames
      <3>3. 1 \in Commands'
        BY <3>1, <3>2 DEF Commands
      <3>4. UNCHANGED <<cmd_len, typed>> /\ line' = CString(Terminated)
        BY <2>3 DEF Execute
      <3>5. CString(Terminated) = typed
        <4>1. /\ cmd_buffer \in Text /\ cmd_len \in Index /\ typed \in Seq(Char)
              /\ Len(typed) = cmd_len /\ \A k \in 1 .. cmd_len : cmd_buffer[k - 1] = typed[k]
          BY <1>1, <2>1 DEF TypeOK, LineInv, Text
        <4>2. Terminated \in Text /\ Terminated[cmd_len] = NUL
          BY <4>1 DEF Terminated, Text
        <4>3. ASSUME NEW k \in 1 .. cmd_len
              PROVE  Terminated[k - 1] = typed[k]
          <5>1. k - 1 \in Index /\ k - 1 # cmd_len
            BY <4>1, ShellConstants DEF Index
          <5> QED
            BY <4>1, <5>1 DEF Terminated, Text
        <4> HIDE DEF Terminated
        <4> QED
          BY <4>1, <4>2, <4>3, CStringOf
      <3> QED
        BY <1>1, <3>3, <3>4, <3>5 DEF LineInv, LineAsTyped
    <2> QED
      BY <2>2, <2>3 DEF shell_handle_char
  <1> QED
    BY <1>2, <1>3, <1>4

LEMMA LineKept ==
  ASSUME IInv, [Next]_vars
  PROVE  LineInv' /\ LineAsTyped'
  <1>1. TypeOK /\ Stack /\ BootInv /\ LineInv /\ LineAsTyped /\ frames \in Seq(Frame)
    BY DEF IInv, Stack, TypeOK
  <1>2. ASSUME Commands' = Commands, UNCHANGED editor
        PROVE  LineInv' /\ LineAsTyped'
    BY <1>1, <1>2, LineSame DEF editor
  <1>3. ASSUME UNCHANGED <<frames, editor>>
        PROVE  LineInv' /\ LineAsTyped'
    BY <1>2, <1>3 DEF Commands, Depth
  <1>4. ASSUME NEW i \in Devices, DriverInit(i)
        PROVE  LineInv' /\ LineAsTyped'
    BY <1>3, <1>4 DEF DriverInit
  <1>5. CASE Sti \/ Environment \/ SysWrite \/ Undefined \/ UNCHANGED vars
    BY <1>3, <1>5 DEF Sti, Environment, KeyPress, SerialArrive, DeviceIrq, SysWrite,
                      Undefined, vars
  <1>6. CASE shell_init
    <2>1. cmd_len' = 0 /\ typed' = <<>> /\ frames' = <<>>
      BY <1>6 DEF shell_init
    <2>2. Len(typed') = cmd_len' /\ Depth' = 0
      BY <2>1, EmptySeq DEF Depth
    <2> QED
      BY <2>1, <2>2 DEF LineInv, LineAsTyped
  <1>7. ASSUME NEW i \in Line, irq_handler(i)
        PROVE  LineInv' /\ LineAsTyped'
    <2> DEFINE f == [irq |-> i, at |-> IF i \in irq_routines THEN "routine" ELSE "eoi"]
    <2>1. f \in Frame /\ f.at \notin {"ring3", "tail"}
      BY DEF Frame
    <2>2. frames' = Append(frames, f) /\ UNCHANGED editor
      BY <1>7 DEF irq_handler
    <2> HIDE DEF f
    <2>3. /\ Depth \in Nat /\ Depth' = Depth + 1
          /\ \A d \in 1 .. Depth : frames'[d] = frames[d]
          /\ frames'[Depth + 1] = f
      BY <1>1, <2>1, <2>2, PushFrames
    <2>4. Commands' = Commands
      BY <2>1, <2>3 DEF Commands
    <2> QED
      BY <1>2, <2>2, <2>4
  <1>8. CASE keyboard_callback
    BY <1>8, LineChar DEF keyboard_callback
  <1>9. CASE TimerChar
    BY <1>9, LineChar DEF TimerChar
  <1>10. CASE TimerDone \/ OtherRoutine
    <2>1. At("routine") /\ Goto("eoi") /\ UNCHANGED editor
      BY <1>10 DEF TimerDone, OtherRoutine
    <2> QED
      BY <1>1, <1>2, <2>1, SameCommands
  <1>11. CASE HandleCharEnd
    <2>1. /\ cmd_len' = 0 /\ typed' = <<>> /\ line' = <<>>
      BY <1>11 DEF HandleCharEnd, LenAfter
    <2>2. Len(typed') = cmd_len'
      BY <2>1, EmptySeq
    <2> QED
      BY <2>1, <2>2 DEF LineInv, LineAsTyped
  <1>12. CASE IrqReturn
    <2>1. /\ frames # <<>> /\ frames[Depth].at = "eoi" /\ UNCHANGED editor
          /\ frames' = SubSeq(frames, 1, Depth - 1)
      BY <1>12 DEF IrqReturn, At, Top
    <2>2. /\ Depth \in Nat \ {0} /\ Depth' = Depth - 1
          /\ \A d \in 1 .. Depth - 1 : frames'[d] = frames[d]
      BY <1>1, <2>1, PopFrames
    <2>3. Commands' = Commands
      BY <2>1, <2>2 DEF Commands
    <2> QED
      BY <1>2, <2>1, <2>3
  <1>13. CASE SysExit
    <2>1. At("ring3") /\ Goto("tail") /\ UNCHANGED editor
      BY <1>1, <1>13, ExitIsGoto DEF SysExit
    <2> QED
      BY <1>1, <1>2, <2>1, SameCommands
  <1> QED
    BY <1>4, <1>5, <1>6, <1>7, <1>8, <1>9, <1>10, <1>11, <1>12, <1>13 DEF Next

-----------------------------------------------------------------------------
(* The theorems                                                             *)

LEMMA InitInv == Init => IInv
  <1> SUFFICES ASSUME Init
               PROVE  IInv
    OBVIOUS
  <1>1. /\ irr = {} /\ isr = {} /\ iflag = FALSE /\ irq_routines = {} /\ imr \in Masks
        /\ frames = <<>> /\ Depth = 0 /\ typed = <<>> /\ line = <<>>
        /\ cmd_len = 0 /\ km_esp = 0 
        /\ booted = FALSE /\ prompted = FALSE /\ clobbered = FALSE /\ mixed = FALSE
    BY EmptySeq DEF Init, PicInit, Depth
  <1>2. TypeOK
    <2>1. cmd_buffer \in Text /\ cmd_buffer[CMD_BUFFER_SIZE - 1] = NUL /\ cmd_len \in Index
      BY <1>1, ShellConstants DEF Init, Text, Index
    <2>2. imr \subseteq Line
      BY <1>1, ShellConstants
    <2>3. typed \in Seq(Char) /\ line \in Seq(Char) /\ frames \in Seq(Frame)
      BY <1>1
    <2>4. key = NONE /\ serial = NONE
      BY DEF Init
    <2> QED
      BY <1>1, <2>1, <2>2, <2>3, <2>4 DEF TypeOK, Text
  <1>3. HandlersUninterrupted /\ NestingInv /\ ReturnInv /\ LineAsTyped
    BY <1>1 DEF HandlersUninterrupted, NestingInv, ReturnInv, LineAsTyped, Commands
  <1>4. EoiMatches
    BY <1>1 DEF EoiMatches
  <1>5. BootInv
    BY <1>1, ShellConstants DEF BootInv
  <1>6. LineInv
    BY <1>1, EmptySeq DEF LineInv
  <1> QED
    BY <1>2, <1>3, <1>4, <1>5, <1>6 DEF IInv

LEMMA NextInv == IInv /\ [Next]_vars => IInv'
  <1> SUFFICES ASSUME IInv, [Next]_vars
               PROVE  IInv'
    OBVIOUS
  <1>1. Stack'
    BY StackInv DEF IInv, Stack
  <1> QED
    BY <1>1, TypeInv, BootKept, LineKept DEF IInv, Stack

\* The inductive invariant holds in every state that the program reaches.
THEOREM Invariance == Spec => []IInv
  BY InitInv, NextInv, PTL DEF Spec

\* Registers, stack, buffer and history keep their types, and the line buffer
\* never loses the terminator in its last cell, for every size of buffer.
THEOREM TypeCorrect == Spec => []TypeOK
  <1>1. IInv => TypeOK
    BY DEF IInv
  <1> QED
    BY <1>1, Invariance, PTL

\* Handlers, and the commands that run in them, are interrupted only while the
\* command is in ring 3: gates and stubs keep the interrupt flag off until the
\* innermost interrupt ends or leaves for ring 3, and at most one interrupt nests
\* there, inside the keyboard's.
THEOREM Uninterrupted == Spec => []HandlersUninterrupted
  <1>1. IInv => HandlersUninterrupted
    BY DEF IInv
  <1> QED
    BY <1>1, Invariance, PTL

\* The order in which irq_handler sends its EOIs retires exactly the interrupt
\* that ends, on both controllers, nested or not.
THEOREM EoiRetiresItsOwn == Spec => []EoiMatches
  <1>1. IInv => EoiMatches
    BY DEF IInv
  <1> QED
    BY <1>1, Invariance, PTL

\* Whatever the firmware has left masked, as long as it is not the timer, and in
\* whatever order the drivers are initialised, every installed routine can be
\* reached once kernel_main executes sti.
THEOREM AllReachable == Spec => []HandlersReachable
  <1>1. IInv => HandlersReachable
    BY Reachable DEF IInv
  <1> QED
    BY <1>1, Invariance, PTL

\* What shell_execute gets is what has been typed, corrections included, unless
\* characters came while a command was in progress.
THEOREM ExecutesWhatIsTyped == Spec => []LineAsTyped
  <1>1. IInv => LineAsTyped
    BY DEF IInv
  <1> QED
    BY <1>1, Invariance, PTL
=============================================================================
