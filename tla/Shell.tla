-------------------------------- MODULE Shell --------------------------------
(***************************************************************************)
(* The line editor of shell.c and the command usertest, composed with the  *)
(* interrupts they run in.  Characters come from two interrupts: the       *)
(* keyboard's, and the timer's, which polls the serial line.  A command    *)
(* runs inside the interrupt that brought its Enter.  usertest leaves for  *)
(* ring 3 with interrupts enabled, so that a more urgent interrupt can     *)
(* bring characters to the shell while a command is in progress.           *)
(*                                                                         *)
(* frames is the stack of interrupts in progress, outermost first.  An     *)
(* interrupt or a system call that comes from ring 3 starts at the top of  *)
(* the one stack the TSS names; the interrupt that nests inside ring 3 is  *)
(* therefore overwritten by a system call made before it has returned.     *)
(* What the machine does after that is undefined: its CPU stops here.      *)
(*                                                                         *)
(* A character is a whole word: USERTEST stands for the letters of that    *)
(* command.  kernel.c, timer.c, keyboard.c and usermode.c are external, and*)
(* so is task switching, which module Tasking models.                      *)
(***************************************************************************)
EXTENDS Interrupts, Sequences

CONSTANTS
  CMD_BUFFER_SIZE,
  Char,                    \* characters that are entered in the line
  USERTEST, SPACE,         \* two of them
  ENTER, BACKSPACE, NUL,   \* '\n', '\b', '\0'
  NONE,                    \* no character
  Devices,                 \* lines of the drivers that are initialised
  Masks                    \* what the firmware may leave masked

TIMER == 0
KEYBOARD == 1
MOUSE == 12

ASSUME ShellConstants ==
  /\ CMD_BUFFER_SIZE \in Nat \ {0}
  /\ {USERTEST, SPACE} \subseteq Char /\ USERTEST # SPACE
  /\ Char \cap {ENTER, BACKSPACE, NUL, NONE} = {}
  /\ ENTER # BACKSPACE /\ NONE \notin {ENTER, BACKSPACE}
  /\ {TIMER, KEYBOARD} \subseteq Devices /\ Devices \subseteq Line \ {CASCADE}
  /\ Devices \cap Slave # {} => MOUSE \in Devices
  /\ \A m \in Masks : m \subseteq Line \ {TIMER}

VARIABLES
  booted,       \* kernel_main has executed sti
  prompted,     \* and then called shell_init
  frames,       \* interrupts in progress: the line, and how far it has come
  key,          \* character waiting in the keyboard controller
  serial,       \* character waiting in the UART, which has no FIFO
  cmd_buffer, cmd_len,
  km_esp,       \* the frame that return_to_kernel goes back to
  clobbered,    \* a system call has overwritten a frame that is in progress
  typed,        \* history: the line typed since the last one was done with
  line,         \* history: the line of the command in progress
  mixed         \* history: something was typed while a command was in progress

editor == <<cmd_buffer, cmd_len, km_esp, typed, line, mixed>>
vars == <<pics, booted, prompted, frames, key, serial, editor, clobbered>>

Index == 0 .. (CMD_BUFFER_SIZE - 1)
Input == Char \cup {ENTER, BACKSPACE}

Depth == Len(frames)
Top == frames[Depth]
At(p) == ~clobbered /\ frames # <<>> /\ Top.at = p
Goto(p) == frames' = [frames EXCEPT ![Depth].at = p]

Init ==
  /\ \E m \in Masks : PicInit(m)
  /\ booted = FALSE /\ prompted = FALSE /\ frames = <<>>
  /\ key = NONE /\ serial = NONE
  /\ cmd_buffer = [i \in Index |-> NUL] /\ cmd_len = 0 /\ km_esp = 0
  /\ clobbered = FALSE /\ typed = <<>> /\ line = <<>> /\ mixed = FALSE

-----------------------------------------------------------------------------
(* Boot                                                                     *)

\* Mutant: mouse_init does not unmask the cascade.
Unmasked_NoCascade(i) == IF i = TIMER THEN {} ELSE {i}

\* What each driver unmasks.  timer_init relies on the firmware's mask, and
\* every driver on the slave relies on mouse_init.
Unmasked(i) ==
  CASE i = TIMER -> {}
    [] i = MOUSE -> {MOUSE, CASCADE}
    [] OTHER -> {i}

DriverInit(i) ==
  /\ ~booted /\ i \notin irq_routines
  /\ irq_install_handler(i) /\ pic_unmask_irqs(Unmasked(i))
  /\ UNCHANGED <<irr, isr, iflag, booted, prompted, frames, key, serial, editor,
                 clobbered>>

Sti ==
  /\ ~booted /\ irq_routines = Devices
  /\ booted' = TRUE /\ iflag' = TRUE
  /\ UNCHANGED <<irr, isr, imr, irq_routines, prompted, frames, key, serial,
                 editor, clobbered>>

\* kernel_main calls it with interrupts enabled; what has been typed before
\* the prompt is dropped.
shell_init ==
  /\ booted /\ ~prompted /\ frames = <<>>
  /\ prompted' = TRUE
  /\ cmd_len' = 0 /\ typed' = <<>>
  /\ UNCHANGED <<pics, booted, frames, key, serial, cmd_buffer, km_esp,
                 clobbered, line, mixed>>

-----------------------------------------------------------------------------
(* Devices                                                                  *)

\* A key; the controller keeps the next one back until this one is read.
KeyPress(c) ==
  /\ key = NONE /\ key' = c
  /\ Raise(KEYBOARD)
  /\ UNCHANGED <<booted, prompted, frames, serial, editor, clobbered>>

\* Without a FIFO a character that nobody has read is replaced.
SerialArrive(c) ==
  /\ serial' = c
  /\ UNCHANGED <<pics, booted, prompted, frames, key, editor, clobbered>>

DeviceIrq(i) ==
  /\ i # KEYBOARD /\ Raise(i)
  /\ UNCHANGED <<booted, prompted, frames, key, serial, editor, clobbered>>

-----------------------------------------------------------------------------
(* The shell                                                                *)

\* The string that starts at b[0].
CString(b) ==
  LET n == CHOOSE i \in Index : b[i] = NUL /\ \A j \in Index : j < i => b[j] # NUL
  IN  [k \in 1 .. n |-> b[k - 1]]

\* The first word is cut off where it ends.
split_command(b) ==
  LET Ends(i) == b[i] \in {SPACE, NUL}
  IN  [b EXCEPT ![CHOOSE i \in Index : Ends(i) /\ \A j \in Index : j < i => ~Ends(j)]
                  = NUL]

\* Mutant: one character too many fits.
Room_Full == cmd_len < CMD_BUFFER_SIZE

Room == cmd_len < CMD_BUFFER_SIZE - 1

Put(c) ==
  /\ c \in Char
  /\ IF Room THEN /\ cmd_buffer' = [cmd_buffer EXCEPT ![cmd_len] = c]
                  /\ cmd_len' = cmd_len + 1
             ELSE UNCHANGED <<cmd_buffer, cmd_len>>
  /\ typed' = IF Len(typed) < CMD_BUFFER_SIZE - 1 THEN Append(typed, c) ELSE typed

Erase(c) ==
  /\ c = BACKSPACE
  /\ cmd_len' = IF cmd_len > 0 THEN cmd_len - 1 ELSE 0
  /\ typed' = IF typed # <<>> THEN SubSeq(typed, 1, Len(typed) - 1) ELSE typed
  /\ UNCHANGED cmd_buffer

\* The line, ended by Enter.
Terminated == [cmd_buffer EXCEPT ![cmd_len] = NUL]

\* shell_handle_char(c) for a character that is not Enter; p comes next.
Edit(c, p) ==
  /\ Put(c) \/ Erase(c)
  /\ mixed' = (mixed \/ Depth > 1)
  /\ Goto(p)
  /\ UNCHANGED <<pics, km_esp, line>>

\* It takes note of the stack, for return_to_kernel, and its iret sets IF.
enter_usermode == Goto("ring3") /\ km_esp' = Depth /\ iflag' = TRUE

\* shell_handle_char('\n'), up to the command.  All commands but usertest come
\* to the end of shell_execute without anybody else having run; reboot, which
\* ends the run, and gfx, which is external, are left out.
Execute(c) ==
  /\ c = ENTER
  /\ line' = CString(Terminated)
  /\ cmd_buffer' = split_command(Terminated)
  /\ IF CString(cmd_buffer') = <<USERTEST>>
     THEN enter_usermode
     ELSE Goto("tail") /\ UNCHANGED <<km_esp, iflag>>
  /\ mixed' = (mixed \/ Depth > 1)
  /\ UNCHANGED <<irr, isr, imr, irq_routines, cmd_len, typed>>

shell_handle_char(c, p) == Edit(c, p) \/ Execute(c)

\* What an interrupt goes on with after a character: the timer's polls again.
After(i) == IF i = TIMER THEN "routine" ELSE "eoi"

\* Mutant: the length is not reset.
LenAfter_Kept == cmd_len

LenAfter == 0

\* The end of shell_handle_char('\n').
HandleCharEnd ==
  /\ At("tail")
  /\ cmd_len' = LenAfter /\ typed' = <<>> /\ line' = <<>> /\ mixed' = (Depth > 1)
  /\ Goto(After(Top.irq))
  /\ UNCHANGED <<pics, booted, prompted, key, serial, cmd_buffer, km_esp,
                 clobbered>>

-----------------------------------------------------------------------------
(* Interrupts                                                               *)

\* Mutant: the EOI is sent before the routine is called.
irq_handler_EarlyEoi(i) ==
  /\ ~clobbered /\ Deliverable(i)
  /\ irr' = irr \ {i} /\ iflag' = FALSE
  /\ frames' = Append(frames, [irq |-> i, at |-> IF i \in irq_routines
                                                 THEN "routine" ELSE "eoi"])
  /\ UNCHANGED <<isr, imr, irq_routines, booted, prompted, key, serial, editor,
                 clobbered>>

\* irq_handler is entered, from the idle loop of kernel_main or from ring 3.
irq_handler(i) ==
  /\ ~clobbered /\ Take(i)
  /\ frames' = Append(frames, [irq |-> i, at |-> IF i \in irq_routines
                                                 THEN "routine" ELSE "eoi"])
  /\ UNCHANGED <<booted, prompted, key, serial, editor, clobbered>>

keyboard_callback ==
  /\ At("routine") /\ Top.irq = KEYBOARD
  /\ shell_handle_char(key, "eoi")
  /\ key' = NONE
  /\ UNCHANGED <<booted, prompted, serial, clobbered>>

\* timer_callback: tasking_tick, then a loop over the serial line.
TimerChar ==
  /\ At("routine") /\ Top.irq = TIMER /\ serial # NONE
  /\ shell_handle_char(serial, "routine")
  /\ serial' = NONE
  /\ UNCHANGED <<booted, prompted, key, clobbered>>

TimerDone ==
  /\ At("routine") /\ Top.irq = TIMER /\ serial = NONE
  /\ Goto("eoi")
  /\ UNCHANGED <<pics, booted, prompted, key, serial, editor, clobbered>>

\* Any other routine.
OtherRoutine ==
  /\ At("routine") /\ Top.irq \notin {TIMER, KEYBOARD}
  /\ Goto("eoi")
  /\ UNCHANGED <<pics, booted, prompted, key, serial, editor, clobbered>>

\* The end of irq_handler, and the stub's iret.
IrqReturn ==
  /\ At("eoi")
  /\ isr' = pic_send_eoi(Top.irq)
  /\ frames' = SubSeq(frames, 1, Depth - 1)
  /\ iflag' = TRUE
  /\ UNCHANGED <<irr, imr, irq_routines, booted, prompted, key, serial, editor,
                 clobbered>>

-----------------------------------------------------------------------------
(* System calls: int 0x80 pushes its frame at the top of the TSS stack.     *)

\* The frame that isr_common_stub builds at the top of the TSS stack.
PushRegisters == clobbered' = (Depth > 1)

\* SYS_WRITE
SysWrite ==
  /\ At("ring3") /\ PushRegisters
  /\ UNCHANGED <<pics, booted, prompted, frames, key, serial, editor>>

\* Into usermode_run_demo, whose caller is the shell.
return_to_kernel == frames' = [SubSeq(frames, 1, km_esp) EXCEPT ![km_esp].at = "tail"]

\* SYS_EXIT.  The rest of the command runs with IF clear: the gate of int 0x80 is
\* an interrupt gate, and its stub executes cli besides.
SysExit ==
  /\ At("ring3") /\ PushRegisters
  /\ return_to_kernel
  /\ iflag' = FALSE
  /\ UNCHANGED <<irr, isr, imr, irq_routines, booted, prompted, key, serial,
                 editor>>

-----------------------------------------------------------------------------
Environment ==
  /\ ~clobbered
  /\ \/ \E c \in Input : KeyPress(c) \/ SerialArrive(c)
     \/ \E i \in Devices : DeviceIrq(i)

\* Anything may follow, and nothing is said of it.
Undefined == clobbered /\ UNCHANGED vars

Next ==
  \/ \E i \in Devices : DriverInit(i)
  \/ Sti \/ shell_init
  \/ Environment
  \/ \E i \in Line : irq_handler(i)
  \/ keyboard_callback \/ TimerChar \/ TimerDone \/ OtherRoutine
  \/ HandleCharEnd \/ IrqReturn
  \/ SysWrite \/ SysExit \/ Undefined

Spec == Init /\ [][Next]_vars

\* The CPU goes on, and the demo gets on between two ticks; whoever sends on
\* the serial line stops at last, or the timer's routine would poll for ever.
FairSpec ==
  /\ Spec
  /\ WF_vars(keyboard_callback \/ TimerChar \/ TimerDone \/ OtherRoutine
               \/ HandleCharEnd \/ IrqReturn)
  /\ SF_vars(SysExit)
  /\ <>[][\A c \in Input : ~SerialArrive(c)]_vars

-----------------------------------------------------------------------------
(* Properties                                                               *)

\* An interrupt in progress, and how far it has come.
Frame == [irq : Line, at : {"routine", "ring3", "tail", "eoi"}]

\* Type invariant; the buffer always ends in a terminator, so that no string
\* function runs past it.
TypeOK ==
  /\ irr \subseteq Line /\ isr \subseteq Line /\ imr \subseteq Line
  /\ iflag \in BOOLEAN /\ irq_routines \subseteq Devices
  /\ booted \in BOOLEAN /\ prompted \in BOOLEAN /\ clobbered \in BOOLEAN
  /\ frames \in Seq(Frame)
  /\ key \in Input \cup {NONE} /\ serial \in Input \cup {NONE}
  /\ cmd_buffer \in [Index -> Char \cup {NUL}]
  /\ cmd_buffer[CMD_BUFFER_SIZE - 1] = NUL
  /\ cmd_len \in Index /\ km_esp \in Nat
  /\ typed \in Seq(Char) /\ line \in Seq(Char) /\ mixed \in BOOLEAN

\* Once interrupts are on, every routine that a driver has installed can be
\* reached: its line is not masked, nor is the cascade if it is the slave's.
HandlersReachable ==
  booted => \A i \in irq_routines : InService(i) \cap imr = {}

\* The lines in service are those of the interrupts in progress, on both
\* controllers, however they nest: no EOI is missing and none is sent for
\* another interrupt.
EoiMatches ==
  isr = UNION {InService(frames[d].irq) : d \in 1 .. Depth}

\* What stands in for locks in the interrupt handlers and in the commands that
\* run in them: a handler is interrupted only while its command is in ring 3, and
\* by no more than one other.  (The idle loop of kernel_main and the bodies of
\* tasks also run in ring 0 with IF set; they are interrupted at any time.)
HandlersUninterrupted ==
  /\ \A d \in 1 .. (Depth - 1) : frames[d].at = "ring3"
  /\ frames # <<>> /\ ~clobbered => (iflag <=> Top.at = "ring3")
  /\ Depth <= 2

\* "accumule une ligne, et l'execute": what is executed is what has been typed
\* since the line before, with its corrections and up to the size of the
\* buffer, unless characters came while a command was still in progress.
LineAsTyped ==
  ~mixed => \A d \in 1 .. Depth : frames[d].at \in {"ring3", "tail"} => line = typed

\* return_to_kernel goes back to the call of enter_usermode that it ends: for
\* whoever is in ring 3 the return point is still its own.
ReturnPointKept ==
  \A d \in 1 .. Depth : frames[d].at = "ring3" => km_esp = d

\* Interrupts do not stay in service: whatever is in progress ends, unless a
\* nested usertest has destroyed it.
ServiceEnds == (isr # {}) ~> (isr = {} \/ clobbered)
-----------------------------------------------------------------------------
(* The inductive invariant                                                  *)

\* Places on the stack where a command is in progress.
Commands == {d \in 1 .. Depth : frames[d].at \in {"ring3", "tail"}}

\* Commands come from two lines only, and of those only the timer's is urgent
\* enough to nest, inside the keyboard's.
NestingInv ==
  /\ \A d \in Commands : frames[d].irq \in {TIMER, KEYBOARD}
  /\ Depth = 2 => /\ frames[1] = [irq |-> KEYBOARD, at |-> "ring3"]
                  /\ frames[2].irq = TIMER

\* Until a frame is overwritten, km_esp is the return point of the innermost
\* call of enter_usermode.
ReturnInv ==
  /\ clobbered => frames # <<>>
  /\ ~clobbered =>
       \A d \in 1 .. Depth :
         frames[d].at = "ring3" /\ (d = Depth \/ Top.at # "ring3") => km_esp = d

\* The drivers have opened their lines, and before sti nothing happens.
BootInv ==
  /\ TIMER \notin imr
  /\ \A i \in irq_routines : Unmasked(i) \cap imr = {}
  /\ IF booted THEN irq_routines = Devices ELSE ~iflag /\ frames = <<>>

\* The buffer is what has been typed; a command cuts it, but leaves its length.
LineInv ==
  /\ Len(typed) = cmd_len
  /\ Commands = {} => \A k \in 1 .. cmd_len : cmd_buffer[k - 1] = typed[k]

IInv ==
  /\ TypeOK /\ HandlersUninterrupted /\ EoiMatches /\ LineAsTyped
  /\ NestingInv /\ ReturnInv /\ BootInv /\ LineInv
=============================================================================
