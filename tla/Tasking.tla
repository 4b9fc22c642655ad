------------------------------ MODULE Tasking ------------------------------
(***************************************************************************)
(* The round-robin scheduler of tasking.c together with what decides when  *)
(* it runs: the interrupt flag, the 8259 interrupt controller, the stubs of*)
(* low_level.S and irq_handler of idt.c, which acknowledges an interrupt   *)
(* only after its routine has returned.  The routine of the timer calls    *)
(* tasking_tick and then hands what the serial line has received to the    *)
(* shell, so that both the keyboard and the timer can run the command      *)
(* usertest and leave for ring 3 with their interrupt still in service.    *)
(*                                                                         *)
(* A cell is the memory of one task_t and its stack, which are allocated   *)
(* and freed together.  Freed memory keeps its contents, so task[c] stays  *)
(* readable after c leaves allocated.  What a saved esp leads back to is   *)
(* the interesting part of it: "fresh" is the frame task_create builds,    *)
(* "irq" is schedule() called from the timer interrupt, "exit" is          *)
(* schedule() called from task_exit.                                       *)
(***************************************************************************)
EXTENDS Integers, FiniteSets

CONSTANTS
  Cell,                     \* places a task_t (and its stack) can be in
  NULL,
  Entries,                  \* what the tasks do: "loops" or "returns"
  SCHEDULE_EVERY_N_TICKS,   \* the quantum, in ticks
  MAX_PIDS                  \* bound: tasks created in one run of the model

ASSUME TaskingConstants ==
  /\ NULL \notin Cell
  /\ Entries \subseteq {"loops", "returns"}
  /\ SCHEDULE_EVERY_N_TICKS \in Nat \ {0}
  /\ MAX_PIDS \in Nat

VARIABLES
  task,            \* contents of every cell
  allocated,       \* cells that kmalloc has given and kfree not taken back
  current_task,
  zombie,          \* terminated task to be freed at the next schedule
  next_pid,
  tasking_ready,
  tick_counter,
  tasking_paused,
  booted,          \* kernel_main has executed sti
  iflag,           \* the CPU's interrupt flag
  irr, isr,        \* 8259: interrupts requested, interrupts in service
  cpu,             \* what it executes, one of Cpu below
  nxt,             \* the variable next of that loop
  why,             \* who called schedule: "irq" (tasking_tick) or "exit"
  user             \* interrupts in service whose usertest is in ring 3

sched == <<allocated, current_task, zombie, next_pid, tasking_ready>>
hw == <<iflag, irr, isr>>
vars == <<task, sched, tick_counter, tasking_paused, booted, hw, cpu, nxt,
          why, user>>

TIMER == 0
KEYBOARD == 1
IRQs == {TIMER, KEYBOARD}

TaskState == {"READY", "RUNNING", "TERMINATED"}

Task == [esp : {"none", "fresh", "irq", "exit"},
         entry : Entries \cup {"none"},
         pid : Nat,
         state : TaskState,
         next : Cell \cup {NULL}]

\* Tasks, ring 3 code and idling; the loop of schedule; the serial line polled
\* by timer_callback; halted for ever; a return through an overwritten frame.
Cpu == {"run", "walk", "poll", "hlt", "undefined"}

Terminated(c) == task[c].state = "TERMINATED"

-----------------------------------------------------------------------------
(* The interrupt controller: fully nested priorities (an interrupt waits for*)
(* the more urgent ones, requested or in service), and a non-specific EOI,  *)
(* which retires the most urgent interrupt in service.                      *)

Deliverable(i) == iflag /\ i \in irr /\ \A j \in isr \cup (irr \ {i}) : i < j

\* Mutant: the EOI is not sent.
pic_send_eoi_Lost(s) == s

pic_send_eoi(s) == {i \in s : \E j \in s : j < i}

-----------------------------------------------------------------------------
Init ==
  /\ task = [c \in Cell |-> [esp |-> "none", entry |-> "none", pid |-> 0,
                             state |-> "READY", next |-> NULL]]
  /\ allocated = {} /\ current_task = NULL /\ zombie = NULL
  /\ next_pid = 0 /\ tasking_ready = FALSE
  /\ tick_counter = 0 /\ tasking_paused = FALSE
  /\ booted = FALSE /\ iflag = FALSE /\ irr = {} /\ isr = {}
  /\ cpu = "run" /\ nxt = NULL /\ why = "irq" /\ user = {}

\* Task 0 is the flow of kernel_main itself, alone on the ring.
tasking_init ==
  /\ ~tasking_ready
  /\ \E c \in Cell \ allocated :
       /\ task' = [task EXCEPT ![c] = [esp |-> "none", entry |-> "none",
                                       pid |-> next_pid, state |-> "RUNNING",
                                       next |-> c]]
       /\ allocated' = allocated \cup {c}
       /\ current_task' = c
  /\ next_pid' = next_pid + 1
  /\ tasking_ready' = TRUE
  /\ UNCHANGED <<zombie, tick_counter, tasking_paused, booted, hw, cpu, nxt,
                 why, user>>

\* kernel_main creates its tasks before it enables interrupts.
MayCreate == ~booted

\* Mutant: the two assignments to next in the other order.
Inserted_Swapped(t, e) ==
  [task EXCEPT ![t] = [esp |-> "fresh", entry |-> e, pid |-> next_pid,
                       state |-> "READY", next |-> t],
               ![current_task].next = t]

\* The ring once t is inserted right after the current task.
Inserted(t, e) ==
  [task EXCEPT ![t] = [esp |-> "fresh", entry |-> e, pid |-> next_pid,
                       state |-> "READY", next |-> task[current_task].next],
               ![current_task].next = t]

\* A failed kmalloc makes task_create return -1 and changes nothing.
task_create(e) ==
  /\ tasking_ready /\ MayCreate
  /\ cpu = "run" /\ user = {} /\ next_pid < MAX_PIDS
  /\ \E t \in Cell \ allocated :
       /\ task' = Inserted(t, e)
       /\ allocated' = allocated \cup {t}
  /\ next_pid' = next_pid + 1
  /\ UNCHANGED <<current_task, zombie, tasking_ready, tick_counter,
                 tasking_paused, booted, hw, cpu, nxt, why, user>>

\* End of boot: kernel_main executes sti and goes on as task 0.
Sti ==
  /\ ~booted /\ tasking_ready
  /\ booted' = TRUE /\ iflag' = TRUE
  /\ UNCHANGED <<task, sched, tick_counter, tasking_paused, irr, isr, cpu, nxt,
                 why, user>>

-----------------------------------------------------------------------------
(* Interrupts                                                               *)

\* The device raises its line; a request that is already pending is merged.
Raise(i) ==
  /\ i \notin irr
  /\ irr' = irr \cup {i}
  /\ UNCHANGED <<task, sched, tick_counter, tasking_paused, booted, iflag, isr,
                 cpu, nxt, why, user>>

\* The timer interrupt is taken: the stub has cleared IF, the PIC waits for the
\* EOI.
TakeTimer ==
  /\ cpu = "run" /\ Deliverable(TIMER)
  /\ irr' = irr \ {TIMER} /\ isr' = isr \cup {TIMER} /\ iflag' = FALSE

\* tasking_tick returns at once.
TimerIgnored ==
  /\ TakeTimer
  /\ ~tasking_ready \/ tasking_paused
  /\ cpu' = "poll"
  /\ UNCHANGED <<task, sched, tick_counter, tasking_paused, booted, nxt, why,
                 user>>

\* The quantum is not over.
TimerTick ==
  /\ TakeTimer
  /\ tasking_ready /\ ~tasking_paused
  /\ tick_counter + 1 < SCHEDULE_EVERY_N_TICKS
  /\ tick_counter' = tick_counter + 1
  /\ cpu' = "poll"
  /\ UNCHANGED <<task, sched, tasking_paused, booted, nxt, why, user>>

\* Nothing (more) on the serial line: EOI, iret.
PollDone ==
  /\ cpu = "poll"
  /\ cpu' = "run" /\ iflag' = TRUE /\ isr' = pic_send_eoi(isr)
  /\ UNCHANGED <<task, sched, tick_counter, tasking_paused, booted, irr, nxt,
                 why, user>>

\* Mutant: a task that exits is freed while the CPU is still on its stack.
EnterSchedule_FreesCaller(caller) ==
  /\ allocated' = allocated \ (IF caller = "exit" THEN {current_task, zombie}
                               ELSE {zombie})
  /\ zombie' = NULL
  /\ nxt' = task[current_task].next
  /\ cpu' = "walk"
  /\ why' = caller

\* schedule() up to its loop: free the zombie, start at the current's next.
EnterSchedule(caller) ==
  /\ allocated' = allocated \ {zombie}
  /\ zombie' = NULL
  /\ nxt' = task[current_task].next
  /\ cpu' = "walk"
  /\ why' = caller

\* Mutant: the tick counter is not reset.
TimerSchedule_NoReset ==
  /\ TakeTimer
  /\ tasking_ready /\ ~tasking_paused
  /\ tick_counter + 1 >= SCHEDULE_EVERY_N_TICKS
  /\ tick_counter' = tick_counter + 1
  /\ EnterSchedule("irq")
  /\ UNCHANGED <<task, current_task, next_pid, tasking_ready, tasking_paused,
                 booted, user>>

\* Mutant: tasking_paused is not looked at.
TimerSchedule_IgnoresPause ==
  /\ TakeTimer
  /\ tasking_ready
  /\ tick_counter + 1 >= SCHEDULE_EVERY_N_TICKS
  /\ tick_counter' = 0
  /\ EnterSchedule("irq")
  /\ UNCHANGED <<task, current_task, next_pid, tasking_ready, tasking_paused,
                 booted, user>>

\* End of the quantum.
TimerSchedule ==
  /\ TakeTimer
  /\ tasking_ready /\ ~tasking_paused
  /\ tick_counter + 1 >= SCHEDULE_EVERY_N_TICKS
  /\ tick_counter' = 0
  /\ EnterSchedule("irq")
  /\ UNCHANGED <<task, current_task, next_pid, tasking_ready, tasking_paused,
                 booted, user>>

\* The entry of the current task has returned to task_trampoline.
task_exit ==
  /\ cpu = "run" /\ user = {} /\ booted
  /\ task[current_task].entry = "returns"
  /\ iflag' = FALSE
  /\ task' = [task EXCEPT ![current_task].state = "TERMINATED"]
  /\ EnterSchedule("exit")
  /\ UNCHANGED <<current_task, next_pid, tasking_ready, tick_counter,
                 tasking_paused, booted, irr, isr, user>>

\* A key stroke: the shell handles it inside the interrupt.
KeyIrq ==
  /\ cpu = "run" /\ Deliverable(KEYBOARD)
  /\ irr' = irr \ {KEYBOARD}
  /\ UNCHANGED <<task, sched, tick_counter, tasking_paused, booted, iflag, isr,
                 cpu, nxt, why, user>>

\* usermode_run_demo, called from the routine of interrupt i: it pauses tasking
\* and enter_usermode drops to ring 3 with IF set, i still in service.
EnterRing3(i) ==
  /\ tasking_paused' = TRUE /\ user' = user \cup {i}
  /\ cpu' = "run" /\ iflag' = TRUE
  /\ UNCHANGED <<task, sched, tick_counter, booted, nxt, why>>

\* The key that ends the command usertest.
KeyUsertest ==
  /\ cpu = "run" /\ Deliverable(KEYBOARD)
  /\ irr' = irr \ {KEYBOARD} /\ isr' = isr \cup {KEYBOARD}
  /\ EnterRing3(KEYBOARD)

\* The serial character that ends the command usertest.
SerialUsertest ==
  /\ cpu = "poll"
  /\ EnterRing3(TIMER)
  /\ UNCHANGED <<irr, isr>>

\* Mutant: tasking stays paused.
KeyDemoExit_StaysPaused ==
  /\ cpu = "run" /\ user = {KEYBOARD}
  /\ user' = {} /\ isr' = pic_send_eoi(isr)
  /\ UNCHANGED <<task, sched, tick_counter, tasking_paused, booted, iflag, irr,
                 cpu, nxt, why>>

\* SYS_EXIT: back in usermode_run_demo, then out of the keyboard's interrupt.
KeyDemoExit ==
  /\ cpu = "run" /\ user = {KEYBOARD}
  /\ tasking_paused' = FALSE
  /\ user' = {} /\ isr' = pic_send_eoi(isr)
  /\ UNCHANGED <<task, sched, tick_counter, booted, iflag, irr, cpu, nxt, why>>

\* SYS_EXIT: back in usermode_run_demo and in the loop over the serial line,
\* with IF clear as int 0x80 left it.
SerialDemoExit ==
  /\ cpu = "run" /\ user = {TIMER}
  /\ tasking_paused' = FALSE
  /\ user' = {} /\ cpu' = "poll" /\ iflag' = FALSE
  /\ UNCHANGED <<task, sched, tick_counter, booted, irr, isr, nxt, why>>

\* SYS_EXIT of a demo started from the serial line inside that of the keyboard:
\* usermode_run_demo clears the one flag both share, and returns with IF clear
\* through words of the stack of the TSS that the system calls of the inner
\* demo have overwritten.  What the CPU does from there is undefined.
NestedDemoExit ==
  /\ cpu = "run" /\ user = {KEYBOARD, TIMER}
  /\ tasking_paused' = FALSE
  /\ user' = {KEYBOARD} /\ cpu' = "undefined" /\ iflag' = FALSE
  /\ UNCHANGED <<task, sched, tick_counter, booted, irr, isr, nxt, why>>

-----------------------------------------------------------------------------
(* schedule()                                                               *)

\* One iteration of the loop that skips terminated tasks.
SchedWalk ==
  /\ cpu = "walk"
  /\ Terminated(nxt) /\ nxt # current_task
  /\ nxt' = task[nxt].next
  /\ UNCHANGED <<task, sched, tick_counter, tasking_paused, booted, hw, cpu,
                 why, user>>

\* No other task: schedule returns, to timer_callback or to the hlt loop at the
\* end of task_trampoline.
SchedReturn ==
  /\ cpu = "walk" /\ nxt = current_task
  /\ cpu' = IF why = "exit" THEN "hlt" ELSE "poll"
  /\ nxt' = NULL
  /\ UNCHANGED <<task, sched, tick_counter, tasking_paused, booted, hw, why,
                 user>>

\* The tail of schedule, up to and including switch_to.
Switch ==
  /\ cpu = "walk"
  /\ nxt # current_task /\ ~Terminated(nxt)
  /\ zombie' = IF Terminated(current_task) THEN current_task ELSE zombie
  /\ task' = [task EXCEPT
       ![current_task].esp = why,
       ![current_task].state = IF @ = "RUNNING" THEN "READY" ELSE @,
       ![nxt].state = "RUNNING"]
  /\ current_task' = nxt /\ nxt' = NULL
  /\ UNCHANGED <<allocated, next_pid, tasking_ready, tick_counter,
                 tasking_paused, booted, irr, isr, why, user>>

\* The ret of switch_to lands in task_trampoline, which executes sti.  The
\* timer interrupt that led here has not been acknowledged.
SwitchFresh ==
  /\ Switch
  /\ task[nxt].esp = "fresh"
  /\ cpu' = "run" /\ iflag' = TRUE

\* The ret of switch_to lands in the schedule() of an earlier timer interrupt,
\* and that in the rest of timer_callback.
SwitchBack ==
  /\ Switch
  /\ task[nxt].esp = "irq"
  /\ cpu' = "poll" /\ UNCHANGED iflag

-----------------------------------------------------------------------------
Schedule == SchedWalk \/ SchedReturn \/ SwitchFresh \/ SwitchBack

DemoExit == KeyDemoExit \/ SerialDemoExit \/ NestedDemoExit

TimerIrq == TimerIgnored \/ TimerTick \/ TimerSchedule

Next ==
  \/ tasking_init
  \/ \E e \in Entries : task_create(e)
  \/ Sti
  \/ \E i \in IRQs : Raise(i)
  \/ TimerIgnored \/ TimerTick \/ TimerSchedule \/ PollDone
  \/ KeyIrq \/ KeyUsertest \/ SerialUsertest
  \/ KeyDemoExit \/ SerialDemoExit \/ NestedDemoExit
  \/ task_exit
  \/ SchedWalk \/ SchedReturn \/ SwitchFresh \/ SwitchBack

Spec == Init /\ [][Next]_vars

\* The CPU runs, boot finishes, the PIT ticks for ever, an interrupt that can
\* be delivered is, and an entry that returns does so.  The demo ends: ticks
\* interrupt it again and again, but it goes on between them.  Nothing is
\* assumed of who types, except that nobody types usertest fast enough to have
\* ring 3 code running at every tick from some point on, or another usertest
\* waiting on the serial line whenever one has ended.
FairSpec ==
  /\ Spec
  /\ WF_vars(tasking_init) /\ WF_vars(Sti)
  /\ SF_vars(user = {} /\ Raise(TIMER)) /\ WF_vars(TimerIrq)
  /\ SF_vars(PollDone) /\ SF_vars(DemoExit)
  /\ WF_vars(task_exit) /\ WF_vars(Schedule)

-----------------------------------------------------------------------------
(* Properties                                                               *)

\* Type invariant.
TypeOK ==
  /\ task \in [Cell -> Task]
  /\ allocated \subseteq Cell
  /\ current_task \in Cell \cup {NULL} /\ zombie \in Cell \cup {NULL}
  /\ next_pid \in Nat /\ tasking_ready \in BOOLEAN
  /\ tick_counter \in 0 .. (SCHEDULE_EVERY_N_TICKS - 1)
  /\ tasking_paused \in BOOLEAN /\ booted \in BOOLEAN
  /\ iflag \in BOOLEAN /\ irr \subseteq IRQs /\ isr \subseteq IRQs
  /\ cpu \in Cpu /\ nxt \in Cell \cup {NULL}
  /\ why \in {"irq", "exit"} /\ user \subseteq IRQs

\* The comment of schedule() on zombies: the memory of a task is freed only
\* after its last switch, so the CPU never runs on a freed stack and no task
\* that could still run is ever freed.
NoLiveTaskFreed ==
  /\ tasking_ready => current_task \in allocated
  /\ \A c \in Cell : (task[c].next # NULL /\ c \notin allocated) => Terminated(c)
  /\ zombie # NULL =>
       zombie \in allocated /\ Terminated(zombie) /\ zombie # current_task

\* The state fields agree with the CPU: outside schedule exactly the current
\* task is RUNNING.
OneRunning ==
  /\ tasking_ready /\ cpu # "walk" => task[current_task].state = "RUNNING"
  /\ \A c \in allocated :
       task[c].state = "RUNNING" =>
         c = current_task /\ (cpu # "walk" \/ why = "irq")

\* The cells that have been put on the ring.
Ring == {c \in Cell : task[c].next # NULL}

\* The ring is one cycle through every task: whatever set of tasks the next
\* pointers never leave is the whole ring, so no walk can miss a task.
OneCycle ==
  \A S \in SUBSET Ring :
    (S # {} /\ \A c \in S : task[c].next \in S) => S = Ring

\* The comments of task_exit ("schedule() ne revient jamais ici") and schedule
\* ("ne devrait jamais arriver"): a terminated task never gets the CPU back.
ExitNeverReturns == cpu # "hlt"

\* The tasks that were switched away from in the timer interrupt.
Suspended == {c \in Cell : task[c].esp = "irq" /\ task[c].state = "READY"}

\* The CPU itself is inside the routine of the timer, or in a command it runs.
InTimer ==
  \/ cpu = "walk" /\ why = "irq"
  \/ cpu \in {"poll", "undefined"}
  \/ TIMER \in user

\* Every interrupt in service has exactly one place that still owes its EOI.
\* For the timer that is the CPU itself or one READY task, never both and never
\* two tasks, though a task switch leaves the routine half way and another
\* task's interrupt is what gets acknowledged next; for the keyboard it is the
\* command usertest.
EoiOwed ==
  /\ Cardinality(Suspended) <= 1
  /\ TIMER \in isr <=> (Suspended # {} \/ InTimer)
  /\ InTimer => Suspended = {}
  /\ KEYBOARD \in isr <=> KEYBOARD \in user

\* tasking_set_paused: while a ring 3 demo is in progress no task is switched
\* away from or changed, timer ticks or not.  One flag serves demos that are
\* nested, and the inner one clears it while the outer one has not ended; what
\* keeps the scheduler out then is the timer in service and IF, up to that exit,
\* and behind it nothing in the code says where the CPU goes.
NoSwitchInUser ==
  [][user # {} => UNCHANGED <<current_task, task>>]_vars

\* The preemption promised at the top of tasking.c: a task that is ready
\* eventually runs, whatever the others do (as long as the kernel is defined).
EveryReadyTaskRuns ==
  \A c \in Cell :
    (booted /\ c \in Ring /\ task[c].state = "READY") ~>
      (task[c].state = "RUNNING" \/ cpu = "undefined")

\* What is left of that promise: a ready task runs, unless a task that never
\* returns has been started and keeps the CPU, or nested demos have wrecked the
\* stack.
ServedUnlessHogged ==
  \A c \in Cell :
    (booted /\ c \in Ring /\ task[c].state = "READY") ~>
      \/ task[c].state = "RUNNING" \/ cpu = "undefined"
      \/ \E d \in Cell : d = current_task /\ task[d].entry = "loops"

\* schedule() follows the next pointers of tasks that still exist: what it has
\* given back to the heap it does not read again.
WalkOnTasks == cpu = "walk" => nxt \in allocated

-----------------------------------------------------------------------------
(* The inductive invariant                                                  *)

\* Which phase the kernel is in, and what it has built so far.
PhaseInv ==
  /\ ~tasking_ready => Ring = {} /\ current_task = NULL /\ ~booted
  /\ ~booted => /\ cpu = "run" /\ user = {} /\ ~iflag /\ isr = {} /\ zombie = NULL
                /\ allocated = Ring
                /\ \A c \in Cell : task[c].esp # "irq"
  /\ tasking_ready => current_task \in Ring
  /\ cpu # "undefined" => (user # {} <=> tasking_paused)

\* Linked cells point at linked cells; task 0, the one without an entry, is
\* linked and never terminates; no cell that is allocated is off the ring.
RingInv ==
  /\ allocated \subseteq Ring
  /\ \A c \in Ring : task[c].next \in Ring
  /\ \A c \in Ring : task[c].entry = "none" => ~Terminated(c)
  /\ tasking_ready => \E c \in Ring : task[c].entry = "none"

\* The current task is RUNNING, or TERMINATED in schedule, and no other is
\* RUNNING.
StateInv ==
  /\ \A c \in Cell : task[c].state = "RUNNING" => c = current_task
  /\ tasking_ready /\ (cpu # "walk" \/ why = "irq") =>
       task[current_task].state = "RUNNING"

\* The walk of schedule: from next on it meets a live task before it comes
\* back to a terminated caller.
WalkInv ==
  cpu = "walk" =>
    /\ tasking_ready /\ zombie = NULL /\ nxt \in Ring /\ user = {}
    /\ why = "exit" =>
         /\ Terminated(current_task)
         /\ \A S \in SUBSET Ring :
              (/\ nxt \in S
               /\ \A c \in S : Terminated(c) /\ c # current_task =>
                                 task[c].next \in S)
              => \E c \in S : ~Terminated(c)

\* Who owes an EOI, and what can be going on meanwhile.
EoiInv ==
  /\ \A c, d \in Suspended : c = d
  /\ TIMER \in isr <=> (Suspended # {} \/ InTimer)
  /\ InTimer => Suspended = {}
  /\ KEYBOARD \in isr <=> KEYBOARD \in user
  /\ user # {} => Suspended = {} /\ cpu \in {"run", "poll", "undefined"}
  /\ TIMER \in user => cpu = "run"
  /\ cpu # "run" => ~iflag

IInv ==
  /\ TypeOK /\ NoLiveTaskFreed /\ OneCycle /\ ExitNeverReturns
  /\ PhaseInv /\ RingInv /\ StateInv /\ WalkInv /\ EoiInv
=============================================================================
