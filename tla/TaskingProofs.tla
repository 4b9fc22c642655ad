---------------------------- MODULE TaskingProofs ----------------------------
(***************************************************************************)
(* Proofs about Tasking for every set of cells, every quantum and every    *)
(* choice of entries.  IInv is preserved by every action; the ring is      *)
(* handled through the sets of tasks closed under next, so that no         *)
(* induction along the ring is needed.                                     *)
(***************************************************************************)
EXTENDS Tasking, FiniteSetTheorems, TLAPS

USE DEF TIMER, KEYBOARD, IRQs

\* A non-specific EOI retires the timer if it is in service.
LEMMA EoiSets ==
  /\ pic_send_eoi({1}) = {}
  /\ \A s \in SUBSET IRQs : 0 \in s => pic_send_eoi(s) = s \ {0}
  <1>1. pic_send_eoi({1}) = {}
    BY DEF pic_send_eoi
  <1>2. ASSUME NEW s \in SUBSET IRQs, 0 \in s
        PROVE  pic_send_eoi(s) = s \ {0}
    <2>1. \A i \in s : (\E j \in s : j < i) <=> i # 0
      BY <1>2
    <2> QED
      BY <2>1 DEF pic_send_eoi
  <1> QED
    BY <1>1, <1>2

\* Nothing is linked, allocated or in service before tasking_init.
LEMMA InitInv == Init => IInv
  <1> SUFFICES ASSUME Init PROVE IInv
    OBVIOUS
  <1> USE TaskingConstants
  <1>1. Ring = {} /\ Suspended = {} /\ ~InTimer
    BY DEF Init, Ring, Suspended, InTimer
  <1>2. TypeOK
    <2>1. task \in [Cell -> Task]
      BY DEF Init, Task, TaskState
    <2>2. 0 \in 0 .. (SCHEDULE_EVERY_N_TICKS - 1)
      OBVIOUS
    <2> QED
      BY <2>1, <2>2 DEF Init, TypeOK, Cpu
  <1>3. NoLiveTaskFreed /\ ExitNeverReturns /\ StateInv
    BY DEF Init, NoLiveTaskFreed, ExitNeverReturns, StateInv
  <1>4. OneCycle /\ RingInv /\ PhaseInv
    BY <1>1 DEF Init, OneCycle, RingInv, PhaseInv
  <1>5. WalkInv /\ EoiInv
    BY <1>1 DEF Init, WalkInv, EoiInv
  <1> QED
    BY <1>2, <1>3, <1>4, <1>5 DEF IInv

-----------------------------------------------------------------------------
(* Steps that leave the tasks alone                                         *)

\* The invariant only looks at the tasks through these four variables.
LEMMA SameTasks ==
  ASSUME UNCHANGED <<task, allocated, current_task, zombie, tasking_ready>>
  PROVE  /\ Ring' = Ring /\ Suspended' = Suspended
         /\ OneCycle' <=> OneCycle
         /\ RingInv' <=> RingInv
         /\ NoLiveTaskFreed' <=> NoLiveTaskFreed
         /\ \A c \in Cell : Terminated(c)' <=> Terminated(c)
  <1>1. Ring' = Ring /\ Suspended' = Suspended
    BY DEF Ring, Suspended
  <1>2. \A c : Terminated(c)' <=> Terminated(c)
    BY DEF Terminated
  <1> QED
    BY <1>1, <1>2 DEF OneCycle, RingInv, NoLiveTaskFreed, Terminated

\* Steps that do not change what the CPU is executing.
LEMMA QuietInv ==
  ASSUME IInv,
         Sti \/ (\E i \in IRQs : Raise(i)) \/ KeyIrq
  PROVE  IInv'
  <1> USE TaskingConstants
  <1>1. /\ UNCHANGED <<task, allocated, current_task, zombie, tasking_ready,
                       next_pid, tick_counter, tasking_paused, isr, cpu, nxt, why,
                       user>>
        /\ irr' \subseteq IRQs /\ booted' \in BOOLEAN /\ iflag' \in BOOLEAN
    BY DEF IInv, TypeOK, Sti, Raise, KeyIrq, sched
  <1>2. /\ Ring' = Ring /\ Suspended' = Suspended /\ InTimer' = InTimer
        /\ OneCycle' /\ RingInv' /\ NoLiveTaskFreed'
        /\ \A c \in Cell : Terminated(c)' <=> Terminated(c)
    BY <1>1, SameTasks DEF IInv, InTimer
  <1>3. TypeOK' /\ ExitNeverReturns' /\ StateInv'
    BY <1>1 DEF IInv, TypeOK, ExitNeverReturns, StateInv
  <1>4. PhaseInv' /\ EoiInv'
    <2>1. CASE Sti
      BY <1>1, <1>2, <2>1 DEF IInv, PhaseInv, EoiInv, Sti
    <2>2. CASE (\E i \in IRQs : Raise(i)) \/ KeyIrq
      <3>1. booted' = booted /\ iflag' = iflag
        BY <2>2 DEF Raise, KeyIrq
      <3> QED
        BY <1>1, <1>2, <3>1 DEF IInv, PhaseInv, EoiInv
    <2> QED
      BY <2>1, <2>2
  <1>5. WalkInv'
    BY <1>1, <1>2 DEF IInv, WalkInv, Terminated
  <1> QED
    BY <1>2, <1>3, <1>4, <1>5 DEF IInv

\* The steps of interrupts and of the ring 3 demos that stay out of schedule.
Outside ==
  \/ TimerIgnored \/ TimerTick \/ PollDone
  \/ KeyUsertest \/ SerialUsertest
  \/ KeyDemoExit \/ SerialDemoExit \/ NestedDemoExit

\* A timer interrupt that is taken finds nobody inside the routine.
LEMMA TimerTaken ==
  ASSUME IInv, TakeTimer
  PROVE  /\ booted /\ tasking_ready /\ cpu = "run"
         /\ Suspended = {} /\ ~InTimer /\ TIMER \notin isr
         /\ irr' \subseteq IRQs /\ isr' = isr \cup {TIMER} /\ ~iflag'
  <1>1. cpu = "run" /\ iflag /\ TIMER \notin isr /\ TIMER \in irr
    BY DEF TakeTimer, Deliverable
  <1>2. booted /\ tasking_ready
    BY <1>1 DEF IInv, PhaseInv
  <1> QED
    BY <1>1, <1>2 DEF IInv, TypeOK, EoiInv, TakeTimer

\* Who owes the EOI after such a step.
LEMMA OutsideEoi ==
  ASSUME IInv, Outside
  PROVE  /\ Suspended' = Suspended /\ Suspended = {} /\ booted /\ booted'
         /\ cpu # "walk" /\ cpu' \in {"run", "poll", "undefined"}
         /\ isr' \subseteq IRQs /\ user' \subseteq IRQs /\ iflag' \in BOOLEAN
         /\ cpu' # "undefined" => (user' # {} <=> tasking_paused')
         /\ EoiInv'
  <1>1. UNCHANGED <<task, booted>>
    BY DEF Outside, TimerIgnored, TimerTick, PollDone, KeyUsertest, SerialUsertest,
           EnterRing3, KeyDemoExit, SerialDemoExit, NestedDemoExit
  <1>2. Suspended' = Suspended
    BY <1>1 DEF Suspended
  <1>3. isr \subseteq IRQs /\ user \subseteq IRQs /\ iflag \in BOOLEAN
    BY DEF IInv, TypeOK
  <1>4. CASE TimerIgnored \/ TimerTick
    <2>1. TakeTimer /\ cpu' = "poll" /\ UNCHANGED <<tasking_paused, user>>
      BY <1>4 DEF TimerIgnored, TimerTick
    <2>2. /\ booted /\ cpu = "run" /\ Suspended = {} /\ ~InTimer
          /\ isr' = isr \cup {TIMER} /\ ~iflag' /\ iflag' \in BOOLEAN
      BY <2>1, TimerTaken DEF TakeTimer
    <2> QED
      BY <1>1, <1>2, <1>3, <2>1, <2>2 DEF IInv, PhaseInv, EoiInv, InTimer
  <1>5. CASE PollDone
    <2>1. booted /\ InTimer /\ Suspended = {} /\ TIMER \in isr /\ TIMER \notin user
      BY <1>5 DEF IInv, PhaseInv, EoiInv, InTimer, PollDone
    <2>2. isr' = isr \ {TIMER}
      BY <1>3, <1>5, <2>1, EoiSets DEF PollDone
    <2>3. ~InTimer'
      BY <1>5, <2>1 DEF PollDone, InTimer
    <2> QED
      BY <1>1, <1>2, <1>3, <1>5, <2>1, <2>2, <2>3 DEF IInv, PhaseInv, EoiInv, PollDone
  <1>6. CASE KeyUsertest
    <2>1. isr = {} /\ iflag /\ cpu = "run"
      BY <1>3, <1>6 DEF KeyUsertest, Deliverable
    <2>2. booted /\ Suspended = {} /\ user = {}
      BY <1>3, <2>1 DEF IInv, PhaseInv, EoiInv, InTimer
    <2>3. isr' = {KEYBOARD} /\ user' = {KEYBOARD} /\ cpu' = "run" /\ iflag' = TRUE
          /\ tasking_paused' = TRUE
      BY <1>6, <2>1, <2>2 DEF KeyUsertest, EnterRing3
    <2> QED
      BY <1>1, <1>2, <2>1, <2>2, <2>3 DEF EoiInv, InTimer
  <1>7. CASE SerialUsertest
    <2>1. booted /\ InTimer /\ Suspended = {} /\ TIMER \in isr
      BY <1>7 DEF IInv, PhaseInv, EoiInv, InTimer, SerialUsertest
    <2>2. /\ isr' = isr /\ user' = user \cup {TIMER} /\ cpu' = "run" /\ iflag' = TRUE
          /\ tasking_paused' = TRUE
      BY <1>7 DEF SerialUsertest, EnterRing3
    <2> QED
      BY <1>1, <1>2, <1>3, <1>7, <2>1, <2>2 DEF IInv, EoiInv, InTimer, SerialUsertest
  <1>8. CASE KeyDemoExit
    <2>1. booted /\ Suspended = {} /\ isr = {KEYBOARD}
      BY <1>3, <1>8 DEF IInv, PhaseInv, EoiInv, InTimer, KeyDemoExit
    <2>2. /\ isr' = {} /\ user' = {} /\ cpu' = "run" /\ iflag' = iflag
          /\ tasking_paused' = FALSE
      BY <1>8, <2>1, EoiSets DEF KeyDemoExit
    <2> QED
      BY <1>1, <1>2, <1>3, <1>8, <2>1, <2>2 DEF EoiInv, InTimer, KeyDemoExit
  <1>9. CASE SerialDemoExit
    <2>1. booted /\ Suspended = {} /\ isr = {TIMER}
      BY <1>3, <1>9 DEF IInv, PhaseInv, EoiInv, InTimer, SerialDemoExit
    <2>2. /\ isr' = {TIMER} /\ user' = {} /\ cpu' = "poll" /\ iflag' = FALSE
          /\ tasking_paused' = FALSE /\ cpu = "run"
      BY <1>9, <2>1 DEF SerialDemoExit
    <2>3. EoiInv'
      BY <1>2, <2>1, <2>2 DEF EoiInv, InTimer
    <2> QED
      BY <1>1, <1>2, <2>1, <2>2, <2>3
  <1>10. CASE NestedDemoExit
    <2>1. booted /\ Suspended = {} /\ isr = {TIMER, KEYBOARD}
      BY <1>3, <1>10 DEF IInv, PhaseInv, EoiInv, InTimer, NestedDemoExit
    <2>2. /\ isr' = {TIMER, KEYBOARD} /\ user' = {KEYBOARD} /\ iflag' = FALSE
          /\ cpu' = "undefined" /\ cpu = "run"
      BY <1>10, <2>1 DEF NestedDemoExit
    <2>3. EoiInv'
      BY <1>2, <2>1, <2>2 DEF EoiInv, InTimer
    <2> QED
      BY <1>1, <1>2, <2>1, <2>2, <2>3
  <1> QED
    BY <1>4, <1>5, <1>6, <1>7, <1>8, <1>9, <1>10 DEF Outside

\* Interrupts that do not reach schedule, and the ring 3 demos.
LEMMA OutsideInv == IInv /\ Outside => IInv'
  <1> SUFFICES ASSUME IInv, Outside PROVE IInv'
    OBVIOUS
  <1> USE TaskingConstants
  <1>1. UNCHANGED <<task, allocated, current_task, zombie, tasking_ready,
                    next_pid, booted, nxt, why>>
    BY DEF Outside, TimerIgnored, TimerTick, PollDone, KeyUsertest, SerialUsertest,
           EnterRing3, KeyDemoExit, SerialDemoExit, NestedDemoExit, sched
  <1>2. /\ Ring' = Ring /\ OneCycle' /\ RingInv' /\ NoLiveTaskFreed'
    BY <1>1, SameTasks DEF IInv
  <1>3. /\ booted /\ cpu # "walk" /\ cpu' \in {"run", "poll", "undefined"}
        /\ isr' \subseteq IRQs /\ user' \subseteq IRQs /\ iflag' \in BOOLEAN
        /\ cpu' # "undefined" => (user' # {} <=> tasking_paused')
        /\ EoiInv'
    BY OutsideEoi
  <1>4. TypeOK'
    <2>1. tick_counter' \in 0 .. (SCHEDULE_EVERY_N_TICKS - 1)
      BY DEF IInv, TypeOK, Outside, TimerIgnored, TimerTick, PollDone, KeyUsertest,
             SerialUsertest, EnterRing3, KeyDemoExit, SerialDemoExit, NestedDemoExit
    <2>2. irr' \subseteq IRQs /\ tasking_paused' \in BOOLEAN
      BY DEF IInv, TypeOK, Outside, TimerIgnored, TimerTick, TakeTimer, PollDone,
             KeyUsertest, SerialUsertest, EnterRing3, KeyDemoExit, SerialDemoExit,
             NestedDemoExit
    <2> QED
      BY <1>1, <1>3, <2>1, <2>2 DEF IInv, TypeOK, Cpu
  <1>5. ExitNeverReturns' /\ StateInv' /\ PhaseInv' /\ WalkInv'
    BY <1>1, <1>2, <1>3 DEF IInv, ExitNeverReturns, StateInv, PhaseInv, WalkInv
  <1> QED
    BY <1>2, <1>3, <1>4, <1>5 DEF IInv

-----------------------------------------------------------------------------
(* Boot                                                                     *)

\* tasking_init makes a ring of one task.
LEMMA TaskingInitInv == IInv /\ tasking_init => IInv'
  <1> SUFFICES ASSUME IInv, tasking_init PROVE IInv'
    OBVIOUS
  <1> USE TaskingConstants
  <1>1. /\ ~tasking_ready /\ ~booted /\ Ring = {} /\ allocated = {} /\ zombie = NULL
        /\ cpu = "run" /\ user = {} /\ ~iflag /\ isr = {} /\ current_task = NULL
        /\ task \in [Cell -> Task] /\ next_pid \in Nat /\ ~tasking_paused
    BY DEF IInv, TypeOK, PhaseInv, RingInv, tasking_init
  <1>2. PICK c \in Cell :
          /\ task' = [task EXCEPT ![c] = [esp |-> "none", entry |-> "none",
                                          pid |-> next_pid, state |-> "RUNNING",
                                          next |-> c]]
          /\ allocated' = {c} /\ current_task' = c
    BY <1>1 DEF tasking_init
  <1>3. /\ UNCHANGED <<zombie, tick_counter, tasking_paused, booted, iflag, irr,
                       isr, cpu, nxt, why, user>>
        /\ tasking_ready' = TRUE /\ next_pid' = next_pid + 1
    BY DEF tasking_init, hw
  <1>4. /\ task'[c] = [esp |-> "none", entry |-> "none", pid |-> next_pid,
                       state |-> "RUNNING", next |-> c]
        /\ \A d \in Cell : d # c => task'[d] = task[d]
    BY <1>1, <1>2
  <1>5. Ring' = {c}
    BY <1>1, <1>4 DEF Ring
  <1>6. Suspended' = {}
    BY <1>1, <1>4 DEF Suspended, IInv, PhaseInv
  <1>7. TypeOK'
    <2>1. task' \in [Cell -> Task]
      BY <1>1, <1>2 DEF Task, TaskState
    <2> QED
      BY <1>1, <1>2, <1>3, <2>1 DEF IInv, TypeOK
  <1>8. NoLiveTaskFreed' /\ ExitNeverReturns'
    BY <1>1, <1>2, <1>3, <1>4, <1>5
       DEF NoLiveTaskFreed, ExitNeverReturns, Ring
  <1>9. OneCycle' /\ RingInv'
    BY <1>2, <1>4, <1>5 DEF OneCycle, RingInv, Terminated
  <1>10. PhaseInv' /\ StateInv'
    BY <1>1, <1>2, <1>3, <1>4, <1>5 DEF IInv, PhaseInv, StateInv
  <1>11. WalkInv' /\ EoiInv'
    BY <1>1, <1>3, <1>6 DEF WalkInv, EoiInv, InTimer
  <1> QED
    BY <1>7, <1>8, <1>9, <1>10, <1>11 DEF IInv

\* task_create inserts the new task after the current one: the ring stays one
\* cycle.
LEMMA TaskCreateInv ==
  ASSUME IInv, NEW e \in Entries, task_create(e)
  PROVE  IInv'
  <1> USE TaskingConstants
  <1>0. PICK t \in Cell \ allocated :
          task' = Inserted(t, e) /\ allocated' = allocated \cup {t}
    BY DEF task_create
  <1>1. PICK k \in Ring : k = current_task
    BY DEF IInv, PhaseInv, task_create
  <1>2. /\ ~booted /\ tasking_ready /\ allocated = Ring /\ zombie = NULL
        /\ cpu = "run" /\ user = {} /\ ~iflag /\ isr = {}
        /\ task \in [Cell -> Task] /\ next_pid \in Nat
        /\ \A c \in Cell : task[c].esp # "irq"
    BY DEF IInv, TypeOK, PhaseInv, task_create, MayCreate
  <1>3. t \in Cell /\ t \notin Ring /\ k \in Cell /\ t # k
    BY <1>0, <1>1, <1>2 DEF Ring
  <1>4. /\ UNCHANGED <<current_task, zombie, tasking_ready, tick_counter,
                       tasking_paused, booted, iflag, irr, isr, cpu, nxt, why, user>>
        /\ next_pid' = next_pid + 1
    BY DEF task_create, hw
  <1>5. /\ task'[t] = [esp |-> "fresh", entry |-> e, pid |-> next_pid,
                       state |-> "READY", next |-> task[k].next]
        /\ task'[k] = [task[k] EXCEPT !.next = t]
        /\ \A c \in Cell : c # t /\ c # k => task'[c] = task[c]
    BY <1>0, <1>1, <1>2, <1>3 DEF Inserted
  <1>6. /\ task'[t].next = task[k].next /\ task'[k].next = t
        /\ \A c \in Cell : c # t /\ c # k => task'[c].next = task[c].next
        /\ \A c \in Cell : c # t => /\ task'[c].state = task[c].state
                                    /\ task'[c].esp = task[c].esp
                                    /\ task'[c].entry = task[c].entry
        /\ task'[t].state = "READY" /\ task'[t].esp = "fresh" /\ task'[t].entry = e
    BY <1>2, <1>3, <1>5 DEF Task
  <1>7. /\ \A c \in Ring : task[c].next \in Ring
        /\ \A c \in Ring : task[c].entry = "none" => ~Terminated(c)
        /\ \E c \in Ring : task[c].entry = "none"
    BY <1>2 DEF IInv, RingInv
  <1>8. Ring' = Ring \cup {t}
    <2>1. NULL # t /\ task[k].next # NULL
      BY <1>1, <1>3 DEF Ring
    <2> QED
      BY <1>3, <1>6, <2>1 DEF Ring
  <1>9. Suspended' = {}
    BY <1>2, <1>6 DEF Suspended
  <1>10. TypeOK'
    <2>1. \A c \in Cell : task'[c] \in Task
      <3>1. task'[t] \in Task
        BY <1>1, <1>2, <1>3, <1>5 DEF Task, TaskState
      <3>2. task'[k] \in Task
        BY <1>2, <1>3, <1>5 DEF Task
      <3> QED
        BY <1>2, <1>5, <3>1, <3>2
    <2>2. task' = [c \in Cell |-> task'[c]]
      BY <1>0, <1>2 DEF Inserted
    <2>3. task' \in [Cell -> Task]
      BY <2>1, <2>2
    <2> QED
      BY <1>0, <1>2, <1>3, <1>4, <2>3 DEF IInv, TypeOK
  <1>11. NoLiveTaskFreed' /\ ExitNeverReturns'
    BY <1>0, <1>1, <1>2, <1>3, <1>4, <1>8 DEF NoLiveTaskFreed, ExitNeverReturns, Ring
  <1>12. OneCycle'
    <2> SUFFICES ASSUME NEW S \in SUBSET (Ring \cup {t}), S # {},
                        \A c \in S : task'[c].next \in S
                 PROVE  S = Ring \cup {t}
      BY <1>8 DEF OneCycle
    <2> DEFINE R == S \ {t}
    <2>1. R \in SUBSET Ring
      OBVIOUS
    <2>2. \A c \in R : task[c].next \in R
      <3> SUFFICES ASSUME NEW c \in R PROVE task[c].next \in R
        OBVIOUS
      <3>1. c \in Ring /\ c \in Cell /\ c # t /\ task[c].next \in Ring
        BY <1>7 DEF Ring
      <3>2. task[c].next \in S
        <4>1. CASE c = k
          <5>1. t \in S
            BY <1>6, <4>1
          <5> QED
            BY <1>6, <4>1, <5>1
        <4>2. CASE c # k
          BY <1>6, <3>1, <4>2
        <4> QED
          BY <4>1, <4>2
      <3> QED
        BY <1>3, <3>1, <3>2
    <2>3. R # {}
      BY <1>3, <1>6, <1>7
    <2>4. R = Ring
      BY <2>1, <2>2, <2>3 DEF IInv, OneCycle
    <2>5. t \in S
      BY <1>1, <1>6, <2>4
    <2> QED
      BY <2>4, <2>5
  <1>13. RingInv'
    <2>1. \A c \in Ring \cup {t} : task'[c].next \in Ring \cup {t}
      BY <1>1, <1>3, <1>6, <1>7 DEF Ring
    <2>2. \A c \in Ring \cup {t} : task'[c].entry = "none" => task'[c].state # "TERMINATED"
      BY <1>3, <1>6, <1>7 DEF Ring, Terminated
    <2>3. \E c \in Ring \cup {t} : task'[c].entry = "none"
      BY <1>3, <1>6, <1>7 DEF Ring
    <2> QED
      BY <1>0, <1>2, <1>8, <2>1, <2>2, <2>3 DEF RingInv, Terminated
  <1>14. PhaseInv'
    BY <1>0, <1>1, <1>2, <1>4, <1>6, <1>8 DEF IInv, PhaseInv
  <1>15. StateInv'
    BY <1>1, <1>3, <1>4, <1>6 DEF IInv, StateInv
  <1>16. WalkInv' /\ EoiInv'
    BY <1>2, <1>4, <1>9 DEF WalkInv, EoiInv, InTimer
  <1> QED
    BY <1>10, <1>11, <1>12, <1>13, <1>14, <1>15, <1>16 DEF IInv

-----------------------------------------------------------------------------
(* schedule()                                                               *)

\* The timer interrupt that ends a quantum enters schedule.
LEMMA TimerScheduleInv == IInv /\ TimerSchedule => IInv'
  <1> SUFFICES ASSUME IInv, TimerSchedule PROVE IInv'
    OBVIOUS
  <1> USE TaskingConstants
  <1>1. /\ tasking_ready /\ booted /\ user = {} /\ isr = {} /\ Suspended = {}
        /\ cpu = "run" /\ current_task \in Ring /\ zombie # current_task
        /\ current_task \in allocated
    <2>1. TakeTimer /\ ~tasking_paused
      BY DEF TimerSchedule
    <2>2. /\ tasking_ready /\ booted /\ cpu = "run" /\ user = {}
          /\ current_task \in Ring
      BY <2>1, TimerTaken DEF IInv, PhaseInv
    <2>3. isr = {} /\ Suspended = {}
      BY <2>1, <2>2, TimerTaken DEF IInv, TypeOK, EoiInv
    <2>4. zombie # current_task /\ current_task \in allocated
      BY <2>1, <2>2 DEF IInv, NoLiveTaskFreed, Ring
    <2> QED
      BY <2>2, <2>3, <2>4
  <1>2. /\ UNCHANGED <<task, current_task, next_pid, tasking_ready,
                       tasking_paused, booted, user>>
        /\ tick_counter' = 0 /\ irr' \subseteq irr /\ isr' = {TIMER} /\ iflag' = FALSE
        /\ allocated' = allocated \ {zombie} /\ zombie' = NULL
        /\ nxt' = task[current_task].next /\ cpu' = "walk" /\ why' = "irq"
    BY <1>1 DEF TimerSchedule, TakeTimer, EnterSchedule
  <1>3. /\ Ring' = Ring /\ Suspended' = {}
        /\ \A c : Terminated(c)' <=> Terminated(c)
    BY <1>1, <1>2 DEF Ring, Suspended, Terminated
  <1>4. TypeOK'
    <2>1. nxt' \in Cell
      BY <1>1, <1>2 DEF IInv, Ring, RingInv
    <2>2. tick_counter' \in 0 .. (SCHEDULE_EVERY_N_TICKS - 1)
      BY <1>2
    <2>3. irr' \subseteq IRQs /\ isr' \subseteq IRQs
      BY <1>2 DEF IInv, TypeOK
    <2> QED
      BY <1>2, <2>1, <2>2, <2>3 DEF IInv, TypeOK, Cpu
  <1>5. NoLiveTaskFreed'
    BY <1>1, <1>2, <1>3 DEF IInv, NoLiveTaskFreed, Terminated
  <1>6. OneCycle' /\ RingInv' /\ ExitNeverReturns'
    BY <1>2, <1>3 DEF IInv, OneCycle, RingInv, ExitNeverReturns, Terminated
  <1>7. PhaseInv' /\ StateInv'
    BY <1>1, <1>2, <1>3 DEF IInv, PhaseInv, StateInv
  <1>8. WalkInv' /\ EoiInv'
    BY <1>1, <1>2, <1>3 DEF IInv, RingInv, WalkInv, EoiInv, InTimer
  <1> QED
    BY <1>4, <1>5, <1>6, <1>7, <1>8 DEF IInv

\* task_exit enters schedule: task 0 is ahead of the walk, wherever it is.
LEMMA TaskExitInv == IInv /\ task_exit => IInv'
  <1> SUFFICES ASSUME IInv, task_exit PROVE IInv'
    OBVIOUS
  <1> USE TaskingConstants
  <1>1. /\ tasking_ready /\ booted /\ user = {} /\ cpu = "run"
        /\ task \in [Cell -> Task]
    BY DEF IInv, TypeOK, PhaseInv, task_exit
  <1>2. PICK k \in Ring : k = current_task
    BY <1>1 DEF IInv, PhaseInv
  <1>3. /\ k \in Cell /\ k \in allocated /\ zombie # k
        /\ task[k].state = "RUNNING" /\ task[k].entry = "returns"
    BY <1>1, <1>2 DEF IInv, NoLiveTaskFreed, StateInv, Ring, task_exit
  <1>4. /\ UNCHANGED <<current_task, next_pid, tasking_ready, tick_counter,
                       tasking_paused, booted, irr, isr, user>>
        /\ iflag' = FALSE
        /\ allocated' = allocated \ {zombie} /\ zombie' = NULL
        /\ nxt' = task[k].next /\ cpu' = "walk" /\ why' = "exit"
    BY <1>2 DEF task_exit, EnterSchedule
  <1>5. /\ task' \in [Cell -> Task]
        /\ task'[k].state = "TERMINATED"
        /\ \A c \in Cell : /\ task'[c].next = task[c].next
                           /\ task'[c].esp = task[c].esp
                           /\ task'[c].entry = task[c].entry
                           /\ c # k => task'[c].state = task[c].state
    BY <1>1, <1>2, <1>3 DEF task_exit, Task, TaskState
  <1>6. Ring' = Ring
    BY <1>5 DEF Ring
  <1>7. Suspended' = Suspended
    BY <1>3, <1>5 DEF Suspended
  <1>8. /\ \A c \in Ring : c \in Cell /\ task[c].next \in Ring
        /\ \A c \in Ring : task[c].entry = "none" => ~Terminated(c)
        /\ \E c \in Ring : task[c].entry = "none"
    BY <1>1 DEF IInv, RingInv, Ring
  <1>9. TypeOK'
    BY <1>2, <1>4, <1>5, <1>8 DEF IInv, TypeOK, Cpu
  <1>10. NoLiveTaskFreed' /\ ExitNeverReturns'
    BY <1>2, <1>3, <1>4, <1>5 DEF IInv, NoLiveTaskFreed, Terminated, ExitNeverReturns
  <1>11. OneCycle'
    <2> SUFFICES ASSUME NEW S \in SUBSET Ring, S # {},
                        \A c \in S : task'[c].next \in S
                 PROVE  S = Ring
      BY <1>6 DEF OneCycle
    <2>1. \A c \in S : task[c].next \in S
      BY <1>5, <1>8
    <2> QED
      BY <2>1 DEF IInv, OneCycle
  <1>12. RingInv'
    <2>1. \A c \in Ring : task'[c].entry = "none" => task'[c].state # "TERMINATED"
      BY <1>3, <1>5, <1>8 DEF Terminated
    <2>2. allocated' \subseteq Ring
      BY <1>4 DEF IInv, RingInv
    <2> QED
      BY <1>5, <1>6, <1>8, <2>1, <2>2 DEF RingInv, Terminated
  <1>13. PhaseInv' /\ StateInv'
    BY <1>1, <1>2, <1>3, <1>4, <1>5, <1>6 DEF IInv, PhaseInv, StateInv
  <1>14. WalkInv'
    <2>1. ASSUME NEW S \in SUBSET Ring, task[k].next \in S,
                 \A c \in S : task'[c].state = "TERMINATED" /\ c # k =>
                                task'[c].next \in S
          PROVE  \E c \in S : task'[c].state # "TERMINATED"
      <3> SUFFICES ASSUME \A c \in S : task'[c].state = "TERMINATED" PROVE FALSE
        OBVIOUS
      <3> DEFINE R == S \cup {k}
      <3>1. R \in SUBSET Ring /\ R # {} /\ \A c \in R : task[c].next \in R
        BY <1>5, <1>8, <2>1
      <3>2. R = Ring
        BY <3>1 DEF IInv, OneCycle
      <3>3. PICK c \in Ring : task[c].entry = "none"
        BY <1>8
      <3>4. c \in S /\ task'[c].state # "TERMINATED"
        BY <1>3, <1>5, <1>8, <3>2, <3>3 DEF Terminated
      <3> QED
        BY <3>4
    <2> QED
      BY <1>1, <1>2, <1>4, <1>5, <1>6, <1>8, <2>1 DEF WalkInv, Terminated
  <1>15. EoiInv'
    BY <1>1, <1>4, <1>7 DEF IInv, EoiInv, InTimer
  <1> QED
    BY <1>9, <1>10, <1>11, <1>12, <1>13, <1>14, <1>15 DEF IInv

\* The walk passes a terminated task: the live one is still ahead.
LEMMA SchedWalkInv == IInv /\ SchedWalk => IInv'
  <1> SUFFICES ASSUME IInv, SchedWalk PROVE IInv'
    OBVIOUS
  <1> USE TaskingConstants
  <1>1. /\ UNCHANGED <<task, allocated, current_task, zombie, tasking_ready,
                       next_pid, tick_counter, tasking_paused, booted, iflag, irr,
                       isr, cpu, why, user>>
        /\ nxt' = task[nxt].next
    BY DEF SchedWalk, sched, hw
  <1>2. /\ Ring' = Ring /\ Suspended' = Suspended
        /\ OneCycle' /\ RingInv' /\ NoLiveTaskFreed'
    BY <1>1, SameTasks DEF IInv
  <1>3. nxt \in Ring /\ task[nxt].next \in Ring
    BY DEF IInv, WalkInv, RingInv, SchedWalk
  <1>4. TypeOK'
    BY <1>1, <1>3 DEF IInv, TypeOK, Ring
  <1>5. ExitNeverReturns' /\ PhaseInv' /\ StateInv' /\ EoiInv'
    BY <1>1, <1>2 DEF IInv, ExitNeverReturns, PhaseInv, StateInv, EoiInv, InTimer
  <1>6. WalkInv'
    <2>1. ASSUME why = "exit", NEW S \in SUBSET Ring, task[nxt].next \in S,
                 \A c \in S : Terminated(c) /\ c # current_task => task[c].next \in S
          PROVE  \E c \in S : ~Terminated(c)
      <3> DEFINE R == S \cup {nxt}
      <3>1. /\ R \in SUBSET Ring /\ nxt \in R
            /\ \A c \in R : Terminated(c) /\ c # current_task => task[c].next \in R
        BY <1>3, <2>1
      <3>2. \E c \in R : ~Terminated(c)
        BY <2>1, <3>1 DEF IInv, WalkInv, SchedWalk
      <3> QED
        BY <3>2 DEF SchedWalk
    <2> QED
      BY <1>1, <1>2, <1>3, <2>1 DEF IInv, WalkInv, SchedWalk, Terminated
  <1> QED
    BY <1>2, <1>4, <1>5, <1>6 DEF IInv

\* schedule comes back to its caller only if the caller is alive.
LEMMA ReturnsToLive ==
  ASSUME IInv, SchedReturn
  PROVE  why = "irq"
  <1> SUFFICES ASSUME why = "exit" PROVE FALSE
    BY DEF IInv, TypeOK
  <1>1. Terminated(current_task) /\ current_task \in Ring /\ nxt = current_task
    BY DEF IInv, WalkInv, SchedReturn
  <1> DEFINE S == {current_task}
  <1>2. /\ S \in SUBSET Ring /\ nxt \in S
        /\ \A c \in S : Terminated(c) /\ c # current_task => task[c].next \in S
    BY <1>1
  <1>3. \E c \in S : ~Terminated(c)
    BY <1>2 DEF IInv, WalkInv, SchedReturn
  <1> QED
    BY <1>1, <1>3

\* No other live task: the interrupted one goes on with the rest of its timer
\* interrupt.
LEMMA SchedReturnInv == IInv /\ SchedReturn => IInv'
  <1> SUFFICES ASSUME IInv, SchedReturn PROVE IInv'
    OBVIOUS
  <1> USE TaskingConstants
  <1>1. why = "irq" /\ cpu = "walk"
    BY ReturnsToLive DEF SchedReturn
  <1>2. tasking_ready /\ booted /\ user = {} /\ TIMER \in isr /\ Suspended = {}
    BY <1>1 DEF IInv, WalkInv, PhaseInv, EoiInv, InTimer
  <1>3. /\ UNCHANGED <<task, allocated, current_task, zombie, tasking_ready,
                       next_pid, tick_counter, tasking_paused, booted, iflag, irr,
                       isr, why, user>>
        /\ cpu' = "poll" /\ nxt' = NULL
    BY <1>1 DEF SchedReturn, sched, hw
  <1>4. /\ Ring' = Ring /\ Suspended' = Suspended
        /\ OneCycle' /\ RingInv' /\ NoLiveTaskFreed'
    BY <1>3, SameTasks DEF IInv
  <1>5. TypeOK'
    BY <1>3 DEF IInv, TypeOK, Cpu
  <1>6. ExitNeverReturns' /\ PhaseInv' /\ StateInv'
    BY <1>1, <1>2, <1>3, <1>4 DEF IInv, ExitNeverReturns, PhaseInv, StateInv
  <1>7. WalkInv' /\ EoiInv'
    BY <1>1, <1>2, <1>3, <1>4 DEF IInv, WalkInv, EoiInv, InTimer
  <1> QED
    BY <1>4, <1>5, <1>6, <1>7 DEF IInv

\* switch_to: the task left is READY (suspended in the timer interrupt) or the
\* new zombie, the task resumed was READY.
LEMMA SwitchInv == IInv /\ (SwitchFresh \/ SwitchBack) => IInv'
  <1> SUFFICES ASSUME IInv, SwitchFresh \/ SwitchBack PROVE IInv'
    OBVIOUS
  <1> USE TaskingConstants
  <1>0. Switch
    BY DEF SwitchFresh, SwitchBack
  <1>1. /\ cpu = "walk" /\ tasking_ready /\ booted /\ zombie = NULL /\ user = {}
        /\ nxt \in Ring /\ nxt # current_task /\ ~Terminated(nxt)
        /\ current_task \in Ring /\ task \in [Cell -> Task]
        /\ why \in {"irq", "exit"}
    BY <1>0 DEF IInv, TypeOK, PhaseInv, WalkInv, Switch
  <1>2. PICK k \in Ring : k = current_task
    BY <1>1
  <1>3. PICK n \in Ring : n = nxt
    BY <1>1
  <1>4. /\ k \in Cell /\ n \in Cell /\ n # k
        /\ task[n].state = "READY" /\ n \in allocated
        /\ why = "exit" => task[k].state = "TERMINATED"
        /\ why = "irq" => task[k].state = "RUNNING"
    <2>1. k \in Cell /\ n \in Cell /\ n # k
      BY <1>1, <1>2, <1>3 DEF Ring
    <2>2. task[n].state \in TaskState
      BY <1>1, <2>1 DEF Task
    <2>3. task[n].state # "RUNNING" /\ task[n].state # "TERMINATED"
      BY <1>1, <1>2, <1>3, <2>1 DEF IInv, StateInv, Terminated
    <2>4. n \in allocated
      BY <1>1, <1>3, <2>1, <2>3 DEF IInv, NoLiveTaskFreed, Terminated, Ring
    <2>5. /\ why = "exit" => task[k].state = "TERMINATED"
          /\ why = "irq" => task[k].state = "RUNNING"
      BY <1>1, <1>2 DEF IInv, WalkInv, StateInv, Terminated
    <2> QED
      BY <2>1, <2>2, <2>3, <2>4, <2>5 DEF TaskState
  <1>5. /\ UNCHANGED <<allocated, next_pid, tasking_ready, tick_counter,
                       tasking_paused, booted, irr, isr, why, user>>
        /\ current_task' = n /\ cpu' \in {"run", "poll"} /\ nxt' = NULL
        /\ iflag' \in BOOLEAN
        /\ cpu' = "poll" => iflag' = iflag
        /\ zombie' = IF why = "exit" THEN k ELSE NULL
    <2>1. iflag \in BOOLEAN
      BY DEF IInv, TypeOK
    <2> QED
      BY <1>0, <1>1, <1>2, <1>3, <1>4, <2>1
         DEF Switch, SwitchFresh, SwitchBack, Terminated
  <1>6. task' = [task EXCEPT
                   ![k].esp = why,
                   ![k].state = IF @ = "RUNNING" THEN "READY" ELSE @,
                   ![n].state = "RUNNING"]
    BY <1>0, <1>2, <1>3 DEF Switch
  <1>7. /\ task'[k].esp = why
        /\ task'[k].state = IF why = "irq" THEN "READY" ELSE "TERMINATED"
        /\ task'[n].state = "RUNNING" /\ task'[n].esp = task[n].esp
        /\ \A c \in Cell : /\ task'[c].next = task[c].next
                           /\ task'[c].entry = task[c].entry
                           /\ c # k /\ c # n => task'[c] = task[c]
        /\ task' \in [Cell -> Task]
    <2>1. task'[k] = [task[k] EXCEPT !.esp = why,
                        !.state = IF why = "irq" THEN "READY" ELSE "TERMINATED"]
      BY <1>1, <1>4, <1>6 DEF Task
    <2>2. task'[n] = [task[n] EXCEPT !.state = "RUNNING"]
      BY <1>1, <1>4, <1>6 DEF Task
    <2>3. \A c \in Cell : c # k /\ c # n => task'[c] = task[c]
      BY <1>1, <1>4, <1>6
    <2>4. task[k] \in Task /\ task[n] \in Task /\ DOMAIN task' = Cell
      BY <1>1, <1>4, <1>6
    <2>5. task'[k] \in Task /\ task'[n] \in Task
      BY <1>1, <2>1, <2>2, <2>4 DEF Task, TaskState
    <2>6. task' \in [Cell -> Task]
      <3>1. task' = [c \in Cell |-> task'[c]]
        BY <1>1, <1>6
      <3>2. \A c \in Cell : task'[c] \in Task
        BY <1>1, <2>3, <2>5
      <3> QED
        BY <3>1, <3>2
    <2>7. \A c \in Cell : /\ task'[c].next = task[c].next
                          /\ task'[c].entry = task[c].entry
      <3> SUFFICES ASSUME NEW c \in Cell
                   PROVE  /\ task'[c].next = task[c].next
                          /\ task'[c].entry = task[c].entry
        OBVIOUS
      <3>1. CASE c = k
        BY <2>1, <2>4, <3>1 DEF Task
      <3>2. CASE c = n
        BY <2>2, <2>4, <3>2 DEF Task
      <3>3. CASE c # k /\ c # n
        BY <2>3, <3>3
      <3> QED
        BY <3>1, <3>2, <3>3
    <2>8. /\ task'[k].esp = why
          /\ task'[k].state = IF why = "irq" THEN "READY" ELSE "TERMINATED"
          /\ task'[n].state = "RUNNING" /\ task'[n].esp = task[n].esp
      BY <2>1, <2>2, <2>4 DEF Task
    <2> QED
      BY <2>3, <2>6, <2>7, <2>8
  <1>8. Ring' = Ring
    BY <1>7 DEF Ring
  <1>9. \A c \in Cell : (task'[c].state = "TERMINATED") <=> Terminated(c)
    BY <1>1, <1>4, <1>7 DEF Terminated
  <1>10. TypeOK'
    BY <1>4, <1>5, <1>7 DEF IInv, TypeOK, Cpu
  <1>11. NoLiveTaskFreed' /\ ExitNeverReturns'
    <2>1. why = "exit" => k \in allocated /\ task'[k].state = "TERMINATED"
      BY <1>1, <1>2, <1>7 DEF IInv, NoLiveTaskFreed
    <2> QED
      BY <1>4, <1>5, <1>7, <1>9, <2>1
         DEF IInv, NoLiveTaskFreed, ExitNeverReturns, Terminated
  <1>12. OneCycle'
    <2> SUFFICES ASSUME NEW S \in SUBSET Ring, S # {},
                        \A c \in S : task'[c].next \in S
                 PROVE  S = Ring
      BY <1>8 DEF OneCycle
    <2>1. \A c \in S : task[c].next \in S
      BY <1>7 DEF Ring
    <2> QED
      BY <2>1 DEF IInv, OneCycle
  <1>13. RingInv'
    BY <1>5, <1>7, <1>8, <1>9 DEF IInv, RingInv, Terminated, Ring
  <1>14. PhaseInv' /\ StateInv' /\ WalkInv'
    <2>1. PhaseInv' /\ WalkInv'
      BY <1>1, <1>3, <1>5, <1>8 DEF IInv, PhaseInv, WalkInv
    <2>2. StateInv'
      BY <1>2, <1>4, <1>5, <1>7 DEF IInv, StateInv
    <2> QED
      BY <2>1, <2>2
  <1>15. EoiInv'
    <2>1. KEYBOARD \notin isr /\ ~iflag
      BY <1>1 DEF IInv, EoiInv
    <2>2. InTimer' <=> cpu' = "poll"
      BY <1>1, <1>5 DEF InTimer
    <2>3. CASE why = "irq"
      <3>1. Suspended = {} /\ TIMER \in isr
        BY <1>1, <2>3 DEF IInv, EoiInv, InTimer
      <3>2. task[n].esp # "irq"
        BY <1>4, <3>1 DEF Suspended
      <3>3. cpu' = "run"
        BY <1>3, <3>2 DEF SwitchFresh, SwitchBack
      <3>4. Suspended' = {k}
        BY <1>4, <1>7, <2>3, <3>1 DEF Suspended
      <3> QED
        BY <1>1, <1>5, <2>1, <2>2, <3>1, <3>3, <3>4 DEF EoiInv
    <2>4. CASE why = "exit"
      <3>1. Suspended' = Suspended \ {n}
        BY <1>4, <1>7, <2>4 DEF Suspended
      <3>2. TIMER \in isr <=> Suspended # {}
        BY <1>1, <2>4 DEF IInv, EoiInv, InTimer
      <3>3. \A c, d \in Suspended : c = d
        BY DEF IInv, EoiInv
      <3>4. CASE SwitchFresh
        <4>1. n \notin Suspended /\ cpu' = "run"
          BY <1>3, <3>4 DEF Suspended, SwitchFresh
        <4>2. Suspended' = Suspended
          BY <3>1, <4>1
        <4> QED
          BY <1>1, <1>5, <2>1, <2>2, <3>2, <3>3, <4>1, <4>2 DEF EoiInv
      <3>5. CASE SwitchBack
        <4>1. n \in Suspended /\ cpu' = "poll"
          BY <1>3, <1>4, <3>5 DEF Suspended, SwitchBack
        <4>2. Suspended' = {}
          BY <3>1, <3>3, <4>1
        <4> QED
          BY <1>1, <1>5, <2>1, <2>2, <3>2, <4>1, <4>2 DEF EoiInv
      <3> QED
        BY <3>4, <3>5
    <2> QED
      BY <1>1, <2>3, <2>4
  <1> QED
    BY <1>10, <1>11, <1>12, <1>13, <1>14, <1>15 DEF IInv

-----------------------------------------------------------------------------
\* IInv holds in every reachable state.
THEOREM Inductive == Spec => []IInv
  <1>1. IInv /\ [Next]_vars => IInv'
    <2> SUFFICES ASSUME IInv, [Next]_vars PROVE IInv'
      OBVIOUS
    <2>1. CASE UNCHANGED vars
      <3>1. UNCHANGED <<task, allocated, current_task, zombie, tasking_ready,
                        next_pid, tick_counter, tasking_paused, booted, iflag,
                        irr, isr, cpu, nxt, why, user>>
        BY <2>1 DEF vars, sched, hw
      <3>2. /\ Ring' = Ring /\ Suspended' = Suspended
            /\ OneCycle' /\ RingInv' /\ NoLiveTaskFreed'
        BY <3>1, SameTasks DEF IInv
      <3>3. TypeOK' /\ ExitNeverReturns' /\ PhaseInv' /\ StateInv' /\ EoiInv'
        BY <3>1, <3>2
           DEF IInv, TypeOK, ExitNeverReturns, PhaseInv, StateInv, EoiInv, InTimer
      <3>4. WalkInv'
        BY <3>1, <3>2 DEF IInv, WalkInv, Terminated
      <3> QED
        BY <3>2, <3>3, <3>4 DEF IInv
    <2>2. CASE Next
      BY <2>2, TaskingInitInv, TaskCreateInv, QuietInv, OutsideInv,
         TimerScheduleInv, TaskExitInv, SchedWalkInv, SchedReturnInv, SwitchInv
         DEF Next, Outside
    <2> QED
      BY <2>1, <2>2
  <1> QED
    BY InitInv, <1>1, PTL DEF Spec

\* Type correctness.
THEOREM TypeCorrect == Spec => []TypeOK
  BY Inductive, PTL DEF IInv

\* No task that can still run is freed, and the CPU is never on a freed stack.
THEOREM StacksSafe == Spec => []NoLiveTaskFreed
  BY Inductive, PTL DEF IInv

\* At most the current task is RUNNING.
THEOREM RunningIsCurrent == Spec => []OneRunning
  <1>1. IInv => OneRunning
    <2>4. IInv => (tasking_ready /\ cpu # "walk" =>
                     task[current_task].state = "RUNNING")
      BY DEF IInv, StateInv
    <2> SUFFICES ASSUME IInv, NEW c \in allocated, task[c].state = "RUNNING"
                 PROVE  c = current_task /\ (cpu # "walk" \/ why = "irq")
      BY <2>4 DEF OneRunning
    <2>1. c = current_task
      BY DEF IInv, TypeOK, StateInv
    <2>3. CASE cpu = "walk" /\ why = "exit"
      BY <2>1, <2>3 DEF IInv, WalkInv, Terminated
    <2> QED
      BY <2>1, <2>3 DEF IInv, TypeOK
  <1> QED
    BY <1>1, Inductive, PTL

\* The ring is always one cycle through all tasks ever created.
THEOREM RingIsOneCycle == Spec => []OneCycle
  BY Inductive, PTL DEF IInv

\* schedule() never returns to task_exit, as its comment says.
THEOREM ExitIsFinal == Spec => []ExitNeverReturns
  BY Inductive, PTL DEF IInv

\* Every interrupt in service has exactly one place that owes its EOI.
THEOREM EoiAccounted == Spec => []EoiOwed
  <1>1. IInv => EoiOwed
    <2> SUFFICES ASSUME IInv PROVE EoiOwed
      OBVIOUS
    <2>1. /\ TIMER \in isr <=> (Suspended # {} \/ InTimer)
          /\ InTimer => Suspended = {}
          /\ KEYBOARD \in isr <=> KEYBOARD \in user
      BY DEF IInv, EoiInv
    <2>2. Cardinality(Suspended) <= 1
      <3>0. \A c, d \in Suspended : c = d
        BY DEF IInv, EoiInv
      <3>1. CASE Suspended = {}
        <4>1. Cardinality(Suspended) = 0
          BY <3>1, FS_EmptySet, Zenon
        <4> QED
          BY <4>1
      <3>2. CASE Suspended # {}
        <4>1. PICK c : c \in Suspended
          BY <3>2
        <4>2. Suspended = {c}
          BY <3>0, <4>1
        <4>3. Cardinality(Suspended) = 1
          BY <4>2, FS_Singleton, Zenon
        <4> QED
          BY <4>3
      <3> QED
        BY <3>1, <3>2
    <2> QED
      BY <2>1, <2>2 DEF EoiOwed
  <1> QED
    BY <1>1, Inductive, PTL

\* No task switch, and no change to any task, while a ring 3 demo is in
\* progress, whichever interrupt it was started from and nested ones included.
THEOREM UserUndisturbed == Spec => NoSwitchInUser
  <1>1. ASSUME IInv, [Next]_vars
        PROVE  [user # {} => UNCHANGED <<current_task, task>>]_vars
    <2> SUFFICES ASSUME Next, user # {} PROVE UNCHANGED <<current_task, task>>
      BY <1>1
    <2>1. /\ cpu \in {"run", "poll", "undefined"} /\ booted /\ tasking_ready
          /\ cpu = "run" => tasking_paused
      BY <1>1 DEF IInv, EoiInv, PhaseInv
    <2>2. CASE Outside \/ Sti \/ (\E i \in IRQs : Raise(i)) \/ KeyIrq
      BY <2>2 DEF Outside, Sti, Raise, KeyIrq, TimerIgnored, TimerTick, PollDone,
         KeyUsertest, SerialUsertest, EnterRing3, KeyDemoExit, SerialDemoExit,
         NestedDemoExit, sched
    <2>3. ~tasking_init /\ ~TimerSchedule /\ ~task_exit
      BY <2>1 DEF tasking_init, TimerSchedule, TakeTimer, task_exit
    <2>4. ~SchedWalk /\ ~SchedReturn /\ ~SwitchFresh /\ ~SwitchBack
      BY <2>1 DEF SchedWalk, SchedReturn, SwitchFresh, SwitchBack, Switch
    <2>5. ~ \E e \in Entries : task_create(e)
      BY DEF task_create
    <2> QED
      BY <2>2, <2>3, <2>4, <2>5 DEF Next, Outside
  <1> QED
    BY <1>1, Inductive, PTL DEF Spec, NoSwitchInUser
=============================================================================
