-------------------------- MODULE TaskSwitch_proofs --------------------------
(***************************************************************************)
(* Theorems about the scheduler and about preemption, for any number of    *)
(* tasks, any register values and stacks of any size.                      *)
(*                                                                         *)
(* MachineInv and DeepInv hold whenever ticks arrive, also between the sti *)
(* and the iretq; from them follow the types, that TaskSwitch drives the   *)
(* scheduler only by steps of Sched, and how many frames pile up.  OwnInv  *)
(* holds until such a tick is taken there for the first time, and with     *)
(* MarkInv gives the refinement of VirtualCpus up to that tick.            *)
(***************************************************************************)
EXTENDS TaskSwitch, FiniteSetTheorems, SequenceTheorems, TLAPS

-----------------------------------------------------------------------------
(* The scheduler alone, whatever register files the timer interrupts       *)
(* deliver: the task list stays one ring in PID order and exactly          *)
(* current_task is RUNNING.                                                *)
-----------------------------------------------------------------------------
(* How far KernelMain has come, as far as the ring depends on it.          *)
BootInv ==
  /\ boot = "init_kernel_task" => Created = {}
  /\ boot \in {"init_kernel_task", "set_current_task"} => next_pid = 1
  /\ boot = "set_current_task" => Created = {init_task}
  /\ boot \in {"create_task", "enable_interrupts"} => current_task = init_task

SchedInv == SchedTypeOK /\ BootInv /\ RingInv /\ OneRunning

-----------------------------------------------------------------------------
(* The register files the code writes are register files.                  *)
LEMMA RegsTypes ==
  /\ NoRegs \in Regs
  /\ [NoRegs EXCEPT !.iflag = TRUE] \in Regs
  /\ \A t \in Tasks : FreshRegs(t) \in Regs
  /\ \A t \in Tasks : [FreshRegs(t) EXCEPT !.rax = Marker] \in Regs
  /\ \A r \in Regs : ClearMarker(r) \in Regs
<1> USE TaskCodeAssumption DEF Regs, Points, StackPtr, CodePoint
<1>1. NoRegs \in Regs
  BY DEF NoRegs, NoRip
<1>2. [NoRegs EXCEPT !.iflag = TRUE] \in Regs
  BY <1>1
<1>3. ASSUME NEW t \in Tasks
      PROVE  FreshRegs(t) \in Regs /\ [FreshRegs(t) EXCEPT !.rax = Marker] \in Regs
  <2>1. FreshRegs(t) \in Regs
    BY DEF FreshRegs, Entry
  <2> QED
    BY <2>1
<1>4. ASSUME NEW r \in Regs
      PROVE  ClearMarker(r) \in Regs
  BY DEF ClearMarker
<1> QED
  BY <1>1, <1>2, <1>3, <1>4

(* The walk of create_task finds a last task, and there is only one.       *)
LEMMA LastTaskExists ==
  ASSUME SchedTypeOK, RingInv, boot # "init_kernel_task"
  PROVE  /\ LastTask \in Created
         /\ task[LastTask].next = task_queue
         /\ task[LastTask].pid = next_pid - 1
<1>1. PICK t \in Created : task[t].pid = next_pid - 1
  BY DEF SchedTypeOK, RingInv
<1>2. task[t].next = task_queue
  BY <1>1 DEF SchedTypeOK, RingInv, task_t, Created
<1>3. LastTask \in Created /\ task[LastTask].next = task_queue
  BY <1>2 DEF LastTask
<1>4. task[LastTask].pid + 1 = next_pid
  BY <1>3 DEF SchedTypeOK, RingInv, task_t, Created
<1> QED
  BY <1>3, <1>4 DEF SchedTypeOK, task_t, Created

(* The timer interrupt touches only states and contexts of created tasks,  *)
(* and moves RUNNING along with current_task.                              *)
LEMMA SwitchKeepsInv ==
  ASSUME SchedInv, boot = "running",
         NEW frame \in Regs, schedule_from_interrupt(frame)
  PROVE  SchedInv'
<1> USE DEF SchedInv
<1>1. CASE Switches
  <2> DEFINE c == current_task
             n == NextTask
  <2>1. /\ c \in Created /\ n \in Created /\ n # c
        /\ task[c].state = TASK_RUNNING /\ task[n].state = TASK_READY
    BY <1>1 DEF Switches, NextTask, OneRunning, RingInv, SchedTypeOK,
                Created, Unallocated, TASK_READY, TASK_RUNNING
  <2>2. /\ current_task' = n
        /\ UNCHANGED <<task_queue, next_pid, scheduler_ready, boot>>
        /\ task' \in [Tasks -> task_t]
        /\ \A t \in Tasks : /\ task'[t].pid = task[t].pid
                            /\ task'[t].next = task[t].next
        /\ \A t \in Tasks : task'[t].state = IF t = c THEN TASK_READY
                                             ELSE IF t = n THEN TASK_RUNNING
                                             ELSE task[t].state
    <3> n \in Tasks /\ c \in Tasks
      BY <2>1 DEF Created
    <3>1. task' = [task EXCEPT ![c].context = frame,
                               ![c].state = TASK_READY,
                               ![n].state = TASK_RUNNING,
                               ![n].context = ClearMarker(task[n].context)]
      BY <1>1, <2>1 DEF schedule_from_interrupt, save_interrupt_context,
                        SchedTypeOK
    <3>2. ClearMarker(task[n].context) \in Regs
      BY RegsTypes DEF SchedTypeOK, task_t
    <3>3. /\ task \in [Tasks -> task_t] /\ c # n
          /\ frame \in Regs
      BY <2>1 DEF SchedTypeOK
    <3> HIDE DEF SchedInv, c, n
    <3>4. /\ task'[c] = [task[c] EXCEPT !.context = frame,
                                      !.state = TASK_READY]
          /\ task'[n] = [task[n] EXCEPT !.state = TASK_RUNNING,
                                      !.context = ClearMarker(task[n].context)]
          /\ \A t \in Tasks : t # c /\ t # n => task'[t] = task[t]
          /\ task' = [t \in Tasks |-> task'[t]]
      BY ONLY <3>1, <3>3, n \in Tasks /\ c \in Tasks
    <3>5. /\ task'[c] = [pid |-> task[c].pid, state |-> TASK_READY,
                         context |-> frame, next |-> task[c].next]
          /\ task'[n] = [pid |-> task[n].pid, state |-> TASK_RUNNING,
                         context |-> ClearMarker(task[n].context),
                         next |-> task[n].next]
      <4>1. task[c] \in task_t /\ task[n] \in task_t
        BY <3>3
      <4> QED
        BY ONLY <3>4, <4>1 DEF task_t
    <3>6. \A t \in Tasks :
            /\ task'[t] \in task_t
            /\ task'[t].pid = task[t].pid
            /\ task'[t].next = task[t].next
            /\ task'[t].state = IF t = c THEN TASK_READY
                                ELSE IF t = n THEN TASK_RUNNING
                                ELSE task[t].state
      <4> TAKE t \in Tasks
      <4>1. task[t] \in task_t
        BY <3>3
      <4>2. CASE t = c
        BY ONLY <3>2, <3>3, <3>5, <4>1, <4>2 DEF task_t
      <4>3. CASE t = n
        BY ONLY <3>2, <3>3, <3>5, <4>1, <4>3 DEF task_t
      <4>4. CASE t # c /\ t # n
        BY ONLY <3>4, <4>1, <4>4
      <4> QED
        BY <4>2, <4>3, <4>4
    <3>7. task' \in [Tasks -> task_t]
      BY ONLY <3>4, <3>6
    <3>8. /\ current_task' = n
          /\ UNCHANGED <<task_queue, next_pid, scheduler_ready, boot>>
      BY <1>1 DEF schedule_from_interrupt, n
    <3> QED
      BY ONLY <3>6, <3>7, <3>8
  <2>3. Created' = Created
    BY <2>1, <2>2 DEF Created, Unallocated, TASK_READY, TASK_RUNNING
  <2>4. SchedTypeOK'
    BY <2>1, <2>2 DEF SchedTypeOK, Created
  <2>5. BootInv' /\ RingInv'
    BY <2>2, <2>3 DEF BootInv, RingInv, Created
  <2>6. OneRunning'
    BY <2>1, <2>2, <2>3 DEF OneRunning, Created
  <2> QED
    BY <2>4, <2>5, <2>6
<1>2. CASE ~Switches
  <2>1. UNCHANGED schedVars
    BY <1>2 DEF schedule_from_interrupt, schedVars
  <2> QED
    BY <2>1 DEF schedVars, SchedTypeOK, BootInv, RingInv, OneRunning, Created
<1> QED
  BY <1>1, <1>2

(* A new task goes between the last one and the head.                      *)
LEMMA CreateKeepsInv ==
  ASSUME SchedInv, NEW t \in Tasks, create_task(t)
  PROVE  SchedInv'
<1> USE DEF SchedInv
<1> DEFINE last == LastTask
           new  == [pid |-> next_pid, state |-> TASK_READY,
                    context |-> [FreshRegs(t) EXCEPT !.rax = Marker],
                    next |-> task_queue]
<1>1. /\ boot = "create_task" /\ boot' = boot
      /\ t \notin Created /\ task_queue # Null /\ task_queue \in Created
      /\ UNCHANGED <<task_queue, current_task, scheduler_ready>>
      /\ next_pid' = next_pid + 1
  BY TaskCodeAssumption DEF create_task, RingInv, Created
<1>2. last \in Created /\ task[last].next = task_queue
      /\ task[last].pid = next_pid - 1
  BY <1>1, LastTaskExists
<1>3. task' = [task EXCEPT ![t] = new, ![last].next = t]
  BY <1>1 DEF create_task
<1>4. last \in Tasks /\ last # t
  BY <1>1, <1>2 DEF Created
<1>5. /\ task' \in [Tasks -> task_t]
      /\ task'[t] = new
      /\ \A u \in Tasks \ {t} : /\ task'[u].pid = task[u].pid
                                /\ task'[u].state = task[u].state
                                /\ task'[u].next = IF u = last THEN t
                                                   ELSE task[u].next
  BY <1>1, <1>3, <1>4, RegsTypes DEF SchedTypeOK, task_t, Created
<1>6. Created' = Created \cup {t}
  BY <1>5 DEF Created, TASK_READY, Unallocated
<1>7. SchedTypeOK'
  BY <1>1, <1>5 DEF SchedTypeOK
<1>8. BootInv'
  BY <1>1 DEF BootInv
<1>9. RingInv'
  <2>1. \A u \in Created : task[u].pid \in Nat /\ task[u].pid < next_pid
    BY <1>1 DEF RingInv, SchedTypeOK, task_t, Created
  <2>2. task_queue' \in Created' /\ task'[task_queue'].pid = 0
    BY <1>1, <1>5, <1>6 DEF RingInv, Created
  <2>3. \A u, v \in Created' : task'[u].pid = task'[v].pid => u = v
    BY <1>1, <1>5, <1>6, <2>1 DEF RingInv, Created
  <2>4. \A k \in 0..(next_pid' - 1) : \E u \in Created' : task'[u].pid = k
    <3> SUFFICES ASSUME NEW k \in 0..(next_pid' - 1)
                 PROVE  \E u \in Created' : task'[u].pid = k
      OBVIOUS
    <3>1. CASE k = next_pid
      BY <3>1, <1>5, <1>6
    <3>2. CASE k # next_pid
      <4>1. k \in 0..(next_pid - 1)
        BY <3>2, <1>1 DEF SchedTypeOK
      <4>2. PICK u \in Created : task[u].pid = k
        BY <4>1, <1>1 DEF RingInv
      <4> QED
        BY <4>2, <1>1, <1>5, <1>6 DEF Created
    <3> QED
      BY <3>1, <3>2
  <2>5. ASSUME NEW u \in Created'
        PROVE  /\ task'[u].pid < next_pid'
               /\ task'[u].next \in Created'
               /\ task'[task'[u].next].pid =
                    IF task'[u].pid + 1 = next_pid' THEN 0
                    ELSE task'[u].pid + 1
    <3>1. CASE u = t
      BY <3>1, <1>1, <1>5, <1>6, <2>2 DEF SchedTypeOK
    <3>2. CASE u = last
      BY <3>2, <1>1, <1>2, <1>4, <1>5, <1>6 DEF SchedTypeOK
    <3>3. CASE u # t /\ u # last
      <4>1. u \in Created /\ task'[u].pid = task[u].pid
            /\ task'[u].next = task[u].next
        BY <3>3, <1>5, <1>6 DEF Created
      <4>2. /\ task[u].next \in Created
            /\ task[task[u].next].pid = IF task[u].pid + 1 = next_pid THEN 0
                                        ELSE task[u].pid + 1
        BY <4>1, <1>1 DEF RingInv
      <4>3. task[u].pid # next_pid - 1
        BY <4>1, <3>3, <1>1, <1>2 DEF RingInv
      <4>4. task'[u].pid < next_pid'
        BY <4>1, <2>1, <1>1 DEF SchedTypeOK
      <4>5. /\ task[u].next # t
            /\ task'[u].next \in Created'
        BY <4>1, <4>2, <1>1, <1>6, <2>1 DEF Created
      <4>6. task'[task[u].next].pid = task[task[u].next].pid
        BY <4>2, <4>5, <1>5 DEF Created
      <4>7. task[u].pid + 1 # next_pid
        BY <4>1, <4>3, <2>1, <1>1 DEF SchedTypeOK
      <4>8. task[u].pid + 1 # next_pid'
        BY <4>1, <2>1, <1>1 DEF SchedTypeOK
      <4> QED
        BY <4>1, <4>2, <4>4, <4>5, <4>6, <4>7, <4>8
    <3> QED
      BY <3>1, <3>2, <3>3
  <2> QED
    BY <2>2, <2>3, <2>4, <2>5 DEF RingInv
<1>10. OneRunning'
  <2>1. current_task # t
    BY <1>1 DEF OneRunning
  <2> QED
    BY <2>1, <1>1, <1>5, <1>6 DEF OneRunning, Created
<1> QED
  BY <1>7, <1>8, <1>9, <1>10

-----------------------------------------------------------------------------
(* The globals of sched.cc as they are before KernelMain runs satisfy the  *)
(* invariant.                                                              *)
LEMMA InitInv == SchedInit => SchedInv
<1> SUFFICES ASSUME SchedInit PROVE SchedInv
  OBVIOUS
<1>1. task \in [Tasks -> task_t]
  BY RegsTypes DEF SchedInit, task_t
<1>2. Created = {}
  BY DEF SchedInit, Created
<1>3. SchedTypeOK
  <2>1. scheduler_ready \in BOOLEAN
    BY Zenon DEF SchedInit
  <2>2. /\ current_task \in Tasks \cup {Null} /\ task_queue \in Tasks \cup {Null}
        /\ next_pid \in Nat \ {0} /\ boot \in BootSteps
    BY SMT DEF SchedInit, BootSteps
  <2> QED
    BY <1>1, <2>1, <2>2 DEF SchedTypeOK
<1>4. BootInv /\ RingInv /\ OneRunning
  BY <1>2 DEF SchedInit, BootInv, RingInv, OneRunning
<1> QED
  BY <1>3, <1>4 DEF SchedInv

(* Every call KernelMain makes and every timer interrupt, with whatever    *)
(* frame, preserves the invariant.                                         *)
LEMMA NextInv == SchedInv /\ [SchedNext]_schedVars => SchedInv'
<1> SUFFICES ASSUME SchedInv, [SchedNext]_schedVars
             PROVE  SchedInv'
  OBVIOUS
<1> USE TaskCodeAssumption
<1>1. CASE init_kernel_task
  <2> DEFINE new == [pid |-> 0, state |-> TASK_RUNNING,
                     context |-> [NoRegs EXCEPT !.iflag = TRUE],
                     next |-> init_task]
  <2>1. /\ task' = [task EXCEPT ![init_task] = new]
        /\ new \in task_t /\ task \in [Tasks -> task_t] /\ Created = {}
    BY <1>1, RegsTypes DEF init_kernel_task, SchedInv, SchedTypeOK, BootInv,
                           task_t
  <2>2. Created' = {init_task} /\ task'[init_task] = new
    BY <2>1 DEF Created, TASK_RUNNING, Unallocated
  <2>3. /\ boot' = "set_current_task" /\ task_queue' = init_task
        /\ next_pid' = 1 /\ UNCHANGED <<current_task, scheduler_ready>>
    BY <1>1 DEF init_kernel_task, SchedInv, BootInv
  <2> QED
    BY <2>1, <2>2, <2>3 DEF SchedInv, SchedTypeOK, BootInv, BootSteps,
                            RingInv, OneRunning
<1>2. CASE set_current_task
  <2>1. /\ task' = [task EXCEPT ![init_task].state = TASK_RUNNING]
        /\ Created = {init_task} /\ next_pid = 1
        /\ boot = "set_current_task" /\ boot' = "create_task"
        /\ current_task' = init_task
        /\ UNCHANGED <<task_queue, next_pid, scheduler_ready>>
    BY <1>2 DEF set_current_task, SchedInv, BootInv
  <2>2. /\ task' \in [Tasks -> task_t]
        /\ \A t \in Tasks : /\ task'[t].pid = task[t].pid
                            /\ task'[t].next = task[t].next
                            /\ t # init_task => task'[t].state = task[t].state
        /\ task'[init_task].state = TASK_RUNNING
    BY <2>1 DEF SchedInv, SchedTypeOK, task_t
  <2>3. Created' = Created
    BY <2>1, <2>2 DEF Created, TASK_RUNNING, Unallocated
  <2> QED
    BY <2>1, <2>2, <2>3 DEF SchedInv, SchedTypeOK, BootInv, BootSteps,
                            RingInv, OneRunning
<1>3. ASSUME NEW t \in Tasks, create_task(t)
      PROVE  SchedInv'
  BY <1>3, CreateKeepsInv
<1>4. CASE start_scheduler
  BY <1>4 DEF start_scheduler, SchedInv, SchedTypeOK, BootInv, BootSteps,
              RingInv, OneRunning, Created
<1>5. CASE enable_interrupts
  BY <1>5 DEF enable_interrupts, SchedInv, SchedTypeOK, BootInv, BootSteps,
              RingInv, OneRunning, Created
<1>6. ASSUME boot = "running", NEW frame \in Regs,
             schedule_from_interrupt(frame)
      PROVE  SchedInv'
  BY <1>6, SwitchKeepsInv
<1>7. CASE UNCHANGED schedVars
  BY <1>7 DEF schedVars, SchedInv, SchedTypeOK, BootInv, RingInv, OneRunning,
              Created
<1> QED
  BY <1>1, <1>2, <1>3, <1>4, <1>5, <1>6, <1>7 DEF SchedNext, KernelMain

(* The inductive invariant holds in every state of the scheduler: types,   *)
(* progress of the set-up, the ring and the one RUNNING task together,     *)
(* since linking a task needs the ring and a switch needs all of them.     *)
THEOREM SchedInvariant == SchedSpec => []SchedInv
BY InitInv, NextInv, PTL DEF SchedSpec

(* Type correctness of the scheduler's state.                              *)
THEOREM TypeCorrect == SchedSpec => []SchedTypeOK
BY SchedInvariant, PTL DEF SchedInv

(* The task list is always one ring of all tasks in PID order.             *)
THEOREM RingCorrect == SchedSpec => []RingInv
BY SchedInvariant, PTL DEF SchedInv

(* Exactly current_task is RUNNING, all others are READY.                  *)
THEOREM OneRunningCorrect == SchedSpec => []OneRunning
BY SchedInvariant, PTL DEF SchedInv

-----------------------------------------------------------------------------
(* Preemption.                                                             *)
-----------------------------------------------------------------------------
(* The CPU can resume from r: task code, or the handler's last instruction *)
(* with a slot to pop.                                                     *)
Resumable(r) ==
  /\ r \in Regs
  /\ r.rsp.stack \in Tasks
  /\ r.rip.owner \in Tasks \/ (r.rip = Iretq /\ r.rsp.depth > 0)

BootCpu == [FreshRegs(init_task) EXCEPT !.iflag = FALSE]

StackInv ==
  /\ stack \in [Tasks -> [1..StackDepth -> Regs]]
  /\ \A t \in Tasks : \A d \in 1..StackDepth :
       stack[t][d] = Data \/ Resumable(stack[t][d])

CpuInv ==
  /\ cpu \in Regs
  /\ boot # "running" => cpu = BootCpu
  /\ \/ Resumable(cpu)
     \/ cpu.rip = NoRip /\ ~cpu.iflag
     \/ /\ cpu.rip = Handler /\ ~cpu.iflag
        /\ cpu.rsp.stack \in Tasks /\ cpu.rsp.depth > 0
        /\ Resumable(stack[cpu.rsp.stack][cpu.rsp.depth])

ContextInv ==
  boot \notin {"init_kernel_task", "set_current_task"} =>
    \A t \in Created \ {current_task} : Resumable(task[t].context)

MachineInv ==
  /\ SchedInv
  /\ StackInv
  /\ CpuInv
  /\ ContextInv
  /\ irr \in BOOLEAN
  /\ isr \in BOOLEAN
  /\ nested \in 0..MaxNested

-----------------------------------------------------------------------------
(* Registers the code makes up itself can be resumed: the boot CPU's and a *)
(* new task's. Taking the mark out of rax, or stepping past a hlt, keeps   *)
(* registers resumable.                                                    *)
LEMMA ResumableFacts ==
  /\ BootCpu \in Regs /\ Resumable(BootCpu)
  /\ Data \in Regs
  /\ \A t \in Tasks : Resumable([FreshRegs(t) EXCEPT !.rax = Marker])
  /\ \A r : Resumable(r) => Resumable(ClearMarker(r)) /\ Resumable(Woken(r))
<1> USE TaskCodeAssumption DEF Regs, Points, StackPtr, CodePoint
<1>1. BootCpu \in Regs /\ Resumable(BootCpu)
  <2>1. FreshRegs(init_task) \in Regs
    BY RegsTypes
  <2>2. BootCpu \in Regs
    BY <2>1 DEF BootCpu
  <2> QED
    BY <2>2 DEF BootCpu, FreshRegs, Resumable, Entry
<1>2. Data \in Regs
  BY RegsTypes DEF Data
<1>3. ASSUME NEW t \in Tasks
      PROVE  Resumable([FreshRegs(t) EXCEPT !.rax = Marker])
  BY RegsTypes DEF Resumable, FreshRegs, Entry
<1>4. ASSUME NEW r, Resumable(r)
      PROVE  Resumable(ClearMarker(r))
  BY <1>4 DEF Resumable, ClearMarker
<1>5. ASSUME NEW r, Resumable(r)
      PROVE  Resumable(Woken(r))
  BY <1>5 DEF Resumable, Woken, Iretq, Hlt, Body
<1> QED
  BY <1>1, <1>2, <1>3, <1>4, <1>5

(* Handler and iretq are code of no task, so no task's registers point to  *)
(* the handler.                                                            *)
LEMMA CodePoints ==
  /\ Handler # NoRip /\ Handler # Iretq /\ Iretq # NoRip
  /\ \A r : Resumable(r) => r.rip # NoRip /\ r.rip # Handler
  /\ ~BootCpu.iflag
  /\ BootCpu.rip # Handler /\ BootCpu.rip # Iretq
<1>1. Handler # NoRip /\ Handler # Iretq /\ Iretq # NoRip
  BY DEF Handler, NoRip, Iretq, CodePoint
<1>2. ASSUME NEW r, Resumable(r)
      PROVE  r.rip # NoRip /\ r.rip # Handler
  <2>1. NoRip.owner = Null /\ Handler.owner = Null
    BY DEF NoRip, Handler, CodePoint
  <2> QED
    BY <1>1, <1>2, <2>1, TaskCodeAssumption DEF Resumable
<1>3. ~BootCpu.iflag
  BY DEF BootCpu, FreshRegs
<1>4. BootCpu.rip # Handler /\ BootCpu.rip # Iretq
  BY TaskCodeAssumption
     DEF BootCpu, FreshRegs, Handler, Iretq, CodePoint
<1> QED
  BY <1>1, <1>2, <1>3, <1>4

(* Where the CPU's stack pointer leads, by code point.                     *)
LEMMA CpuFacts ==
  ASSUME MachineInv
  PROVE  /\ cpu \in Regs
         /\ cpu.iflag => Resumable(cpu) /\ boot = "running"
         /\ cpu.rip \in {Handler, Iretq} =>
              /\ boot = "running" /\ cpu.rsp.stack \in Tasks
              /\ cpu.rsp.depth \in 1..StackDepth
              /\ stack[cpu.rsp.stack][cpu.rsp.depth] \in Regs
         /\ cpu.rip = Handler =>
              Resumable(stack[cpu.rsp.stack][cpu.rsp.depth])
<1> USE CodePoints DEF MachineInv, CpuInv
<1>1. cpu.iflag => Resumable(cpu) /\ boot = "running"
  OBVIOUS
<1>2. cpu.rip = Handler => Resumable(stack[cpu.rsp.stack][cpu.rsp.depth])
  OBVIOUS
<1>3. ASSUME cpu.rip \in {Handler, Iretq}
      PROVE  /\ boot = "running" /\ cpu.rsp.stack \in Tasks
             /\ cpu.rsp.depth \in 1..StackDepth
  <2>1. boot = "running"
    BY <1>3
  <2>2. cpu.rsp.stack \in Tasks /\ cpu.rsp.depth > 0
    <3>1. Iretq.owner = Null
      BY DEF Iretq, CodePoint
    <3> QED
      BY <1>3, <3>1, TaskCodeAssumption DEF Resumable
  <2>3. cpu.rsp.depth \in 0..StackDepth
    BY DEF Regs, StackPtr
  <2> QED
    BY <2>1, <2>2, <2>3, TaskCodeAssumption
<1> QED
  BY <1>1, <1>2, <1>3 DEF StackInv

(* A step of task code leaves the task resumable.                          *)
LEMMA ProgramStepFacts ==
  ASSUME NEW r \in Regs, r.rsp.stack \in Tasks, r.rip.owner \in Tasks,
         NEW s \in ProgramSteps(r)
  PROVE  /\ Resumable(s)
         /\ s.rip.owner = r.rip.owner
         /\ s.rsp.stack = r.rsp.stack
         /\ s.rsp.depth <= UserDepth
         /\ r.iflag => s.iflag
<1>1. PICK p \in {Body, Hlt}, d \in 0..UserDepth, v \in RaxVals :
        s = [rip |-> CodePoint(r.rip.owner, p),
             rsp |-> [r.rsp EXCEPT !.depth = d],
             rax |-> v, iflag |-> r.iflag \/ p = Hlt]
  BY DEF ProgramSteps
<1>2. s.rip = [owner |-> r.rip.owner, pc |-> p] /\ s.rip \in Points
  BY <1>1 DEF CodePoint, Points, Body, Hlt, Regs
<1>3. /\ s.rsp \in StackPtr /\ s.rsp.stack = r.rsp.stack
      /\ s.rsp.depth = d
  BY <1>1, TaskCodeAssumption DEF StackPtr, Regs
<1>4. s \in Regs
  BY <1>1, <1>2, <1>3 DEF Regs
<1>5. Resumable(s) /\ s.rip.owner = r.rip.owner
  BY <1>2, <1>3, <1>4 DEF Resumable
<1>6. s.rsp.depth <= UserDepth
  BY <1>3, TaskCodeAssumption
<1>7. r.iflag => s.iflag
  <2>1. s.iflag = (r.iflag \/ p = Hlt)
    BY <1>1, Zenon
  <2> QED
    BY <2>1, Zenon
<1> QED
  BY <1>3, <1>5, <1>6, <1>7

-----------------------------------------------------------------------------
(* What create_task does to the tasks there are, and what the new one      *)
(* finds in its context.                                                   *)
LEMMA CreateFacts ==
  ASSUME SchedInv, NEW t \in Tasks, create_task(t)
  PROVE  /\ boot = "create_task" /\ boot' = boot /\ t \notin Created
         /\ current_task' = current_task /\ next_pid' = next_pid + 1
         /\ Created' = Created \cup {t}
         /\ task'[t].pid = next_pid
         /\ task'[t].context = [FreshRegs(t) EXCEPT !.rax = Marker]
         /\ \A u \in Created : /\ task'[u].context = task[u].context
                               /\ task'[u].pid = task[u].pid
<1> USE DEF SchedInv
<1>1. /\ boot = "create_task" /\ boot' = boot /\ t \notin Created
      /\ task_queue # Null /\ LastTask \in Created
      /\ current_task' = current_task /\ next_pid' = next_pid + 1
  BY LastTaskExists, TaskCodeAssumption DEF create_task, RingInv, Created
<1>2. LastTask \in Tasks /\ LastTask # t
  BY <1>1 DEF Created
<1>3. /\ task'[t].context = [FreshRegs(t) EXCEPT !.rax = Marker]
      /\ task'[t].pid = next_pid /\ task'[t].state = TASK_READY
  BY <1>1, <1>2 DEF create_task, SchedTypeOK
<1>4. \A u \in Tasks \ {t} : /\ task'[u].context = task[u].context
                             /\ task'[u].pid = task[u].pid
                             /\ task'[u].state = task[u].state
  BY <1>1, <1>2 DEF create_task, SchedTypeOK, task_t
<1>5. Created' = Created \cup {t}
  BY <1>3, <1>4 DEF Created, TASK_READY, Unallocated
<1> QED
  BY <1>1, <1>3, <1>4, <1>5 DEF Created

(* A switch leaves the PIDs alone.                                         *)
LEMMA SwitchKeepsPids ==
  ASSUME SchedInv, NEW frame, schedule_from_interrupt(frame)
  PROVE  \A t \in Tasks : task'[t].pid = task[t].pid
BY DEF SchedInv, SchedTypeOK, task_t, schedule_from_interrupt, save_interrupt_context

(* The scheduler's part of a step, and its frame: which of the created     *)
(* tasks keep the context they had.                                        *)
LEMMA BootStepFacts ==
  ASSUME MachineInv, KernelMain
  PROVE  /\ SchedInv' /\ ContextInv'
         /\ boot # "running"
<1> USE DEF MachineInv
<1>1. SchedInv'
  BY NextInv DEF SchedNext
<1>2. boot # "running"
  BY DEF KernelMain, init_kernel_task, set_current_task, create_task,
         start_scheduler, enable_interrupts
<1>3. ContextInv'
  <2>1. CASE init_kernel_task
    BY <2>1 DEF init_kernel_task, ContextInv
  <2>2. CASE set_current_task
    <3>1. Created = {init_task} /\ current_task' = init_task
          /\ task' = [task EXCEPT ![init_task].state = TASK_RUNNING]
      BY <2>2 DEF set_current_task, SchedInv, BootInv
    <3>2. Created' \subseteq {init_task}
      BY <3>1 DEF SchedInv, SchedTypeOK, Created
    <3> QED
      BY <3>1, <3>2 DEF ContextInv
  <2>3. ASSUME NEW t \in Tasks, create_task(t)
        PROVE  ContextInv'
    <3>1. /\ boot = "create_task" /\ current_task' = current_task
          /\ Created' = Created \cup {t}
          /\ task'[t].context = [FreshRegs(t) EXCEPT !.rax = Marker]
          /\ \A u \in Created : task'[u].context = task[u].context
      BY <2>3, CreateFacts
    <3> QED
      BY <2>3, <3>1, ResumableFacts DEF ContextInv, Created
  <2>4. CASE start_scheduler
    BY <2>4 DEF start_scheduler, ContextInv, Created
  <2>5. CASE enable_interrupts
    BY <2>5 DEF enable_interrupts, ContextInv, Created
  <2> QED
    BY <2>1, <2>2, <2>3, <2>4, <2>5 DEF KernelMain
<1> QED
  BY <1>1, <1>2, <1>3

(* What schedule_from_interrupt does to the contexts and to the frame.     *)
LEMMA SwitchFacts ==
  ASSUME SchedInv, boot = "running",
         NEW frame \in Regs, schedule_from_interrupt(frame)
  PROVE  /\ SchedInv'
         /\ Created' = Created /\ boot' = boot
         /\ current_task \in Created /\ current_task' \in Created
         /\ \A t \in Created \ {current_task, current_task'} :
              task'[t].context = task[t].context
         /\ \/ /\ current_task' = current_task
               /\ restore_interrupt_context(frame) = frame
            \/ /\ current_task' # current_task
               /\ current_task' = NextTask
               /\ task'[current_task].context = frame
               /\ restore_interrupt_context(frame) =
                    ClearMarker(task[current_task'].context)
<1> USE DEF SchedInv
<1>1. SchedInv' /\ boot' = boot /\ current_task \in Created
  BY SwitchKeepsInv DEF schedule_from_interrupt, OneRunning
<1>2. CASE Switches
  <2>1. /\ NextTask \in Created /\ NextTask # current_task
        /\ current_task \in Tasks /\ NextTask \in Tasks
        /\ current_task' = NextTask
    BY <1>1, <1>2 DEF Switches, NextTask, RingInv, SchedTypeOK, Created,
                      schedule_from_interrupt
  <2>2. /\ \A t \in Tasks \ {current_task, NextTask} : task'[t] = task[t]
        /\ task'[current_task].context = frame
        /\ task'[current_task].state = TASK_READY
        /\ task'[NextTask].state = TASK_RUNNING
    BY <1>2, <2>1 DEF schedule_from_interrupt, save_interrupt_context,
                      SchedTypeOK, task_t
  <2>3. Created' = Created
    <3>1. \A t \in Tasks : task'[t].state # Unallocated
                            <=> task[t].state # Unallocated
      <4> SUFFICES ASSUME NEW t \in Tasks
                   PROVE  task'[t].state # Unallocated
                            <=> task[t].state # Unallocated
        OBVIOUS
      <4>1. CASE t \in {current_task, NextTask}
        <5>1. task[t].state # Unallocated
          BY <4>1, <1>1, <2>1 DEF Created
        <5>2. task'[t].state \in {TASK_READY, TASK_RUNNING}
          BY <4>1, <2>2
        <5> QED
          BY <5>1, <5>2 DEF TASK_READY, TASK_RUNNING, Unallocated
      <4>2. CASE t \notin {current_task, NextTask}
        BY <4>2, <2>2
      <4> QED
        BY <4>1, <4>2
    <3> QED
      BY <3>1 DEF Created
  <2> QED
    BY <1>1, <1>2, <2>1, <2>2, <2>3 DEF Created, restore_interrupt_context
<1>3. CASE ~Switches
  BY <1>1, <1>3 DEF schedule_from_interrupt, restore_interrupt_context, Created
<1> QED
  BY <1>2, <1>3

(* The machine at the start of KernelMain satisfies the invariant.         *)
LEMMA MachineInit == Init => MachineInv
<1> SUFFICES ASSUME Init PROVE MachineInv
  OBVIOUS
<1>1. SchedInv
  BY InitInv DEF Init
<1>2. StackInv
  BY ResumableFacts, TaskCodeAssumption DEF Init, StackInv
<1>3. CpuInv /\ ContextInv
  BY ResumableFacts DEF Init, SchedInit, CpuInv, ContextInv, BootCpu
<1>4. irr = FALSE /\ isr = FALSE /\ nested = 0
  BY DEF Init
<1>5. 0 \in 0..MaxNested
  BY TaskSwitchAssumption
<1> QED
  BY <1>1, <1>2, <1>3, <1>4, <1>5 DEF MachineInv

(* The set-up calls of KernelMain preserve the invariant.                  *)
LEMMA MachineBoot ==
  ASSUME MachineInv, Boot(KernelMain)
  PROVE  MachineInv'
<1> USE DEF MachineInv
<1>1. SchedInv' /\ ContextInv' /\ boot # "running"
  BY BootStepFacts DEF Boot
<1>2. UNCHANGED <<stack, irr, isr, nested>>
  BY DEF Boot
<1>3. cpu = BootCpu
  BY <1>1 DEF CpuInv
<1>4. CASE boot' = "running"
  <2>1. cpu' = [BootCpu EXCEPT !.iflag = TRUE]
    BY <1>3, <1>4 DEF Boot
  <2>2. cpu' \in Regs /\ Resumable(cpu')
    BY <2>1, ResumableFacts DEF Resumable, Regs
  <2> QED
    BY <1>1, <1>2, <1>4, <2>2 DEF CpuInv, StackInv
<1>5. CASE boot' # "running"
  <2>1. cpu' = cpu
    BY <1>5 DEF Boot
  <2> QED
    BY <1>1, <1>2, <1>3, <2>1, ResumableFacts DEF CpuInv, StackInv
<1> QED
  BY <1>4, <1>5

(* What does not touch the scheduler's variables keeps what it relies on.  *)
LEMMA SchedKeeps ==
  ASSUME SchedInv, ContextInv, UNCHANGED schedVars
  PROVE  SchedInv' /\ ContextInv'
<1>1. SchedInv'
  BY DEF schedVars, SchedInv, SchedTypeOK, BootInv, RingInv, OneRunning, Created
<1>2. ContextInv'
  BY DEF schedVars, ContextInv, Created
<1> QED
  BY <1>1, <1>2

(* Task code preserves it: it writes plain data on a task's stack and none *)
(* of the scheduler's state.                                               *)
LEMMA MachineTaskStep ==
  ASSUME MachineInv, TaskStep
  PROVE  MachineInv'
<1> USE DEF MachineInv
<1>1. /\ UNCHANGED <<schedVars, irr, isr, nested>> /\ boot = "running"
      /\ cpu.rip.owner \in Tasks /\ cpu' \in ProgramSteps(cpu)
  BY DEF TaskStep
<1>2. cpu \in Regs /\ cpu.rsp.stack \in Tasks
  BY <1>1, TaskCodeAssumption
     DEF CpuInv, Resumable, NoRip, Handler, CodePoint
<1>3. Resumable(cpu')
  BY <1>1, <1>2, ProgramStepFacts
<1>4. StackInv'
  <2> DEFINE s == cpu.rsp.stack
             new == [d \in 1..StackDepth |->
                       IF cpu.rsp.depth < d /\ d <= cpu'.rsp.depth
                       THEN Data ELSE stack[s][d]]
  <2>1. stack' = [stack EXCEPT ![s] = new]
    BY <1>2 DEF TaskStep, StackInv
  <2>2. \A d \in 1..StackDepth : new[d] = Data \/ new[d] = stack[s][d]
    OBVIOUS
  <2>3. /\ new \in [1..StackDepth -> Regs]
        /\ \A d \in 1..StackDepth : new[d] = Data \/ Resumable(new[d])
    BY <1>2, <2>2, ResumableFacts DEF StackInv
  <2> HIDE DEF new
  <2> QED
    BY <1>2, <2>1, <2>3 DEF StackInv
<1>5. CpuInv'
  BY <1>1, <1>3 DEF CpuInv, Resumable, schedVars
<1> QED
  BY <1>1, <1>4, <1>5, SchedKeeps

(* A tick only becomes pending.                                            *)
LEMMA MachineTimerFire ==
  ASSUME MachineInv, TimerFire
  PROVE  MachineInv'
<1> USE DEF MachineInv
<1>1. UNCHANGED <<schedVars, cpu, stack, isr, nested>> /\ irr' \in BOOLEAN
  BY DEF TimerFire
<1>2. StackInv' /\ CpuInv'
  BY <1>1 DEF StackInv, CpuInv, schedVars
<1> QED
  BY <1>1, <1>2, SchedKeeps

(* The frame the CPU pushes is resumable, whether a task was interrupted   *)
(* or a handler on its way out.                                            *)
LEMMA MachineInterrupt ==
  ASSUME MachineInv, Interrupt
  PROVE  MachineInv'
<1> USE DEF MachineInv
<1> DEFINE s   == cpu.rsp.stack
           top == cpu.rsp.depth + 1
<1>1. Resumable(cpu) /\ boot = "running"
  BY CpuFacts DEF Interrupt
<1>2. cpu \in Regs /\ s \in Tasks /\ top \in 1..StackDepth
  BY <1>1, TaskCodeAssumption DEF Interrupt, CpuInv, Resumable, Regs, StackPtr
<1>3. /\ stack' = [stack EXCEPT ![s][top] = Woken(cpu)]
      /\ cpu' = [cpu EXCEPT !.rip = Handler, !.rsp.depth = top,
                            !.iflag = FALSE]
      /\ irr' = FALSE /\ isr' = TRUE /\ nested' \in 0..MaxNested
      /\ UNCHANGED schedVars
  BY TaskSwitchAssumption DEF Interrupt
<1>4. Resumable(Woken(cpu)) /\ Woken(cpu) \in Regs
  BY <1>1, ResumableFacts DEF Resumable
<1>5. StackInv' /\ stack'[s][top] = Woken(cpu)
  BY <1>2, <1>3, <1>4 DEF StackInv
<1>6. /\ cpu'.rip = Handler /\ ~cpu'.iflag /\ cpu'.rsp.stack = s
      /\ cpu'.rsp.depth = top /\ cpu' \in Regs
  <2>1. Handler \in Points /\ top \in 0..StackDepth
    BY <1>2, TaskCodeAssumption DEF Handler, CodePoint, Points
  <2>2. cpu' = [rip |-> Handler, rsp |-> [cpu.rsp EXCEPT !.depth = top],
                rax |-> cpu.rax, iflag |-> FALSE]
    BY <1>2, <1>3 DEF Regs
  <2>3. /\ [cpu.rsp EXCEPT !.depth = top] \in StackPtr
        /\ [cpu.rsp EXCEPT !.depth = top].stack = s
        /\ [cpu.rsp EXCEPT !.depth = top].depth = top
    BY <1>2, <2>1 DEF Regs, StackPtr
  <2> QED
    BY <1>2, <2>1, <2>2, <2>3 DEF Regs
<1>7. CpuInv'
  BY <1>1, <1>2, <1>3, <1>4, <1>5, <1>6 DEF CpuInv, schedVars
<1> QED
  BY <1>3, <1>5, <1>7, SchedKeeps

(* The handler runs only after the set-up and exchanges one resumable      *)
(* frame for another.                                                      *)
LEMMA MachineHandler ==
  ASSUME MachineInv, lapic_timer_handler
  PROVE  MachineInv' /\ boot = "running"
<1> USE DEF MachineInv
<1> DEFINE s     == cpu.rsp.stack
           d     == cpu.rsp.depth
           frame == stack[s][d]
           after == restore_interrupt_context(frame)
<1>1. /\ s \in Tasks /\ d \in 1..StackDepth /\ cpu \in Regs
      /\ Resumable(frame) /\ boot = "running"
  BY CpuFacts DEF lapic_timer_handler
<1>2. /\ schedule_from_interrupt(frame)
      /\ stack' = [stack EXCEPT ![s][d] = after]
      /\ cpu' = [cpu EXCEPT !.rip = Iretq, !.rax = after.rax, !.iflag = TRUE]
      /\ isr' = FALSE /\ irr' = irr /\ nested' = nested
  BY DEF lapic_timer_handler
<1>3. frame \in Regs
  BY <1>1 DEF Resumable
<1> HIDE DEF frame
<1>4. /\ SchedInv'
      /\ Created' = Created /\ boot' = boot
      /\ current_task \in Created /\ current_task' \in Created
      /\ \A t \in Created \ {current_task, current_task'} :
           task'[t].context = task[t].context
      /\ \/ current_task' = current_task /\ after = frame
         \/ /\ current_task' # current_task
            /\ task'[current_task].context = frame
            /\ after = ClearMarker(task[current_task'].context)
  BY <1>1, <1>2, <1>3, SwitchFacts
<1> HIDE DEF after
<1>5. Resumable(after)
  BY <1>1, <1>4, ResumableFacts DEF ContextInv
<1>6. ContextInv'
  BY <1>1, <1>4 DEF ContextInv
<1>7. StackInv'
  BY <1>1, <1>2, <1>5 DEF StackInv, Resumable
<1>8. cpu' \in Regs /\ Resumable(cpu')
  <2>1. cpu' = [rip |-> Iretq, rsp |-> cpu.rsp, rax |-> after.rax,
                iflag |-> TRUE]
    BY <1>1, <1>2 DEF Regs
  <2>2. Iretq \in Points
    BY DEF Iretq, CodePoint, Points
  <2>3. after.rax \in RaxVals \cup {Marker}
    BY <1>5 DEF Resumable, Regs
  <2>4. cpu.rsp \in StackPtr /\ cpu.rsp.depth > 0
    BY <1>1 DEF Regs
  <2> QED
    BY <1>1, <2>1, <2>2, <2>3, <2>4 DEF Resumable, Regs
<1> QED
  BY <1>1, <1>2, <1>4, <1>6, <1>7, <1>8 DEF CpuInv

(* What iretq pops, a frame or data that overwrote it, leaves the CPU in a *)
(* state the invariant describes.                                          *)
LEMMA MachineIretq ==
  ASSUME MachineInv, iretq
  PROVE  MachineInv'
<1> USE DEF MachineInv
<1> DEFINE s     == cpu.rsp.stack
           d     == cpu.rsp.depth
           frame == stack[s][d]
<1>1. /\ s \in Tasks /\ d \in 1..StackDepth /\ cpu \in Regs
      /\ boot = "running"
  BY CpuFacts DEF iretq
<1>2. /\ cpu' = [frame EXCEPT !.rax = cpu.rax]
      /\ stack' = stack \/ stack' = [stack EXCEPT ![s][d] = Data]
      /\ UNCHANGED <<schedVars, irr, isr, nested>>
  BY DEF iretq
<1>3. frame \in Regs /\ (frame = Data \/ Resumable(frame))
  BY <1>1 DEF StackInv
<1> HIDE DEF frame
<1>4. cpu' \in Regs /\ cpu'.rip = frame.rip /\ cpu'.rsp = frame.rsp
      /\ cpu'.iflag = frame.iflag
  BY <1>1, <1>2, <1>3 DEF Regs
<1>5. \/ Resumable(cpu')
      \/ cpu'.rip = NoRip /\ ~cpu'.iflag
  BY <1>3, <1>4 DEF Resumable, Data, NoRegs
<1>6. CpuInv'
  BY <1>1, <1>2, <1>4, <1>5 DEF CpuInv, schedVars
<1>7. StackInv'
  <2>1. /\ stack \in [Tasks -> [1..StackDepth -> Regs]] /\ Data \in Regs
        /\ \A t \in Tasks : \A k \in 1..StackDepth :
             stack[t][k] = Data \/ Resumable(stack[t][k])
    BY ResumableFacts DEF StackInv
  <2>2. stack' \in [Tasks -> [1..StackDepth -> Regs]]
    <3>1. CASE stack' = stack
      BY ONLY <2>1, <3>1
    <3>2. CASE stack' = [stack EXCEPT ![s][d] = Data]
      <4>1. [stack[s] EXCEPT ![d] = Data] \in [1..StackDepth -> Regs]
        BY ONLY <1>1, <2>1
      <4>2. stack' = [stack EXCEPT ![s] = [stack[s] EXCEPT ![d] = Data]]
        BY ONLY <3>2
      <4> QED
        BY ONLY <1>1, <2>1, <4>1, <4>2
    <3> QED
      BY <1>2, <3>1, <3>2
  <2>3. \A t \in Tasks : \A k \in 1..StackDepth :
          stack'[t][k] = Data \/ stack'[t][k] = stack[t][k]
    <3>1. CASE stack' = stack
      BY ONLY <3>1
    <3>2. CASE stack' = [stack EXCEPT ![s][d] = Data]
      BY ONLY <1>1, <2>1, <3>2
    <3> QED
      BY <1>2, <3>1, <3>2
  <2> QED
    BY <2>1, <2>2, <2>3 DEF StackInv
<1> QED
  BY <1>2, <1>6, <1>7, SchedKeeps

(* Every step preserves the invariant.                                     *)
LEMMA MachineNext == MachineInv /\ [Next]_vars => MachineInv'
<1> SUFFICES ASSUME MachineInv, [Next]_vars
             PROVE  MachineInv'
  OBVIOUS
<1>1. CASE UNCHANGED vars
  BY <1>1 DEF vars, hwVars, schedVars, MachineInv, SchedInv, SchedTypeOK,
              BootInv, RingInv, OneRunning, StackInv, CpuInv, ContextInv,
              Created
<1>2. ASSUME Boot(init_kernel_task) \/ Boot(set_current_task)
             \/ (\E t \in Tasks : Boot(create_task(t)))
             \/ Boot(start_scheduler) \/ Boot(enable_interrupts)
      PROVE  Boot(KernelMain)
  BY <1>2 DEF Boot, KernelMain
<1> QED
  BY <1>1, <1>2, MachineBoot, MachineTaskStep, MachineTimerFire,
     MachineInterrupt, MachineHandler, MachineIretq DEF Next

(* The invariant holds in every state, also when ticks nest in the         *)
(* handler.                                                                *)
THEOREM MachineInvariant == Spec => []MachineInv
BY MachineInit, MachineNext, PTL DEF Spec

(* Every variable keeps its type, in any environment.                      *)
THEOREM TypesCorrect == Spec => []TypeOK
<1>1. MachineInv => TypeOK
  BY DEF MachineInv, SchedInv, StackInv, CpuInv, TypeOK
<1> QED
  BY <1>1, MachineInvariant, PTL

(* The machine changes the scheduler's state only by steps of Sched, so    *)
(* every property of SchedSpec holds of the running kernel.                *)
THEOREM ImplementsSched == Spec => SchedSpec
<1>1. Init => SchedInit
  BY DEF Init
<1>2. MachineInv /\ [Next]_vars => [SchedNext]_schedVars
  <2> SUFFICES ASSUME MachineInv, Next
               PROVE  [SchedNext]_schedVars
    BY DEF vars
  <2>1. CASE lapic_timer_handler
    <3>1. boot = "running"
      BY <2>1, MachineHandler
    <3>2. stack[cpu.rsp.stack][cpu.rsp.depth] \in Regs
      BY <2>1, CpuFacts DEF lapic_timer_handler
    <3> QED
      BY <2>1, <3>1, <3>2 DEF lapic_timer_handler, SchedNext
  <2>2. CASE TaskStep \/ TimerFire \/ Interrupt \/ iretq
    BY <2>2 DEF TaskStep, TimerFire, Interrupt, iretq
  <2>3. CASE Boot(init_kernel_task) \/ Boot(set_current_task)
             \/ (\E t \in Tasks : Boot(create_task(t)))
             \/ Boot(start_scheduler) \/ Boot(enable_interrupts)
    BY <2>3 DEF Boot, SchedNext, KernelMain
  <2> QED
    BY <2>1, <2>2, <2>3 DEF Next
<1> QED
  BY <1>1, <1>2, MachineInvariant, PTL DEF Spec, SchedSpec

(* In the running kernel the task list stays one ring in PID order.        *)
THEOREM RingHolds == Spec => []RingInv
BY ImplementsSched, RingCorrect, PTL

(* In the running kernel exactly current_task is RUNNING.                  *)
THEOREM OneRunningHolds == Spec => []OneRunning
BY ImplementsSched, OneRunningCorrect, PTL

-----------------------------------------------------------------------------
(* How deep stacks get.                                                    *)

(* Registers that were saved lie above no frame, except those of a handler *)
(* on its way out, which lie above one for every nested tick at most.      *)
Shallow(r, n) == r.rsp.depth <= UserDepth + (IF r.rip = Iretq THEN n ELSE 0)

DeepInv ==
  /\ boot \notin {"init_kernel_task", "set_current_task"} =>
       \A t \in Created \ {current_task} : Shallow(task[t].context, nested)
  /\ \A t \in Tasks : \A d \in 1..StackDepth : Shallow(stack[t][d], nested)
  /\ cpu.rip \in {Handler, Iretq} => cpu.rsp.depth <= UserDepth + 1 + nested
  /\ cpu.rip \notin {Handler, Iretq} => cpu.rsp.depth <= UserDepth

(* New registers and plain data are shallow, and neither the mark in rax   *)
(* nor more nested ticks change what is.                                   *)
LEMMA ShallowFacts ==
  ASSUME NEW n \in Nat, NEW m \in Nat, n <= m
  PROVE  /\ Shallow(Data, n)
         /\ \A t \in Tasks : Shallow([FreshRegs(t) EXCEPT !.rax = Marker], n)
         /\ \A r \in Regs : Shallow(r, n) => /\ Shallow(ClearMarker(r), n)
                                            /\ Shallow(r, m)
<1>1. Shallow(Data, n)
  BY TaskCodeAssumption DEF Shallow, Data, NoRegs
<1>2. ASSUME NEW t \in Tasks
      PROVE  Shallow([FreshRegs(t) EXCEPT !.rax = Marker], n)
  BY TaskCodeAssumption DEF Shallow, FreshRegs
<1>3. ASSUME NEW r \in Regs, Shallow(r, n)
      PROVE  Shallow(ClearMarker(r), n) /\ Shallow(r, m)
  <2>1. /\ ClearMarker(r).rip = r.rip /\ ClearMarker(r).rsp = r.rsp
        /\ r.rsp.depth \in Nat /\ UserDepth \in Nat
    BY TaskCodeAssumption DEF ClearMarker, Regs, StackPtr
  <2> QED
    BY <1>3, <2>1 DEF Shallow
<1> QED
  BY <1>1, <1>2, <1>3

(* Ticks only add to the count, and nothing else changes it.               *)
LEMMA NestedGrows ==
  ASSUME MachineInv, [Next]_vars
  PROVE  nested \in Nat /\ nested' \in Nat /\ nested <= nested'
<1>1. nested \in Nat
  BY DEF MachineInv
<1> QED
  BY <1>1 DEF Next, vars, Boot, TaskStep, TimerFire, Interrupt, lapic_timer_handler, iretq

(* KernelMain runs on an empty stack and files fresh registers.            *)
LEMMA DeepBoot ==
  ASSUME MachineInv, DeepInv, Boot(KernelMain)
  PROVE  DeepInv'
<1> USE DEF MachineInv
<1>1. /\ boot # "running" /\ cpu = BootCpu
      /\ nested' = nested /\ stack' = stack /\ nested \in Nat
  BY BootStepFacts DEF Boot, CpuInv
<1>2. boot' \notin {"init_kernel_task", "set_current_task"} =>
        \A t \in Created' \ {current_task'} : Shallow(task'[t].context, nested)
  <2>1. CASE init_kernel_task
    BY <2>1 DEF init_kernel_task
  <2>2. CASE set_current_task
    <3>1. Created = {init_task} /\ current_task' = init_task
          /\ task' = [task EXCEPT ![init_task].state = TASK_RUNNING]
      BY <2>2 DEF set_current_task, SchedInv, BootInv
    <3>2. Created' \subseteq {init_task}
      BY <3>1 DEF SchedInv, SchedTypeOK, Created
    <3> QED
      BY <3>1, <3>2
  <2>3. ASSUME NEW t \in Tasks, create_task(t)
        PROVE  \A u \in Created' \ {current_task'} : Shallow(task'[u].context, nested)
    <3>1. /\ boot = "create_task" /\ current_task' = current_task
          /\ Created' = Created \cup {t}
          /\ task'[t].context = [FreshRegs(t) EXCEPT !.rax = Marker]
          /\ \A u \in Created : task'[u].context = task[u].context
      BY <2>3, CreateFacts
    <3>2. Shallow(task'[t].context, nested)
      BY <1>1, <3>1, ShallowFacts
    <3> QED
      BY <3>1, <3>2 DEF DeepInv
  <2>4. CASE start_scheduler
    BY <2>4 DEF start_scheduler, DeepInv, Created
  <2>5. CASE enable_interrupts
    BY <2>5 DEF enable_interrupts, DeepInv, Created
  <2> QED
    BY <2>1, <2>2, <2>3, <2>4, <2>5 DEF Boot, KernelMain
<1>3. cpu'.rip \notin {Handler, Iretq} /\ cpu'.rsp.depth <= UserDepth
  <2>1. cpu' = BootCpu \/ cpu' = [BootCpu EXCEPT !.iflag = TRUE]
    BY <1>1 DEF Boot
  <2>2. BootCpu.rsp.depth = 0
    BY DEF BootCpu, FreshRegs
  <2>3. cpu'.rip = BootCpu.rip /\ cpu'.rsp = BootCpu.rsp
    BY <2>1, ResumableFacts DEF Regs
  <2> QED
    BY <2>2, <2>3, CodePoints, TaskCodeAssumption
<1> QED
  BY <1>1, <1>2, <1>3 DEF DeepInv

(* The frame goes on top of what is there; if that is another frame, the   *)
(* tick is counted.                                                        *)
LEMMA DeepInterrupt ==
  ASSUME MachineInv, DeepInv, Interrupt
  PROVE  DeepInv'
<1> USE DEF MachineInv
<1> DEFINE s   == cpu.rsp.stack
           top == cpu.rsp.depth + 1
<1>1. /\ Resumable(cpu) /\ cpu \in Regs /\ top \in 1..StackDepth
      /\ cpu.rsp.depth \in Nat /\ UserDepth \in Nat /\ nested \in Nat
  BY CpuFacts, TaskCodeAssumption DEF Interrupt, Regs, StackPtr
<1>2. /\ stack' = [stack EXCEPT ![s][top] = Woken(cpu)]
      /\ cpu' = [cpu EXCEPT !.rip = Handler, !.rsp.depth = top,
                            !.iflag = FALSE]
      /\ nested' = IF cpu.rip = Iretq THEN nested + 1 ELSE nested
      /\ UNCHANGED schedVars
  BY DEF Interrupt
<1>3. nested' \in Nat /\ nested <= nested'
  BY <1>1, <1>2
<1>4. Shallow(Woken(cpu), nested')
  <2>1. Woken(cpu).rsp = cpu.rsp /\ (Woken(cpu).rip = Iretq <=> cpu.rip = Iretq)
    BY <1>1, TaskCodeAssumption DEF Woken, Regs, Points, Iretq, CodePoint, Hlt, Body
  <2>2. cpu.rip = Iretq => cpu.rsp.depth <= UserDepth + 1 + nested
    BY DEF DeepInv
  <2>3. cpu.rip # Iretq => cpu.rsp.depth <= UserDepth
    BY <1>1, CodePoints DEF DeepInv
  <2> QED
    BY <1>1, <1>2, <2>1, <2>2, <2>3 DEF Shallow
<1>5. ASSUME NEW t \in Tasks, NEW d \in 1..StackDepth
      PROVE  Shallow(stack'[t][d], nested')
  <2>1. stack'[t][d] = stack[t][d] \/ stack'[t][d] = Woken(cpu)
    BY <1>1, <1>2 DEF StackInv
  <2>2. Shallow(stack[t][d], nested) /\ stack[t][d] \in Regs
    BY DEF DeepInv, StackInv
  <2> QED
    BY <1>1, <1>3, <1>4, <2>1, <2>2, ShallowFacts
<1>6. cpu'.rip = Handler /\ cpu'.rsp.depth = top
  BY <1>1, <1>2 DEF Regs, StackPtr
<1>7. top <= UserDepth + 1 + nested'
  <2>1. cpu.rip # Handler
    BY <1>1, CodePoints
  <2> QED
    BY <1>1, <1>2, <2>1 DEF DeepInv
<1>8. ASSUME boot \notin {"init_kernel_task", "set_current_task"},
             NEW t \in Created \ {current_task}
      PROVE  Shallow(task[t].context, nested')
  <2>1. task[t].context \in Regs /\ Shallow(task[t].context, nested)
    BY <1>8 DEF DeepInv, ContextInv, Resumable
  <2> QED
    BY <1>1, <1>3, <2>1, ShallowFacts
<1> QED
  BY <1>2, <1>5, <1>6, <1>7, <1>8 DEF DeepInv, schedVars, Created

(* The handler exchanges one saved register file for another.              *)
LEMMA DeepHandler ==
  ASSUME MachineInv, DeepInv, lapic_timer_handler
  PROVE  DeepInv'
<1> USE DEF MachineInv
<1> DEFINE s     == cpu.rsp.stack
           d     == cpu.rsp.depth
           frame == stack[s][d]
           after == restore_interrupt_context(frame)
<1>1. /\ s \in Tasks /\ d \in 1..StackDepth /\ cpu \in Regs
      /\ frame \in Regs /\ boot = "running" /\ cpu.rip = Handler /\ nested \in Nat
  BY CpuFacts DEF lapic_timer_handler
<1>2. /\ schedule_from_interrupt(frame)
      /\ stack' = [stack EXCEPT ![s][d] = after]
      /\ cpu' = [cpu EXCEPT !.rip = Iretq, !.rax = after.rax, !.iflag = TRUE]
      /\ nested' = nested
  BY DEF lapic_timer_handler
<1>3. Shallow(frame, nested) /\ d <= UserDepth + 1 + nested
  BY <1>1 DEF DeepInv
<1>4. stack \in [Tasks -> [1..StackDepth -> Regs]]
  BY DEF StackInv
<1> HIDE DEF frame
<1>5. /\ Created' = Created /\ boot' = boot
      /\ current_task \in Created /\ current_task' \in Created
      /\ \A t \in Created \ {current_task, current_task'} :
           task'[t].context = task[t].context
      /\ \/ current_task' = current_task /\ after = frame
         \/ /\ current_task' # current_task
            /\ task'[current_task].context = frame
            /\ after = ClearMarker(task[current_task'].context)
  BY <1>1, <1>2, SwitchFacts
<1> HIDE DEF after
<1>6. Shallow(after, nested)
  <2>1. CASE current_task' = current_task
    BY <1>3, <1>5, <2>1
  <2>2. CASE current_task' # current_task
    <3>1. /\ task[current_task'].context \in Regs
          /\ Shallow(task[current_task'].context, nested)
      BY <1>1, <1>5, <2>2 DEF DeepInv, ContextInv, Resumable
    <3> QED
      BY <1>1, <1>5, <2>2, <3>1, ShallowFacts
  <2> QED
    BY <2>1, <2>2
<1>7. ASSUME NEW t \in Tasks, NEW k \in 1..StackDepth
      PROVE  Shallow(stack'[t][k], nested)
  <2>1. stack'[t][k] = stack[t][k] \/ stack'[t][k] = after
    BY <1>1, <1>2, <1>4
  <2> QED
    BY <1>6, <2>1 DEF DeepInv
<1>8. cpu'.rip = Iretq /\ cpu'.rsp = cpu.rsp
  BY <1>1, <1>2 DEF Regs
<1>9. \A t \in Created' \ {current_task'} : Shallow(task'[t].context, nested)
  BY <1>1, <1>3, <1>5 DEF DeepInv
<1> QED
  BY <1>2, <1>3, <1>7, <1>8, <1>9 DEF DeepInv

LEMMA DeepIretq ==
  ASSUME MachineInv, DeepInv, iretq
  PROVE  DeepInv'
<1> USE DEF MachineInv
<1> DEFINE s     == cpu.rsp.stack
           d     == cpu.rsp.depth
           frame == stack[s][d]
<1>1. /\ s \in Tasks /\ d \in 1..StackDepth /\ cpu \in Regs /\ nested \in Nat
  BY CpuFacts DEF iretq
<1>2. /\ cpu' = [frame EXCEPT !.rax = cpu.rax]
      /\ stack' = stack \/ stack' = [stack EXCEPT ![s][d] = Data]
      /\ UNCHANGED <<schedVars, nested>>
  BY DEF iretq
<1>3. frame \in Regs /\ (frame = Data \/ Resumable(frame)) /\ Shallow(frame, nested)
  BY <1>1 DEF StackInv, DeepInv
<1> HIDE DEF frame
<1>4. frame.rip # Handler
  BY <1>3, CodePoints DEF Data, NoRegs
<1>5. cpu'.rip = frame.rip /\ cpu'.rsp = frame.rsp /\ frame.rsp.depth \in Nat
      /\ UserDepth \in Nat
  BY <1>2, <1>3, TaskCodeAssumption DEF Regs, StackPtr
<1>6. /\ cpu'.rip \in {Handler, Iretq} => cpu'.rsp.depth <= UserDepth + 1 + nested
      /\ cpu'.rip \notin {Handler, Iretq} => cpu'.rsp.depth <= UserDepth
  BY <1>1, <1>3, <1>4, <1>5 DEF Shallow
<1>7. ASSUME NEW t \in Tasks, NEW k \in 1..StackDepth
      PROVE  Shallow(stack'[t][k], nested)
  <2>1. stack'[t][k] = stack[t][k] \/ stack'[t][k] = Data
    <3>1. CASE stack' = stack
      BY <3>1
    <3>2. CASE stack' = [stack EXCEPT ![s][d] = Data]
      <4>1. stack \in [Tasks -> [1..StackDepth -> Regs]]
        BY DEF StackInv
      <4> QED
        BY ONLY <1>1, <3>2, <4>1
    <3> QED
      BY <1>2, <3>1, <3>2
  <2> QED
    BY <1>1, <2>1, ShallowFacts DEF DeepInv
<1> QED
  BY <1>2, <1>6, <1>7 DEF DeepInv, schedVars, Created

LEMMA DeepNext ==
  ASSUME MachineInv, DeepInv, [Next]_vars
  PROVE  DeepInv'
<1> USE DEF MachineInv
<1>1. ASSUME Boot(init_kernel_task) \/ Boot(set_current_task)
             \/ (\E t \in Tasks : Boot(create_task(t)))
             \/ Boot(start_scheduler) \/ Boot(enable_interrupts)
      PROVE  DeepInv'
  <2>1. Boot(KernelMain)
    BY <1>1 DEF Boot, KernelMain
  <2> QED
    BY <2>1, DeepBoot
<1>2. CASE TaskStep
  <2>1. /\ cpu.rip.owner \in Tasks /\ cpu' \in ProgramSteps(cpu)
        /\ UNCHANGED <<schedVars, nested>>
    BY <1>2 DEF TaskStep
  <2>2. cpu \in Regs /\ cpu.rsp.stack \in Tasks /\ nested \in Nat
    BY <2>1, TaskCodeAssumption DEF CpuInv, Resumable, NoRip, Handler, CodePoint
  <2>3. cpu'.rip.owner \in Tasks /\ cpu'.rsp.depth <= UserDepth
    BY <2>1, <2>2, ProgramStepFacts
  <2>4. cpu'.rip \notin {Handler, Iretq}
    BY <2>3, TaskCodeAssumption DEF Handler, Iretq, CodePoint
  <2>5. ASSUME NEW t \in Tasks, NEW d \in 1..StackDepth
        PROVE  Shallow(stack'[t][d], nested)
    <3>1. stack'[t][d] = stack[t][d] \/ stack'[t][d] = Data
      BY <1>2, <2>2 DEF TaskStep, StackInv
    <3> QED
      BY <2>2, <3>1, ShallowFacts DEF DeepInv
  <2> QED
    BY <2>1, <2>3, <2>4, <2>5 DEF DeepInv, schedVars, Created
<1>3. CASE TimerFire
  BY <1>3 DEF TimerFire, DeepInv, schedVars, Created
<1>4. CASE UNCHANGED vars
  BY <1>4 DEF vars, hwVars, DeepInv, schedVars, Created
<1> QED
  BY <1>1, <1>2, <1>3, <1>4, DeepInterrupt, DeepHandler, DeepIretq DEF Next

(* A stack never holds more than its task's calls, one frame, and one more *)
(* for every tick that was taken between sti and iretq: an interrupt path  *)
(* that always drops what it pushed, whatever becomes of the frames.       *)
THEOREM FramesDoNotPile == Spec => []FramesPerNesting
<1>1. Init => DeepInv
  <2> SUFFICES ASSUME Init PROVE DeepInv
    OBVIOUS
  <2>1. /\ boot = "init_kernel_task" /\ nested = 0 /\ cpu = BootCpu
        /\ \A t \in Tasks : \A d \in 1..StackDepth : stack[t][d] = Data
    BY DEF Init, SchedInit, BootCpu
  <2>2. cpu.rip \notin {Handler, Iretq} /\ cpu.rsp.depth <= UserDepth
    BY <2>1, CodePoints, TaskCodeAssumption DEF BootCpu, FreshRegs
  <2> QED
    BY <2>1, <2>2, ShallowFacts DEF DeepInv
<1>2. MachineInv /\ DeepInv /\ [Next]_vars => DeepInv'
  BY DeepNext
<1>3. MachineInv /\ DeepInv => FramesPerNesting
  <2> SUFFICES ASSUME MachineInv, DeepInv PROVE FramesPerNesting
    OBVIOUS
  <2>1. cpu.rsp.depth \in Nat /\ UserDepth \in Nat /\ nested \in Nat
    BY TaskCodeAssumption DEF MachineInv, CpuInv, Regs, StackPtr
  <2> QED
    BY <2>1 DEF DeepInv, FramesPerNesting
<1> QED
  BY <1>1, <1>2, <1>3, MachineInvariant, PTL DEF Spec

-----------------------------------------------------------------------------
(* Until a tick nests.                                                     *)

(* r resumes task t on t's own stack, above no interrupt frame.            *)
Belongs(t, r) == Owns(t, r) /\ r.rsp.depth <= UserDepth

(* The registers of current_task are in the CPU while it executes and in   *)
(* the frame on top of the stack while the handler runs, wherever that     *)
(* stack is; those of every other task are in its context.                 *)
OwnRegs ==
  /\ boot \notin {"init_kernel_task", "set_current_task"} =>
       \A t \in Created \ {current_task} : Belongs(t, task[t].context)
  /\ boot = "running" =>
       IF cpu.rip \in {Handler, Iretq}
       THEN Belongs(current_task, stack[cpu.rsp.stack][cpu.rsp.depth])
       ELSE Belongs(current_task, cpu)

(* So it is until a tick is taken between sti and iretq.                   *)
OwnInv == nested = 0 => OwnRegs

(* A register file that belongs to a task keeps belonging to it without    *)
(* the mark, with another rax, past a hlt and through a step of the task's *)
(* code; it is never in the handler.                                       *)
LEMMA BelongsFacts ==
  ASSUME NEW t \in Tasks, NEW r \in Regs, Belongs(t, r)
  PROVE  /\ Belongs(t, ClearMarker(r))
         /\ Belongs(t, Woken(r))
         /\ \A v : Belongs(t, [r EXCEPT !.rax = v])
         /\ r.rip \notin {Handler, Iretq, NoRip}
         /\ \A s \in ProgramSteps(r) : Belongs(t, s)
<1> USE DEF Belongs, Owns
<1>1. Belongs(t, ClearMarker(r))
  BY DEF ClearMarker, Regs
<1>2. Belongs(t, Woken(r))
  BY DEF Woken, Regs, Points
<1>3. ASSUME NEW v
      PROVE  Belongs(t, [r EXCEPT !.rax = v])
  BY DEF Regs
<1>4. r.rip \notin {Handler, Iretq, NoRip}
  BY TaskCodeAssumption DEF Handler, Iretq, NoRip, CodePoint
<1>5. ASSUME NEW s \in ProgramSteps(r)
      PROVE  Belongs(t, s)
  BY <1>5, ProgramStepFacts
<1> QED
  BY <1>1, <1>2, <1>3, <1>4, <1>5

(* What create_task prepares belongs to the new task.                      *)
LEMMA FreshBelongs ==
  \A t \in Tasks : /\ Belongs(t, [FreshRegs(t) EXCEPT !.rax = Marker])
                    /\ Belongs(t, FreshRegs(t))
BY TaskCodeAssumption DEF Belongs, Owns, FreshRegs, CodePoint, Entry

(* Only the context of the created task changes while KernelMain runs.     *)
LEMMA OwnBoot ==
  ASSUME MachineInv, OwnRegs, Boot(KernelMain)
  PROVE  OwnRegs'
<1> USE DEF MachineInv
<1>1. boot # "running" /\ cpu = BootCpu
  BY BootStepFacts DEF Boot, CpuInv
<1>2. boot' \notin {"init_kernel_task", "set_current_task"} =>
        \A t \in Created' \ {current_task'} : Belongs(t, task'[t].context)
  <2>1. CASE init_kernel_task
    BY <2>1 DEF init_kernel_task
  <2>2. CASE set_current_task
    <3>1. Created = {init_task} /\ current_task' = init_task
          /\ task' = [task EXCEPT ![init_task].state = TASK_RUNNING]
      BY <2>2 DEF set_current_task, SchedInv, BootInv
    <3>2. Created' \subseteq {init_task}
      BY <3>1 DEF SchedInv, SchedTypeOK, Created
    <3> QED
      BY <3>1, <3>2
  <2>3. ASSUME NEW t \in Tasks, create_task(t)
        PROVE  /\ boot = "create_task" /\ current_task' = current_task
               /\ \A u \in Created' \ {current_task'} :
                    Belongs(u, task'[u].context)
    <3>1. /\ boot = "create_task" /\ current_task' = current_task
          /\ Created' = Created \cup {t}
          /\ task'[t].context = [FreshRegs(t) EXCEPT !.rax = Marker]
          /\ \A u \in Created : task'[u].context = task[u].context
      BY <2>3, CreateFacts
    <3> QED
      BY <3>1, FreshBelongs DEF OwnRegs, Created
  <2>4. CASE start_scheduler
    BY <2>4 DEF start_scheduler, OwnRegs, Created
  <2>5. CASE enable_interrupts
    BY <2>5 DEF enable_interrupts, OwnRegs, Created
  <2> QED
    BY <2>1, <2>2, <2>3, <2>4, <2>5 DEF Boot, KernelMain
<1>3. ASSUME boot' = "running"
      PROVE  Belongs(current_task', cpu') /\ cpu'.rip \notin {Handler, Iretq}
  <2>1. enable_interrupts
    BY <1>1, <1>3 DEF Boot, KernelMain, init_kernel_task, set_current_task,
       create_task, start_scheduler
  <2>2. current_task' = init_task
    BY <2>1 DEF enable_interrupts, SchedInv, BootInv
  <2>3. cpu' = FreshRegs(init_task)
    <3>1. cpu' = [cpu EXCEPT !.iflag = TRUE]
      BY <1>3 DEF Boot
    <3> QED
      BY <1>1, <3>1 DEF BootCpu, FreshRegs
  <2>4. init_task \in Tasks /\ FreshRegs(init_task) \in Regs
    BY TaskCodeAssumption, RegsTypes
  <2> QED
    BY <2>2, <2>3, <2>4, FreshBelongs, BelongsFacts
<1> QED
  BY <1>2, <1>3 DEF OwnRegs

(* The handler files the interrupted frame under the task it belongs to    *)
(* and leaves the next task's registers in its place.                      *)
LEMMA OwnHandler ==
  ASSUME MachineInv, OwnRegs, lapic_timer_handler
  PROVE  OwnRegs'
<1> USE DEF MachineInv
<1> DEFINE s     == cpu.rsp.stack
           d     == cpu.rsp.depth
           frame == stack[s][d]
           after == restore_interrupt_context(frame)
<1>1. /\ s \in Tasks /\ d \in 1..StackDepth /\ cpu \in Regs
      /\ frame \in Regs /\ boot = "running" /\ cpu.rip = Handler
  BY CpuFacts DEF lapic_timer_handler
<1>2. /\ schedule_from_interrupt(frame)
      /\ stack' = [stack EXCEPT ![s][d] = after]
      /\ cpu' = [cpu EXCEPT !.rip = Iretq, !.rax = after.rax, !.iflag = TRUE]
      /\ irr' = irr
  BY DEF lapic_timer_handler
<1>3. Belongs(current_task, frame)
  BY <1>1 DEF OwnRegs
<1>4. stack \in [Tasks -> [1..StackDepth -> Regs]]
  BY DEF StackInv
<1> HIDE DEF frame
<1>5. /\ Created' = Created /\ boot' = boot
      /\ current_task \in Created /\ current_task' \in Created
      /\ \A t \in Created \ {current_task, current_task'} :
           task'[t].context = task[t].context
      /\ \/ current_task' = current_task /\ after = frame
         \/ /\ current_task' # current_task
            /\ task'[current_task].context = frame
            /\ after = ClearMarker(task[current_task'].context)
  BY <1>1, <1>2, SwitchFacts
<1> HIDE DEF after
<1>6. Belongs(current_task', after)
  <2>1. CASE current_task' = current_task
    BY <1>3, <1>5, <2>1
  <2>2. CASE current_task' # current_task
    <3>1. /\ current_task' \in Tasks
          /\ task[current_task'].context \in Regs
      BY <1>5 DEF Created, SchedInv, SchedTypeOK, task_t
    <3>2. Belongs(current_task', task[current_task'].context)
      BY <1>1, <1>5, <2>2 DEF OwnRegs
    <3> QED
      BY <1>5, <2>2, <3>1, <3>2, BelongsFacts
  <2> QED
    BY <2>1, <2>2
<1>7. /\ cpu'.rip = Iretq /\ cpu'.rsp = cpu.rsp
      /\ stack'[s][d] = after
  BY <1>1, <1>2, <1>4 DEF Regs
<1>8. \A t \in Created' \ {current_task'} : Belongs(t, task'[t].context)
  BY <1>1, <1>3, <1>5 DEF OwnRegs
<1> QED
  BY <1>2, <1>3, <1>6, <1>7, <1>8 DEF OwnRegs

(* Every step but the interrupt of an iretq preserves ownership.           *)
LEMMA OwnNext ==
  ASSUME MachineInv, OwnRegs, nested' = 0, [Next]_vars
  PROVE  OwnRegs'
<1> USE DEF MachineInv
<1>1. ASSUME Boot(init_kernel_task) \/ Boot(set_current_task)
             \/ (\E t \in Tasks : Boot(create_task(t)))
             \/ Boot(start_scheduler) \/ Boot(enable_interrupts)
      PROVE  OwnRegs'
  <2>1. Boot(KernelMain)
    BY <1>1 DEF Boot, KernelMain
  <2> QED
    BY <2>1, OwnBoot
<1>2. ASSUME boot = "running"
      PROVE  current_task \in Tasks
  BY <1>2 DEF SchedInv, OneRunning, Created
<1>3. CASE TaskStep
  <2>1. /\ boot = "running" /\ cpu.rip.owner \in Tasks
        /\ cpu' \in ProgramSteps(cpu) /\ UNCHANGED <<schedVars, irr, isr>>
    BY <1>3 DEF TaskStep
  <2>2. cpu.rip \notin {Handler, Iretq} /\ cpu \in Regs
    BY <2>1, TaskCodeAssumption DEF Handler, Iretq, CodePoint, CpuInv
  <2>3. Belongs(current_task, cpu)
    BY <2>1, <2>2 DEF OwnRegs
  <2>4. Belongs(current_task, cpu')
    BY <1>2, <2>1, <2>2, <2>3, BelongsFacts
  <2>5. cpu'.rip \notin {Handler, Iretq}
    BY <2>4, <1>2, <2>1, TaskCodeAssumption
       DEF Belongs, Owns, Handler, Iretq, CodePoint
  <2> QED
    BY <2>1, <2>4, <2>5 DEF OwnRegs, schedVars, Created
<1>4. CASE TimerFire
  BY <1>4 DEF TimerFire, OwnRegs, schedVars, Created
<1>5. CASE Interrupt
  <2>1. /\ irr /\ boot = "running" /\ Resumable(cpu) /\ cpu \in Regs
        /\ cpu.rsp.depth + 1 \in 1..StackDepth
    BY <1>5, CpuFacts, TaskCodeAssumption DEF Interrupt, Regs, StackPtr
  <2>2. Belongs(current_task, cpu)
    <3>1. nested \in Nat /\ nested' = IF cpu.rip = Iretq THEN nested + 1 ELSE nested
      BY <1>5 DEF Interrupt
    <3>2. cpu.rip \notin {Handler, Iretq}
      BY <2>1, <3>1, CodePoints
    <3> QED
      BY <2>1, <3>2 DEF OwnRegs
  <2>3. Belongs(current_task, Woken(cpu))
    BY <1>2, <2>1, <2>2, BelongsFacts
  <2>4. /\ stack' = [stack EXCEPT ![cpu.rsp.stack][cpu.rsp.depth + 1] = Woken(cpu)]
        /\ cpu' = [cpu EXCEPT !.rip = Handler, !.rsp.depth = cpu.rsp.depth + 1,
                              !.iflag = FALSE]
        /\ irr' = FALSE /\ UNCHANGED schedVars
    BY <1>5 DEF Interrupt
  <2>5. /\ cpu'.rip = Handler /\ cpu'.rsp.stack = cpu.rsp.stack
        /\ cpu'.rsp.depth = cpu.rsp.depth + 1
    BY <2>1, <2>4 DEF Regs, StackPtr
  <2>6. stack'[cpu'.rsp.stack][cpu'.rsp.depth] = Woken(cpu)
    BY <2>1, <2>4, <2>5 DEF StackInv, Resumable
  <2> QED
    BY <2>1, <2>3, <2>4, <2>5, <2>6 DEF OwnRegs, schedVars, Created
<1>6. CASE lapic_timer_handler
  BY <1>6, OwnHandler
<1>7. CASE iretq
  <2> DEFINE frame == stack[cpu.rsp.stack][cpu.rsp.depth]
  <2>1. /\ cpu.rip = Iretq /\ boot = "running" /\ frame \in Regs
        /\ cpu' = [frame EXCEPT !.rax = cpu.rax]
        /\ UNCHANGED <<schedVars, irr>>
    BY <1>7, CpuFacts DEF iretq
  <2>2. Belongs(current_task, frame)
    BY <2>1 DEF OwnRegs
  <2>3. Belongs(current_task, cpu') /\ cpu'.rip \notin {Handler, Iretq}
    <3>1. frame.rip \notin {Handler, Iretq} /\ cpu'.rip = frame.rip
      BY <1>2, <2>1, <2>2, BelongsFacts DEF Regs
    <3> QED
      BY <1>2, <2>1, <2>2, <3>1, BelongsFacts
  <2> QED
    BY <2>1, <2>3 DEF OwnRegs, schedVars, Created
<1>8. CASE UNCHANGED vars
  BY <1>8 DEF vars, hwVars, schedVars, OwnRegs, Created
<1> QED
  BY <1>1, <1>3, <1>4, <1>5, <1>6, <1>7, <1>8 DEF Next

(* The registers of every task are where they belong at every moment until *)
(* a tick is taken between sti and iretq, whenever ticks come.             *)
THEOREM OwnInvariant == Spec => []OwnInv
<1>1. Init => OwnInv
  BY DEF Init, SchedInit, OwnInv, OwnRegs
<1>2. MachineInv /\ OwnInv /\ [Next]_vars => OwnInv'
  <2> SUFFICES ASSUME MachineInv, OwnInv, [Next]_vars, nested' = 0
               PROVE  OwnRegs'
    BY DEF OwnInv
  <2>1. nested = 0
    BY NestedGrows
  <2> QED
    BY <2>1, OwnNext DEF OwnInv
<1> QED
  BY <1>1, <1>2, MachineInvariant, PTL DEF Spec

(* The context every switched-out task will resume from is its own, and    *)
(* nothing but a tick taken between sti and iretq can change that.         *)
THEOREM ContextsStayOwn == Spec => []ContextsAreOwn
<1>1. OwnInv => ContextsAreOwn
  BY DEF OwnInv, OwnRegs, ContextsAreOwn, Belongs
<1> QED
  BY <1>1, OwnInvariant, PTL

(* The CPU executes the code of current_task on its own stack, and nothing *)
(* but such a tick can change that.                                        *)
THEOREM CpuStaysCurrent == Spec => []CpuIsCurrent
<1>1. OwnInv => CpuIsCurrent
  BY DEF OwnInv, OwnRegs, CpuIsCurrent, Belongs
<1> QED
  BY <1>1, OwnInvariant, PTL

-----------------------------------------------------------------------------
(* The tasks by PID.                                                       *)

Size == IF boot = "init_kernel_task" THEN 0 ELSE next_pid

(* The PIDs number the created tasks, and Ring lists them.                 *)
RingNumbered ==
  /\ Size \in Nat
  /\ Ring \in [1..Size -> Tasks]
  /\ \A i \in 1..Size : Ring[i] \in Created /\ task[Ring[i]].pid = i - 1
  /\ \A t \in Created : task[t].pid + 1 \in 1..Size /\ Ring[task[t].pid + 1] = t

LEMMA RingOfTasks == SchedInv => RingNumbered
<1> SUFFICES ASSUME SchedInv PROVE RingNumbered
  OBVIOUS
<1> DEFINE n == Size
           ByPid(i) == CHOOSE t \in Created : task[t].pid = i
<1>1. n \in Nat
  BY DEF Size, SchedInv, SchedTypeOK
<1>2. \A i \in 0..(n - 1) : \E t \in Created : task[t].pid = i
  BY DEF Size, SchedInv, RingInv
<1>3. \A t \in Created : task[t].pid \in 0..(n - 1)
  <2> SUFFICES ASSUME NEW t \in Created PROVE task[t].pid \in 0..(n - 1)
    OBVIOUS
  <2>1. t \in Tasks /\ task[t].pid \in Nat /\ next_pid \in Nat
    BY DEF SchedInv, SchedTypeOK, task_t, Created
  <2>2. boot # "init_kernel_task"
    BY DEF SchedInv, BootInv
  <2>3. task[t].pid < next_pid
    BY <2>2 DEF SchedInv, RingInv
  <2> QED
    BY <2>1, <2>2, <2>3 DEF Size
<1>4. \A t, u \in Created : task[t].pid = task[u].pid => t = u
  BY DEF Size, SchedInv, BootInv, RingInv
<1> HIDE DEF n
<1>5. \A i \in 0..(n - 1) : ByPid(i) \in Created /\ task[ByPid(i)].pid = i
  BY <1>2
<1>6. \A t \in Created : ByPid(task[t].pid) = t
  BY <1>3, <1>4, <1>5
<1>7. Cardinality(Created) = n
  <2> DEFINE f == [i \in 0..(n - 1) |-> ByPid(i)]
  <2>1. f \in Bijection(0..(n - 1), Created)
    <3>1. f \in Injection(0..(n - 1), Created)
      BY <1>5 DEF Injection, IsInjective
    <3>2. \A t \in Created : f[task[t].pid] = t
      BY <1>3, <1>6
    <3>3. f \in Surjection(0..(n - 1), Created)
      BY <1>3, <1>5, <3>2 DEF Surjection
    <3> QED
      BY <3>1, <3>3 DEF Bijection
  <2>2. IsFiniteSet(0..(n - 1)) /\ Cardinality(0..(n - 1)) = n
    BY <1>1, FS_Interval
  <2> QED
    BY <2>1, <2>2, FS_Bijection DEF ExistsBijection
<1>8. Ring = [i \in 1..n |-> ByPid(i - 1)]
  BY <1>7 DEF Ring
<1>9. \A i \in 1..n : i - 1 \in 0..(n - 1) /\ Ring[i] = ByPid(i - 1)
  BY <1>1, <1>8
<1> HIDE DEF ByPid
<1>10. \A i \in 1..n : Ring[i] \in Created /\ task[Ring[i]].pid = i - 1
  BY <1>5, <1>9
<1>11. \A t \in Created : task[t].pid + 1 \in 1..n /\ Ring[task[t].pid + 1] = t
  <2> SUFFICES ASSUME NEW t \in Created
               PROVE  task[t].pid + 1 \in 1..n /\ Ring[task[t].pid + 1] = t
    OBVIOUS
  <2>1. PICK p \in 0..(n - 1) : p = task[t].pid
    BY <1>3
  <2>2. p + 1 \in 1..n /\ (p + 1) - 1 = p
    BY <1>1
  <2> QED
    BY <1>6, <1>9, <2>1, <2>2
<1>12. Ring \in [1..n -> Tasks]
  BY <1>8, <1>9, <1>10 DEF Created
<1> QED
  BY <1>1, <1>10, <1>11, <1>12 DEF RingNumbered, n

LEMMA SameFunction ==
  ASSUME NEW S, NEW T, NEW f \in [S -> T], NEW g \in [S -> T],
         \A x \in S : f[x] = g[x]
  PROVE  f = g
OBVIOUS

LEMMA AppendedTo ==
  ASSUME NEW S, NEW n \in Nat, NEW s \in [1..n -> S], NEW e \in S,
         NEW r \in [1..(n + 1) -> S],
         \A i \in 1..n : r[i] = s[i], r[n + 1] = e
  PROVE  r = Append(s, e)
<1>1. s \in Seq(S) /\ Len(s) = n
  OBVIOUS
<1>2. Append(s, e) \in Seq(S) /\ Len(Append(s, e)) = n + 1
  BY <1>1
<1>3. Append(s, e) \in [1..(n + 1) -> S]
  <2>1. PICK a : a = Append(s, e)
    OBVIOUS
  <2>2. a \in Seq(S) /\ Len(a) = n + 1
    BY <1>2, <2>1
  <2>3. a \in [1..Len(a) -> S]
    BY <2>2, LenProperties
  <2> QED
    BY <2>1, <2>2, <2>3
<1>4. /\ \A i \in 1..n : Append(s, e)[i] = s[i]
      /\ Append(s, e)[n + 1] = e
  BY <1>1, AppendProperties
<1>5. \A i \in 1..(n + 1) : i \in 1..n \/ i = n + 1
  OBVIOUS
<1> QED
  BY <1>3, <1>4, <1>5, SameFunction

LEMMA RingOfTasksNext == SchedInv' => RingNumbered'
<1>1. (SchedInv => RingNumbered)'
  BY RingOfTasks, PTL
<1> QED
  BY <1>1

(* The ring depends on nothing but the PIDs of the tasks.                  *)
LEMMA RingStays ==
  ASSUME SchedInv, SchedInv', Created' = Created, Size' = Size,
         \A t \in Created : task'[t].pid = task[t].pid
  PROVE  Ring' = Ring
<1>1. RingNumbered /\ RingNumbered'
  BY RingOfTasks, RingOfTasksNext
<1>2. Ring \in [1..Size -> Tasks] /\ Ring' \in [1..Size -> Tasks]
  BY <1>1 DEF RingNumbered
<1>3. ASSUME NEW i \in 1..Size
      PROVE  Ring'[i] = Ring[i]
  <2>1. PICK t \in Created : t = Ring[i] /\ task'[t].pid + 1 = i
    BY <1>1 DEF RingNumbered
  <2> QED
    BY <1>1, <2>1 DEF RingNumbered
<1>4. PICK S, r, q : S = 1..Size /\ r = Ring /\ q = Ring'
  OBVIOUS
<1>5. r \in [S -> Tasks] /\ q \in [S -> Tasks] /\ \A i \in S : r[i] = q[i]
  BY <1>2, <1>3, <1>4
<1>6. q = r
  BY <1>5, SameFunction
<1> QED
  BY <1>4, <1>6

(* A task with the next PID comes behind the last.                         *)
LEMMA RingGrows ==
  ASSUME SchedInv, SchedInv', NEW t \in Tasks \ Created,
         Created' = Created \cup {t}, Size' = Size + 1, task'[t].pid = Size,
         \A u \in Created : task'[u].pid = task[u].pid
  PROVE  Ring' = Append(Ring, t)
<1>1. RingNumbered /\ RingNumbered'
  BY RingOfTasks, RingOfTasksNext
<1>2. Size \in Nat /\ Ring \in [1..Size -> Tasks] /\ Ring' \in [1..(Size + 1) -> Tasks]
  BY <1>1 DEF RingNumbered
<1>3. ASSUME NEW i \in 1..Size
      PROVE  Ring'[i] = Ring[i]
  <2>1. PICK u \in Created : u = Ring[i] /\ task'[u].pid + 1 = i
    BY <1>1 DEF RingNumbered
  <2> QED
    BY <1>1, <2>1 DEF RingNumbered
<1>4. Ring'[Size + 1] = t
  BY <1>1 DEF RingNumbered
<1>5. PICK n, r, q : n = Size /\ r = Ring /\ q = Ring'
  OBVIOUS
<1> QED
  BY <1>2, <1>3, <1>4, <1>5, AppendedTo

-----------------------------------------------------------------------------
(* The mark.                                                               *)

(* Until the scheduler runs, the context of a task is what create_task put *)
(* there; and the registers the handler finds never hold its mark.         *)
MarkInv ==
  /\ boot \in {"create_task", "enable_interrupts"} =>
       \A t \in Created \ {current_task} :
         task[t].context = [FreshRegs(t) EXCEPT !.rax = Marker]
  /\ cpu.rax # Marker
  /\ cpu.rip = Handler => stack[cpu.rsp.stack][cpu.rsp.depth].rax # Marker

(* A context the mark was taken out of, and a halted CPU that goes on,     *)
(* show no mark.                                                           *)
LEMMA MarkFacts ==
  ASSUME NEW r \in Regs
  PROVE  /\ ClearMarker(r).rax # Marker
         /\ r.rax # Marker => ClearMarker(r) = r
         /\ Woken(r).rax = r.rax
BY TaskCodeAssumption DEF ClearMarker, Woken, Regs

(* KernelMain files fresh registers only.                                  *)
LEMMA MarkBoot ==
  ASSUME MachineInv, MarkInv, Boot(KernelMain)
  PROVE  MarkInv'
<1> USE DEF MachineInv
<1>1. boot # "running" /\ cpu = BootCpu
  BY BootStepFacts DEF Boot, CpuInv
<1>2. cpu'.rax # Marker /\ cpu'.rip # Handler
  <2>1. cpu' = BootCpu \/ cpu' = [BootCpu EXCEPT !.iflag = TRUE]
    BY <1>1 DEF Boot
  <2> QED
    BY <2>1, CodePoints, TaskCodeAssumption DEF BootCpu, FreshRegs
<1>3. boot' \in {"create_task", "enable_interrupts"} =>
        \A t \in Created' \ {current_task'} :
          task'[t].context = [FreshRegs(t) EXCEPT !.rax = Marker]
  <2>1. CASE init_kernel_task
    BY <2>1 DEF init_kernel_task
  <2>2. CASE set_current_task
    <3>1. Created = {init_task} /\ current_task' = init_task
          /\ task' = [task EXCEPT ![init_task].state = TASK_RUNNING]
      BY <2>2 DEF set_current_task, SchedInv, BootInv
    <3>2. Created' \subseteq {init_task}
      BY <3>1 DEF SchedInv, SchedTypeOK, Created
    <3> QED
      BY <3>1, <3>2
  <2>3. ASSUME NEW t \in Tasks, create_task(t)
        PROVE  \A u \in Created' \ {current_task'} :
                 task'[u].context = [FreshRegs(u) EXCEPT !.rax = Marker]
    <3>1. /\ boot = "create_task" /\ current_task' = current_task
          /\ Created' = Created \cup {t}
          /\ task'[t].context = [FreshRegs(t) EXCEPT !.rax = Marker]
          /\ \A u \in Created : task'[u].context = task[u].context
      BY <2>3, CreateFacts DEF SchedInv
    <3> QED
      BY <3>1 DEF MarkInv
  <2>4. CASE start_scheduler
    BY <2>4 DEF start_scheduler, MarkInv, Created
  <2>5. CASE enable_interrupts
    BY <2>5 DEF enable_interrupts
  <2> QED
    BY <2>1, <2>2, <2>3, <2>4, <2>5 DEF Boot, KernelMain
<1> QED
  BY <1>2, <1>3 DEF MarkInv

LEMMA MarkNext ==
  ASSUME Marker \notin RaxVals, MachineInv, MarkInv, [Next]_vars
  PROVE  MarkInv'
<1> USE DEF MachineInv
<1>1. ASSUME Boot(init_kernel_task) \/ Boot(set_current_task)
             \/ (\E t \in Tasks : Boot(create_task(t)))
             \/ Boot(start_scheduler) \/ Boot(enable_interrupts)
      PROVE  MarkInv'
  <2>1. Boot(KernelMain)
    BY <1>1 DEF Boot, KernelMain
  <2> QED
    BY <2>1, MarkBoot
<1>2. CASE TaskStep
  <2>1. /\ cpu.rip.owner \in Tasks /\ cpu' \in ProgramSteps(cpu)
        /\ UNCHANGED schedVars
    BY <1>2 DEF TaskStep
  <2>2. cpu'.rax \in RaxVals /\ cpu'.rip.owner = cpu.rip.owner
    BY <2>1 DEF ProgramSteps, CodePoint
  <2>3. cpu'.rip # Handler
    BY <2>1, <2>2, TaskCodeAssumption DEF Handler, CodePoint
  <2> QED
    BY <2>1, <2>2, <2>3 DEF MarkInv, schedVars, Created
<1>3. CASE TimerFire
  BY <1>3 DEF TimerFire, MarkInv, schedVars, Created
<1>4. CASE Interrupt
  <2>1. /\ boot = "running" /\ Resumable(cpu) /\ cpu \in Regs
        /\ cpu.rsp.depth + 1 \in 1..StackDepth
    BY <1>4, CpuFacts, TaskCodeAssumption DEF Interrupt, Regs, StackPtr
  <2>2. /\ stack' = [stack EXCEPT ![cpu.rsp.stack][cpu.rsp.depth + 1] = Woken(cpu)]
        /\ cpu' = [cpu EXCEPT !.rip = Handler, !.rsp.depth = cpu.rsp.depth + 1,
                              !.iflag = FALSE]
        /\ boot' = boot
    BY <1>4 DEF Interrupt, schedVars
  <2>3. /\ cpu'.rsp.stack = cpu.rsp.stack /\ cpu'.rsp.depth = cpu.rsp.depth + 1
        /\ cpu'.rax = cpu.rax
    BY <2>1, <2>2 DEF Regs, StackPtr
  <2>4. stack'[cpu'.rsp.stack][cpu'.rsp.depth] = Woken(cpu)
    BY <2>1, <2>2, <2>3 DEF StackInv, Resumable
  <2>5. Woken(cpu).rax = cpu.rax
    BY <2>1, MarkFacts
  <2> QED
    BY <2>1, <2>2, <2>3, <2>4, <2>5 DEF MarkInv
<1>5. CASE lapic_timer_handler
  <2> DEFINE frame == stack[cpu.rsp.stack][cpu.rsp.depth]
             after == restore_interrupt_context(frame)
  <2>1. /\ frame \in Regs /\ boot = "running" /\ cpu \in Regs /\ cpu.rip = Handler
    BY <1>5, CpuFacts DEF lapic_timer_handler
  <2>2. /\ schedule_from_interrupt(frame)
        /\ cpu' = [cpu EXCEPT !.rip = Iretq, !.rax = after.rax, !.iflag = TRUE]
    BY <1>5 DEF lapic_timer_handler
  <2>3. frame.rax # Marker
    BY <2>1 DEF MarkInv
  <2> HIDE DEF frame
  <2>4. /\ boot' = boot /\ current_task' \in Created
        /\ after = frame \/ after = ClearMarker(task[current_task'].context)
    BY <2>1, <2>2, SwitchFacts
  <2>5. task[current_task'].context \in Regs
    BY <2>4 DEF Created, SchedInv, SchedTypeOK, task_t
  <2>6. after.rax # Marker
    BY <2>3, <2>4, <2>5, MarkFacts
  <2> HIDE DEF after
  <2>7. cpu'.rax # Marker /\ cpu'.rip = Iretq
    BY <2>1, <2>2, <2>6 DEF Regs
  <2> QED
    BY <2>1, <2>4, <2>7, CodePoints DEF MarkInv
<1>6. CASE iretq
  <2> DEFINE frame == stack[cpu.rsp.stack][cpu.rsp.depth]
  <2>1. /\ boot = "running" /\ frame \in Regs
        /\ cpu' = [frame EXCEPT !.rax = cpu.rax]
        /\ UNCHANGED schedVars
    BY <1>6, CpuFacts DEF iretq
  <2>2. cpu.rip = Iretq /\ cpu.rsp.stack \in Tasks /\ cpu.rsp.depth \in 1..StackDepth
    BY <1>6, CpuFacts DEF iretq
  <2>3. frame = Data \/ Resumable(frame)
    BY <2>2 DEF StackInv
  <2>4. frame.rip # Handler
    BY <2>3, CodePoints DEF Data, NoRegs
  <2> HIDE DEF frame
  <2>5. cpu'.rax = cpu.rax /\ cpu'.rip = frame.rip
    BY <2>1 DEF Regs
  <2> QED
    BY <2>1, <2>4, <2>5 DEF MarkInv, schedVars
<1>7. CASE UNCHANGED vars
  BY <1>7 DEF vars, hwVars, schedVars, MarkInv, Created
<1> QED
  BY <1>1, <1>2, <1>3, <1>4, <1>5, <1>6, <1>7 DEF Next

(* A task whose code never computes the mark never shows it.               *)
LEMMA MarkInvariant ==
  ASSUME Marker \notin RaxVals
  PROVE  Spec => []MarkInv
<1>1. Init => MarkInv
  BY CodePoints, TaskCodeAssumption
     DEF Init, SchedInit, MarkInv, BootCpu, FreshRegs
<1>2. MachineInv /\ MarkInv /\ [Next]_vars => MarkInv'
  BY MarkNext
<1> QED
  BY <1>1, <1>2, MachineInvariant, PTL DEF Spec

-----------------------------------------------------------------------------
(* The refinement of VirtualCpus.                                          *)

Running == IF boot = "running" THEN current_task ELSE Null
Vcpu    == [t \in Tasks |-> VirtualRegs(t)]

VirtualStep == Virtual!VirtualNext \/ UNCHANGED <<Ring, Running, Vcpu>>

(* Both modules read the same task code.                                   *)
LEMMA VirtualCode ==
  /\ \A r : Virtual!ProgramSteps(r) = ProgramSteps(r)
  /\ \A r : Virtual!Woken(r) = Woken(r)
  /\ \A t : Virtual!FreshRegs(t) = FreshRegs(t)
BY DEF Virtual!ProgramSteps, ProgramSteps, Virtual!Woken, Woken, Virtual!FreshRegs,
       FreshRegs, Virtual!CodePoint, CodePoint, Virtual!Hlt, Hlt, Virtual!Body, Body,
       Virtual!Entry, Entry

(* VirtualCpus' actions in terms of the machine's state.                   *)
LEMMA AdmitStep ==
  ASSUME SchedInv, NEW t \in Tasks \ Created, Running = Null,
         Ring' = Append(Ring, t), Running' = Running, Vcpu' = Vcpu
  PROVE  VirtualStep
<1>1. \A i \in DOMAIN Ring : Ring[i] # t
  BY RingOfTasks DEF RingNumbered
<1>2. Virtual!Admit(t)
  BY <1>1 DEF Virtual!Admit, Virtual!Admitted, Running, Vcpu
<1> QED
  BY <1>2 DEF VirtualStep, Virtual!VirtualNext

LEMMA RunStep ==
  ASSUME NEW t \in Tasks, Running = t, Running' = t, Ring' = Ring,
         VirtualRegs(t)' \in ProgramSteps(VirtualRegs(t)) \cup {Woken(VirtualRegs(t))},
         \A u \in Tasks \ {t} : VirtualRegs(u)' = VirtualRegs(u)
  PROVE  VirtualStep
<1>1. Vcpu[t] = VirtualRegs(t) /\ Vcpu'[t] = VirtualRegs(t)'
  BY DEF Vcpu
<1>2. Vcpu' = [Vcpu EXCEPT ![t] = Vcpu'[t]]
  BY DEF Vcpu
<1>3. Running # Null
  BY TaskCodeAssumption
<1>4. Vcpu'[t] \in ProgramSteps(Vcpu[t]) \cup {Woken(Vcpu[t])}
  BY <1>1
<1>5. Vcpu'[Running] \in Virtual!ProgramSteps(Vcpu[Running]) \cup {Virtual!Woken(Vcpu[Running])}
  BY <1>4, VirtualCode
<1>6. Vcpu' = [Vcpu EXCEPT ![Running] = Vcpu'[Running]]
  BY <1>2
<1>7. Virtual!Run
  BY <1>3, <1>5, <1>6 DEF Virtual!Run, Running, Vcpu
<1> QED
  BY <1>7 DEF VirtualStep, Virtual!VirtualNext

LEMMA SwitchStep ==
  ASSUME SchedInv, boot = "running", boot' = "running", current_task' = NextTask,
         Ring' = Ring, Vcpu' = Vcpu
  PROVE  VirtualStep
<1> DEFINE c == current_task
<1>1. RingNumbered /\ Size = next_pid
  BY RingOfTasks DEF Size
<1>2. c \in Created /\ NextTask \in Created /\ NextTask = task[c].next
  BY TaskCodeAssumption DEF SchedInv, OneRunning, RingInv, NextTask, Created
<1>3. PICK n \in Nat : n = Size
  BY <1>1 DEF RingNumbered
<1>4. PICK i \in 1..n : i = task[c].pid + 1 /\ Ring[i] = c
  BY <1>1, <1>2, <1>3 DEF RingNumbered
<1>5. DOMAIN Ring = 1..n /\ Len(Ring) = n
  BY <1>1, <1>3 DEF RingNumbered
<1>6. \A j \in DOMAIN Ring : Ring[j] = c => j = i
  <2>1. \A j \in 1..n : task[Ring[j]].pid = j - 1
    BY <1>1, <1>3 DEF RingNumbered
  <2> QED
    BY <1>4, <1>5, <2>1
<1>7. (CHOOSE j \in DOMAIN Ring : Ring[j] = c) = i
  BY <1>4, <1>5, <1>6
<1>8. task[NextTask].pid = IF i = n THEN 0 ELSE i
  BY <1>1, <1>2, <1>3, <1>4 DEF SchedInv, RingInv
<1>9. (i % n) + 1 = task[NextTask].pid + 1
  <2>1. i = n => i % n = 0
    BY <1>3
  <2>2. i # n => i % n = i
    BY <1>3
  <2> QED
    BY <1>8, <2>1, <2>2
<1>10. Ring[(i % n) + 1] = NextTask
  BY <1>1, <1>2, <1>9 DEF RingNumbered
<1>11. Virtual!Successor(Running) = NextTask
  BY <1>5, <1>7, <1>10 DEF Virtual!Successor, Running
<1>12. Running # Null /\ Running' = Virtual!Successor(Running)
  BY <1>2, <1>11, TaskCodeAssumption DEF Running, Created
<1>13. Virtual!Switch
  BY <1>12 DEF Virtual!Switch, Running, Vcpu
<1> QED
  BY <1>13 DEF VirtualStep, Virtual!VirtualNext

(* KernelMain's calls admit tasks, in the order of their PIDs, and start   *)
(* the first.                                                              *)
LEMMA RefineBoot ==
  ASSUME MachineInv, MachineInv', MarkInv, Boot(KernelMain)
  PROVE  VirtualStep
<1> USE DEF MachineInv
<1>1. boot # "running" /\ cpu = BootCpu /\ SchedInv /\ SchedInv'
  BY BootStepFacts DEF Boot, CpuInv
<1>2. Running = Null /\ Vcpu = [t \in Tasks |-> FreshRegs(t)]
  BY <1>1 DEF Running, Vcpu, VirtualRegs
<1>3. boot' # "running" => Running' = Running /\ Vcpu' = Vcpu
  BY <1>2 DEF Running, Vcpu, VirtualRegs
<1>4. CASE init_kernel_task
  <2>1. Created = {} /\ Created' = {init_task} /\ boot' = "set_current_task"
    BY <1>1, <1>4 DEF init_kernel_task, SchedInv, BootInv
  <2>2. task'[init_task].pid = 0 /\ Size = 0 /\ Size' = 1
    BY <1>1, <1>4, <2>1, TaskCodeAssumption
       DEF init_kernel_task, SchedInv, SchedTypeOK, BootInv, Size
  <2>3. Ring' = Append(Ring, init_task)
    BY <1>1, <2>1, <2>2, TaskCodeAssumption, RingGrows
  <2> QED
    BY <1>1, <1>2, <1>3, <2>1, <2>3, TaskCodeAssumption, AdmitStep
<1>5. CASE set_current_task
  <2>1. /\ Created = {init_task} /\ boot = "set_current_task" /\ boot' = "create_task"
        /\ task' = [task EXCEPT ![init_task].state = TASK_RUNNING]
        /\ next_pid' = next_pid
    BY <1>1, <1>5 DEF set_current_task, SchedInv, BootInv
  <2>2. /\ \A t \in Created : task'[t].pid = task[t].pid
        /\ Created' = Created
    BY <1>1, <2>1, TaskCodeAssumption
       DEF SchedInv, SchedTypeOK, task_t, Created, TASK_RUNNING, Unallocated
  <2>3. Ring' = Ring
    BY <1>1, <2>1, <2>2, RingStays DEF Size
  <2> QED
    BY <1>3, <2>1, <2>3 DEF VirtualStep
<1>6. ASSUME NEW t \in Tasks, create_task(t)
      PROVE  VirtualStep
  <2>1. /\ boot = "create_task" /\ boot' = boot /\ t \notin Created
        /\ next_pid' = next_pid + 1 /\ Created' = Created \cup {t}
        /\ task'[t].pid = next_pid
        /\ \A u \in Created : task'[u].pid = task[u].pid
    BY <1>1, <1>6, CreateFacts
  <2>2. Ring' = Append(Ring, t)
    BY <1>1, <2>1, RingGrows DEF Size
  <2> QED
    BY <1>1, <1>2, <1>3, <2>1, <2>2, AdmitStep
<1>7. CASE start_scheduler
  <2>1. /\ boot = "create_task" /\ boot' = "enable_interrupts"
        /\ UNCHANGED <<task, next_pid>>
    BY <1>7 DEF start_scheduler
  <2>2. Ring' = Ring
    BY <1>1, <2>1, RingStays DEF Size, Created
  <2> QED
    BY <1>3, <2>1, <2>2 DEF VirtualStep
<1>8. CASE enable_interrupts
  <2>1. /\ boot = "enable_interrupts" /\ boot' = "running"
        /\ UNCHANGED <<task, next_pid, current_task>>
        /\ current_task = init_task /\ init_task \in Created
    BY <1>1, <1>8 DEF enable_interrupts, SchedInv, BootInv, OneRunning
  <2>2. Ring' = Ring /\ Created' = Created
    BY <1>1, <2>1, RingStays DEF Size, Created
  <2>3. Running' = init_task
    BY <2>1 DEF Running
  <2>4. cpu' = FreshRegs(init_task)
    <3>1. cpu' = [cpu EXCEPT !.iflag = TRUE]
      BY <2>1 DEF Boot
    <3> QED
      BY <1>1, <3>1 DEF BootCpu, FreshRegs
  <2>5. ASSUME NEW t \in Tasks
        PROVE  VirtualRegs(t)' = FreshRegs(t)
    <3>1. CASE t \notin Created
      BY <2>2, <3>1 DEF VirtualRegs
    <3>2. CASE t = init_task
      <4>1. cpu'.rip # Handler /\ cpu'.rip # Iretq
        BY <2>4, TaskCodeAssumption DEF FreshRegs, Handler, Iretq, CodePoint
      <4>2. CurrentRegs' = cpu'
        BY <4>1 DEF CurrentRegs
      <4> QED
        BY <2>1, <2>2, <2>4, <3>2, <4>2 DEF VirtualRegs
    <3>3. CASE t \in Created /\ t # init_task
      <4>1. task[t].context = [FreshRegs(t) EXCEPT !.rax = Marker]
        BY <2>1, <3>3 DEF MarkInv
      <4>2. ClearMarker(task[t].context) = FreshRegs(t)
        BY <4>1 DEF ClearMarker, FreshRegs
      <4> QED
        BY <2>1, <2>2, <3>3, <4>2 DEF VirtualRegs
    <3> QED
      BY <3>1, <3>2, <3>3
  <2>6. Vcpu' = Vcpu
    BY <1>2, <2>5 DEF Vcpu
  <2>7. \E i \in DOMAIN Ring : Ring[i] = init_task
    BY <1>1, <2>1, RingOfTasks DEF RingNumbered
  <2>8. Virtual!Start
    BY <1>2, <2>2, <2>3, <2>6, <2>7 DEF Virtual!Start, Virtual!Admitted, Running, Vcpu
  <2> QED
    BY <2>8 DEF VirtualStep, Virtual!VirtualNext
<1> QED
  BY <1>4, <1>5, <1>6, <1>7, <1>8 DEF Boot, KernelMain

(* Where the registers are while the scheduler runs.                       *)
LEMMA RegsFound ==
  ASSUME MachineInv, boot = "running"
  PROVE  /\ current_task \in Created /\ current_task \in Tasks
         /\ Running = current_task
         /\ VirtualRegs(current_task) = CurrentRegs
         /\ \A t \in Created \ {current_task} :
              VirtualRegs(t) = ClearMarker(task[t].context)
         /\ \A t \in Tasks \ Created : VirtualRegs(t) = FreshRegs(t)
BY DEF MachineInv, SchedInv, OneRunning, Created, Running, VirtualRegs

(* Nothing changes for tasks that are switched out when the scheduler's    *)
(* state does not.                                                         *)
LEMMA OthersKeep ==
  ASSUME MachineInv, boot = "running", UNCHANGED schedVars
  PROVE  /\ Ring' = Ring /\ Running' = Running
         /\ \A t \in Tasks : t = current_task => VirtualRegs(t)' = CurrentRegs'
         /\ \A t \in Tasks \ {current_task} : VirtualRegs(t)' = VirtualRegs(t)
<1>1. UNCHANGED <<task, current_task, boot, Created>>
  BY DEF schedVars, Created
<1> QED
  BY <1>1, RegsFound DEF VirtualRegs, Ring, Running

LEMMA NothingChanges ==
  ASSUME UNCHANGED <<schedVars, cpu, stack>>
  PROVE  VirtualStep
<1>1. UNCHANGED <<task, current_task, boot, Created, CurrentRegs>>
  BY DEF schedVars, Created, CurrentRegs
<1>2. Ring' = Ring /\ Running' = Running
  BY <1>1 DEF Ring, Running
<1>3. \A t \in Tasks : VirtualRegs(t)' = VirtualRegs(t)
  BY <1>1 DEF VirtualRegs
<1>4. Vcpu' = Vcpu
  BY <1>3 DEF Vcpu
<1> QED
  BY <1>2, <1>4 DEF VirtualStep

(* The handler leaves every register file as it was, and gives the CPU to  *)
(* the next task or leaves it where it is.                                 *)
LEMMA RefineHandler ==
  ASSUME MachineInv, MachineInv', MarkInv, lapic_timer_handler
  PROVE  VirtualStep
<1> USE DEF MachineInv
<1> DEFINE s     == cpu.rsp.stack
           d     == cpu.rsp.depth
           frame == stack[s][d]
           after == restore_interrupt_context(frame)
<1>1. /\ s \in Tasks /\ d \in 1..StackDepth /\ cpu \in Regs
      /\ frame \in Regs /\ boot = "running" /\ cpu.rip = Handler
  BY CpuFacts DEF lapic_timer_handler
<1>2. /\ schedule_from_interrupt(frame)
      /\ stack' = [stack EXCEPT ![s][d] = after]
      /\ cpu' = [cpu EXCEPT !.rip = Iretq, !.rax = after.rax, !.iflag = TRUE]
  BY DEF lapic_timer_handler
<1>3. frame.rax # Marker /\ CurrentRegs = frame
  BY <1>1, CodePoints DEF MarkInv, CurrentRegs
<1>4. stack \in [Tasks -> [1..StackDepth -> Regs]]
  BY DEF StackInv
<1> HIDE DEF frame
<1>5. /\ Created' = Created /\ boot' = boot
      /\ current_task \in Created /\ current_task' \in Created
      /\ \A t \in Created \ {current_task, current_task'} :
           task'[t].context = task[t].context
      /\ \/ current_task' = current_task /\ after = frame
         \/ /\ current_task' # current_task
            /\ current_task' = NextTask
            /\ task'[current_task].context = frame
            /\ after = ClearMarker(task[current_task'].context)
  BY <1>1, <1>2, SwitchFacts
<1>6. Ring' = Ring
  <2>1. \A t \in Created : task'[t].pid = task[t].pid
    BY <1>2, SwitchKeepsPids DEF Created
  <2>2. Size' = Size
    BY <1>2 DEF schedule_from_interrupt, Size
  <2> QED
    BY <1>5, <2>1, <2>2, RingStays
<1> HIDE DEF after
<1>7. after \in Regs
  <2>1. task[current_task'].context \in Regs
    BY <1>5 DEF Created, SchedInv, SchedTypeOK, task_t
  <2> QED
    BY <1>1, <1>5, <2>1, RegsTypes
<1>8. CurrentRegs' = after
  <2>1. /\ cpu'.rip = Iretq /\ cpu'.rsp = cpu.rsp /\ cpu'.rax = after.rax
        /\ stack'[s][d] = after
    BY <1>1, <1>2, <1>4 DEF Regs
  <2>2. CurrentRegs' = [after EXCEPT !.rax = after.rax]
    BY <2>1, CodePoints DEF CurrentRegs
  <2> QED
    BY <1>7, <2>2 DEF Regs
<1>9. /\ VirtualRegs(current_task) = frame
      /\ \A t \in Created \ {current_task} : VirtualRegs(t) = ClearMarker(task[t].context)
      /\ \A t \in Tasks \ Created : VirtualRegs(t) = FreshRegs(t)
      /\ Running = current_task
  BY <1>1, <1>3, RegsFound
<1>10. /\ \A t \in Created : t = current_task' => VirtualRegs(t)' = after
       /\ \A t \in Created \ {current_task'} : VirtualRegs(t)' = ClearMarker(task'[t].context)
       /\ \A t \in Tasks \ Created : VirtualRegs(t)' = FreshRegs(t)
       /\ Running' = current_task'
  BY <1>1, <1>5, <1>8 DEF VirtualRegs, Running
<1>11. ASSUME NEW t \in Tasks
       PROVE  VirtualRegs(t)' = VirtualRegs(t)
  <2>1. CASE t \notin Created
    BY <1>9, <1>10, <2>1
  <2>2. CASE t \in Created \ {current_task, current_task'}
    BY <1>5, <1>9, <1>10, <2>2
  <2>3. CASE current_task' = current_task /\ t = current_task
    BY <1>5, <1>9, <1>10, <2>3
  <2>4. CASE current_task' # current_task /\ t = current_task'
    BY <1>5, <1>9, <1>10, <2>4
  <2>5. CASE current_task' # current_task /\ t = current_task
    <3>1. ClearMarker(frame) = frame
      BY <1>1, <1>3, MarkFacts
    <3> QED
      BY <1>5, <1>9, <1>10, <2>5, <3>1
  <2> QED
    BY <2>1, <2>2, <2>3, <2>4, <2>5
<1>12. Vcpu' = Vcpu
  BY <1>11 DEF Vcpu
<1>13. CASE current_task' = current_task
  BY <1>6, <1>9, <1>10, <1>12, <1>13 DEF VirtualStep
<1>14. CASE current_task' # current_task
  BY <1>1, <1>5, <1>6, <1>12, <1>14, SwitchStep
<1> QED
  BY <1>13, <1>14

(* Task code and the interrupt of a halted CPU move the running task; the  *)
(* rest of the interrupt path moves nobody.                                *)
LEMMA RefineNext ==
  ASSUME MachineInv, MachineInv', OwnRegs, nested' = 0, MarkInv, [Next]_vars
  PROVE  VirtualStep
<1> USE DEF MachineInv
<1> DEFINE c == current_task
<1>1. ASSUME Boot(init_kernel_task) \/ Boot(set_current_task)
             \/ (\E t \in Tasks : Boot(create_task(t)))
             \/ Boot(start_scheduler) \/ Boot(enable_interrupts)
      PROVE  VirtualStep
  <2>1. Boot(KernelMain)
    BY <1>1 DEF Boot, KernelMain
  <2> QED
    BY <2>1, RefineBoot
<1>2. CASE TaskStep
  <2>1. /\ boot = "running" /\ cpu.rip.owner \in Tasks
        /\ cpu' \in ProgramSteps(cpu) /\ UNCHANGED schedVars
    BY <1>2 DEF TaskStep
  <2>2. cpu'.rip.owner = cpu.rip.owner
    BY <2>1 DEF ProgramSteps, CodePoint
  <2>3. CurrentRegs = cpu /\ CurrentRegs' = cpu'
    BY <2>1, <2>2, TaskCodeAssumption DEF CurrentRegs, Handler, Iretq, CodePoint
  <2> QED
    BY <2>1, <2>3, RegsFound, OthersKeep, RunStep
<1>3. CASE TimerFire
  BY <1>3, NothingChanges DEF TimerFire
<1>4. CASE Interrupt
  <2>1. /\ irr /\ boot = "running" /\ Resumable(cpu) /\ cpu \in Regs
        /\ cpu.rsp.depth + 1 \in 1..StackDepth
    BY <1>4, CpuFacts, TaskCodeAssumption DEF Interrupt, Regs, StackPtr
  <2>2. cpu.rip \notin {Handler, Iretq}
    <3>1. nested \in Nat /\ nested' = IF cpu.rip = Iretq THEN nested + 1 ELSE nested
      BY <1>4 DEF Interrupt
    <3> QED
      BY <2>1, <3>1, CodePoints
  <2>3. /\ stack' = [stack EXCEPT ![cpu.rsp.stack][cpu.rsp.depth + 1] = Woken(cpu)]
        /\ cpu' = [cpu EXCEPT !.rip = Handler, !.rsp.depth = cpu.rsp.depth + 1,
                              !.iflag = FALSE]
        /\ UNCHANGED schedVars
    BY <1>4 DEF Interrupt
  <2>4. /\ cpu'.rip = Handler /\ cpu'.rsp.stack = cpu.rsp.stack
        /\ cpu'.rsp.depth = cpu.rsp.depth + 1
    BY <2>1, <2>3 DEF Regs, StackPtr
  <2>5. stack'[cpu'.rsp.stack][cpu'.rsp.depth] = Woken(cpu)
    <3>1. stack \in [Tasks -> [1..StackDepth -> Regs]]
      BY DEF StackInv
    <3> QED
      BY <2>1, <2>3, <2>4, <3>1 DEF Resumable
  <2>6. CurrentRegs = cpu /\ CurrentRegs' = Woken(cpu)
    BY <2>2, <2>4, <2>5, CodePoints DEF CurrentRegs
  <2> QED
    BY <2>1, <2>3, <2>6, RegsFound, OthersKeep, RunStep
<1>5. CASE lapic_timer_handler
  BY <1>5, RefineHandler
<1>6. CASE iretq
  <2> DEFINE frame == stack[cpu.rsp.stack][cpu.rsp.depth]
  <2>1. /\ cpu.rip = Iretq /\ boot = "running" /\ frame \in Regs
        /\ cpu' = [frame EXCEPT !.rax = cpu.rax]
        /\ UNCHANGED schedVars
    BY <1>6, CpuFacts DEF iretq
  <2>2. Belongs(c, frame) /\ c \in Tasks
    BY <2>1, RegsFound DEF OwnRegs
  <2>3. cpu'.rip \notin {Handler, Iretq}
    <3>1. frame.rip \notin {Handler, Iretq} /\ cpu'.rip = frame.rip
      BY <2>1, <2>2, BelongsFacts DEF Regs
    <3> QED
      BY <3>1
  <2>4. CurrentRegs' = CurrentRegs
    BY <2>1, <2>3, CodePoints DEF CurrentRegs
  <2>5. /\ Ring' = Ring /\ Running' = Running
        /\ \A t \in Tasks : VirtualRegs(t)' = VirtualRegs(t)
    BY <2>1, <2>4, RegsFound, OthersKeep
  <2> QED
    BY <2>5 DEF VirtualStep, Vcpu
<1>7. CASE UNCHANGED vars
  BY <1>7, NothingChanges DEF vars, hwVars
<1> QED
  BY <1>1, <1>2, <1>3, <1>4, <1>5, <1>6, <1>7 DEF Next

(* If no task computes the value create_task marks new tasks with,         *)
(* preemption is transparent: whatever the interleaving, every task sees   *)
(* its own registers change by its own code only, and the CPU goes round   *)
(* in the order of admission (sched.cc, schedule_from_interrupt;           *)
(* idt_asm.asm, service_interrupt).  The first tick that is taken between  *)
(* sti and iretq ends it.                                                  *)
THEOREM ImplementsVirtualCpus ==
  ASSUME Marker \notin RaxVals
  PROVE  Spec => PreemptionTransparent
<1>1. Init => Virtual!VirtualInit
  <2> SUFFICES ASSUME Init PROVE Virtual!VirtualInit
    OBVIOUS
  <2>1. SchedInv /\ boot = "init_kernel_task"
    BY MachineInit DEF Init, SchedInit, MachineInv
  <2>2. Ring \in [1..0 -> Tasks]
    BY <2>1, RingOfTasks DEF RingNumbered, Size
  <2>3. Ring = <<>>
    BY <2>2
  <2> QED
    BY <2>1, <2>3, VirtualCode DEF Virtual!VirtualInit, VirtualRegs
<1>2. MachineInv /\ MachineInv' /\ OwnInv /\ MarkInv /\ [Next]_vars
        => [nested' > 0 \/ Virtual!VirtualNext]_(Virtual!virtualVars)
  <2> SUFFICES ASSUME MachineInv, MachineInv', OwnInv, MarkInv, [Next]_vars,
                      ~(nested' > 0)
               PROVE  [Virtual!VirtualNext]_(Virtual!virtualVars)
    OBVIOUS
  <2>1. nested = 0 /\ nested' = 0
    BY NestedGrows
  <2>2. VirtualStep
    BY <2>1, RefineNext DEF OwnInv
  <2> QED
    BY <2>2 DEF VirtualStep, Virtual!virtualVars, Running, Vcpu
<1> QED
  BY <1>1, <1>2, MachineInvariant, OwnInvariant, MarkInvariant, PTL
     DEF Spec, PreemptionTransparent
=============================================================================
