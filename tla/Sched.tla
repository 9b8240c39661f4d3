------------------------------- MODULE Sched -------------------------------
(***************************************************************************)
(* The scheduler of sched.cc: the circular list of task_t objects, the     *)
(* task states and saved contexts, and the decision the timer interrupt    *)
(* takes.  KernelMain drives the set-up in a fixed order with interrupts   *)
(* off; after that only schedule_from_interrupt changes this state.        *)
(*                                                                         *)
(* Here the interrupt frame is an input: any register file may be the      *)
(* interrupted one.  TaskSwitch composes the scheduler with the CPU that   *)
(* produces and consumes the frames.                                       *)
(***************************************************************************)
EXTENDS TaskCode

VARIABLES
  task,             \* the task_t at each address
  current_task,
  task_queue,
  next_pid,
  scheduler_ready,
  boot              \* the call of KernelMain that comes next

schedVars == <<task, current_task, task_queue, next_pid, scheduler_ready, boot>>

TASK_READY   == "READY"
TASK_RUNNING == "RUNNING"
Unallocated  == "UNALLOCATED"   \* no task_t at this address yet

BootSteps == {"init_kernel_task", "set_current_task", "create_task",
              "enable_interrupts", "running"}

task_t == [pid : Nat, state : {TASK_READY, TASK_RUNNING, Unallocated},
           context : Regs, next : Tasks \cup {Null}]

(* The tasks whose task_t has been linked into the list.                   *)
Created == {t \in Tasks : task[t].state # Unallocated}

SchedInit ==
  /\ task = [t \in Tasks |-> [pid |-> 0, state |-> Unallocated,
                              context |-> NoRegs, next |-> Null]]
  /\ current_task = Null
  /\ task_queue = Null
  /\ next_pid = 1
  /\ scheduler_ready = FALSE
  /\ boot = "init_kernel_task"

-----------------------------------------------------------------------------
(* Set-up, called by KernelMain with interrupts off.                       *)

(* init_kernel_task(&init_task): zero the object, rflags = 0x202, a ring   *)
(* of one.  The checks for a null or low address never hold for a static   *)
(* object of the kernel image.                                             *)
init_kernel_task ==
  /\ boot = "init_kernel_task"
  /\ task' = [task EXCEPT ![init_task] =
                [pid |-> 0, state |-> TASK_RUNNING,
                 context |-> [NoRegs EXCEPT !.iflag = TRUE], next |-> init_task]]
  /\ task_queue' = init_task
  /\ boot' = "set_current_task"
  /\ UNCHANGED <<current_task, next_pid, scheduler_ready>>

set_current_task ==
  /\ boot = "set_current_task"
  /\ current_task' = init_task
  /\ task' = [task EXCEPT ![init_task].state = TASK_RUNNING]
  /\ boot' = "create_task"
  /\ UNCHANGED <<task_queue, next_pid, scheduler_ready>>

(* Mutant: the new task goes behind the head, without the walk.            *)
LastTask_Head == task_queue

(* The task at which the walk `while (last->next != task_queue)` stops.    *)
LastTask == CHOOSE last \in Created : task[last].next = task_queue

(* create_task: t is the address kmalloc returned.  A failed allocation    *)
(* returns nullptr and changes nothing, a stuttering step.                 *)
create_task(t) ==
  /\ boot = "create_task"
  /\ t \notin Created
  /\ LET new == [pid |-> next_pid, state |-> TASK_READY,
                 context |-> [FreshRegs(t) EXCEPT !.rax = Marker],
                 next |-> IF task_queue = Null THEN t ELSE task_queue]
     IN  task' = IF task_queue = Null
                 THEN [task EXCEPT ![t] = new]
                 ELSE [task EXCEPT ![t] = new, ![LastTask].next = t]
  /\ task_queue' = IF task_queue = Null THEN t ELSE task_queue
  /\ next_pid' = next_pid + 1
  /\ UNCHANGED <<current_task, scheduler_ready, boot>>

start_scheduler ==
  /\ boot = "create_task"
  /\ scheduler_ready' = (current_task # Null /\ task_queue # Null)
  /\ boot' = "enable_interrupts"
  /\ UNCHANGED <<task, current_task, task_queue, next_pid>>

enable_interrupts ==
  /\ boot = "enable_interrupts"
  /\ boot' = "running"
  /\ UNCHANGED <<task, current_task, task_queue, next_pid, scheduler_ready>>

-----------------------------------------------------------------------------
(* The timer interrupt.                                                    *)

NextTask == IF task[current_task].next = Null THEN task_queue
            ELSE task[current_task].next

Switches == /\ scheduler_ready
            /\ current_task # Null
            /\ task_queue # Null
            /\ NextTask # current_task
            /\ task[NextTask].state = TASK_READY

(* Mutants: saved after current_task has moved on; one register forgotten; *)
(* the interrupted task left RUNNING.                                      *)
save_interrupt_context_Late(frame) ==
  [task EXCEPT ![NextTask].context = frame, ![current_task].state = TASK_READY]
save_interrupt_context_NoRax(frame) ==
  [task EXCEPT ![current_task].context = [frame EXCEPT !.rax = task[current_task].context.rax],
               ![current_task].state = TASK_READY]
save_interrupt_context_Running(frame) ==
  [task EXCEPT ![current_task].context = frame]

(* The interrupted registers go into current_task, which becomes READY.    *)
save_interrupt_context(frame) ==
  [task EXCEPT ![current_task].context = frame,
               ![current_task].state = TASK_READY]

(* The test for the mark create_task left in rax.                          *)
ClearMarker(ctx) == IF ctx.rax = Marker THEN [ctx EXCEPT !.rax = Zero] ELSE ctx

(* A switch to the next task in the ring, or nothing.                      *)
schedule_from_interrupt(frame) ==
  /\ IF Switches
     THEN /\ task' = [save_interrupt_context(frame) EXCEPT
                        ![NextTask].state = TASK_RUNNING,
                        ![NextTask].context = ClearMarker(@)]
          /\ current_task' = NextTask
     ELSE UNCHANGED <<task, current_task>>
  /\ UNCHANGED <<task_queue, next_pid, scheduler_ready, boot>>

(* Mutant: the frame is left as it was.                                    *)
restore_interrupt_context_Skipped(frame) == frame

(* restore_interrupt_context: what the frame holds when the call returns.  *)
restore_interrupt_context(frame) ==
  IF Switches THEN ClearMarker(task[NextTask].context) ELSE frame

-----------------------------------------------------------------------------
KernelMain == \/ init_kernel_task
              \/ set_current_task
              \/ \E t \in Tasks : create_task(t)
              \/ start_scheduler
              \/ enable_interrupts

SchedNext ==
  \/ KernelMain
  \/ boot = "running" /\ \E frame \in Regs : schedule_from_interrupt(frame)

SchedSpec == SchedInit /\ [][SchedNext]_schedVars

-----------------------------------------------------------------------------
SchedTypeOK ==
  /\ task \in [Tasks -> task_t]
  /\ current_task \in Tasks \cup {Null}
  /\ task_queue \in Tasks \cup {Null}
  /\ next_pid \in Nat \ {0}
  /\ scheduler_ready \in BOOLEAN
  /\ boot \in BootSteps

(* The list is one ring of all created tasks in the order of their PIDs:   *)
(* PIDs are 0 .. next_pid-1, each used once, `next` leads from each PID to *)
(* the following one and from the last back to the queue head, PID 0.      *)
(* Both walks that end "when next is task_queue" (create_task and          *)
(* print_task_queue) therefore terminate, and round robin misses nobody.   *)
RingInv ==
  boot # "init_kernel_task" =>
    /\ task_queue \in Created
    /\ task[task_queue].pid = 0
    /\ \A t, u \in Created : task[t].pid = task[u].pid => t = u
    /\ \A n \in 0..(next_pid - 1) : \E t \in Created : task[t].pid = n
    /\ \A t \in Created :
         /\ task[t].pid < next_pid
         /\ task[t].next \in Created
         /\ task[task[t].next].pid =
              IF task[t].pid + 1 = next_pid THEN 0 ELSE task[t].pid + 1

(* Exactly the task that current_task points to is RUNNING; every other    *)
(* task in the ring is READY, so a switch is never refused and no task can *)
(* drop out of the rotation.                                               *)
OneRunning ==
  boot \notin {"init_kernel_task", "set_current_task"} =>
    /\ current_task \in Created
    /\ \A t \in Created :
         task[t].state = IF t = current_task THEN TASK_RUNNING ELSE TASK_READY
=============================================================================
