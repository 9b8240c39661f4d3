----------------------------- MODULE TaskSwitch -----------------------------
(***************************************************************************)
(* Preemption on the boot CPU: the scheduler of Sched composed with the    *)
(* task that executes, the stacks the tasks use, the periodic local APIC   *)
(* timer, and the interrupt path                                           *)
(*                                                                         *)
(*   CPU pushes the frame on the interrupted task's stack                  *)
(*   service_interrupt  cli, push, call handle_interrupt                   *)
(*   lapic_timer_handler  schedule_from_interrupt(frame), lapic_eoi        *)
(*   service_interrupt  pop, sti, add rsp, iretq                           *)
(*                                                                         *)
(* A task switch is nothing but the exchange of the frame's contents: the  *)
(* registers of the new task are loaded by the pops and the iretq, from    *)
(* the stack of the old task.  Between the sti and the iretq interrupts    *)
(* are on again, and the timer never stops: a tick may be taken there.  It *)
(* is likely to be, with a period of 100 at divide-by-16 (lapic.cc:213)    *)
(* and a handler that prints to a serial port.                             *)
(***************************************************************************)
EXTENDS Sched, FiniteSets

CONSTANTS
  MaxNested  \* bound: ticks taken between the sti and the iretq

ASSUME TaskSwitchAssumption == MaxNested \in Nat

VARIABLES
  cpu,    \* the registers the boot CPU holds
  stack,  \* for each task the slots of its stack; slot 1 is the outermost
  irr,    \* local APIC: a timer interrupt is pending
  isr,    \* local APIC: a timer interrupt is in service, no EOI yet
  nested  \* history variable: how many ticks were taken before an iretq

hwVars == <<cpu, stack, irr, isr>>
vars   == <<schedVars, hwVars, nested>>

(* What a task's own calls leave in a stack slot; no interrupt frame.      *)
Data == NoRegs

Init ==
  /\ SchedInit
  /\ cpu = [FreshRegs(init_task) EXCEPT !.iflag = FALSE]
  /\ stack = [t \in Tasks |-> [d \in 1..StackDepth |-> Data]]
  /\ irr = FALSE
  /\ isr = FALSE
  /\ nested = 0

-----------------------------------------------------------------------------
(* KernelMain up to the sti of enable_interrupts; it runs as init_task.    *)
Boot(step) ==
  /\ step
  /\ cpu' = IF boot' = "running" THEN [cpu EXCEPT !.iflag = TRUE] ELSE cpu
  /\ UNCHANGED <<stack, irr, isr, nested>>

(* The code of the running task: a call fills the slots down to the new    *)
(* stack pointer, whatever they held.                                      *)
TaskStep ==
  /\ boot = "running"
  /\ cpu.rip.owner \in Tasks
  /\ cpu' \in ProgramSteps(cpu)
  /\ stack' = [stack EXCEPT ![cpu.rsp.stack] =
                 [d \in 1..StackDepth |->
                    IF cpu.rsp.depth < d /\ d <= cpu'.rsp.depth
                    THEN Data ELSE @[d]]]
  /\ UNCHANGED <<schedVars, irr, isr, nested>>

(* The periodic timer expires: its vector becomes pending, once.           *)
TimerFire ==
  /\ ~irr
  /\ irr' = TRUE
  /\ UNCHANGED <<schedVars, cpu, stack, isr, nested>>

(* The CPU accepts the interrupt: the frame goes on the current stack and  *)
(* the interrupt gate turns interrupts off.                                *)
Interrupt ==
  /\ irr /\ ~isr /\ cpu.iflag
  /\ cpu.rsp.depth < StackDepth
  /\ cpu.rip = Iretq => nested < MaxNested
  /\ LET top == cpu.rsp.depth + 1
     IN  /\ stack' = [stack EXCEPT ![cpu.rsp.stack][top] = Woken(cpu)]
         /\ cpu' = [cpu EXCEPT !.rip = Handler, !.rsp.depth = top,
                               !.iflag = FALSE]
  /\ irr' = FALSE
  /\ isr' = TRUE
  /\ nested' = IF cpu.rip = Iretq THEN nested + 1 ELSE nested
  /\ UNCHANGED schedVars

(* Mutant: the EOI is forgotten.                                           *)
lapic_timer_handler_NoEoi ==
  /\ cpu.rip = Handler
  /\ LET frame == stack[cpu.rsp.stack][cpu.rsp.depth]
         after == restore_interrupt_context(frame)
     IN  /\ schedule_from_interrupt(frame)
         /\ stack' = [stack EXCEPT ![cpu.rsp.stack][cpu.rsp.depth] = after]
         /\ cpu' = [cpu EXCEPT !.rip = Iretq, !.rax = after.rax, !.iflag = TRUE]
  /\ UNCHANGED <<irr, isr, nested>>

(* From service_interrupt's cli to its sti: the handler rewrites the frame *)
(* and sends the EOI, then the general purpose registers are popped.  The  *)
(* frame's rip, rsp and rflags stay on the stack for the iretq.            *)
lapic_timer_handler ==
  /\ cpu.rip = Handler
  /\ LET frame == stack[cpu.rsp.stack][cpu.rsp.depth]
         after == restore_interrupt_context(frame)
     IN  /\ schedule_from_interrupt(frame)
         /\ stack' = [stack EXCEPT ![cpu.rsp.stack][cpu.rsp.depth] = after]
         /\ cpu' = [cpu EXCEPT !.rip = Iretq, !.rax = after.rax, !.iflag = TRUE]
  /\ isr' = FALSE
  /\ UNCHANGED <<irr, nested>>

(* Mutant: a jump to the popped rip that leaves rsp below the frame.       *)
iretq_KeepsRsp ==
  /\ cpu.rip = Iretq
  /\ LET frame == stack[cpu.rsp.stack][cpu.rsp.depth]
     IN  cpu' = [frame EXCEPT !.rax = cpu.rax, !.rsp = cpu.rsp]
  /\ UNCHANGED <<schedVars, stack, irr, isr, nested>>

(* iretq pops rip, rflags and rsp from whatever the stack pointer names.   *)
(* As long as no tick has nested, nobody reads what is left in the popped  *)
(* slot before it is written again; it is cleared so as not to tell states *)
(* apart.                                                                  *)
iretq ==
  /\ cpu.rip = Iretq
  /\ LET frame == stack[cpu.rsp.stack][cpu.rsp.depth]
     IN  cpu' = [frame EXCEPT !.rax = cpu.rax]
  /\ stack' = IF nested > 0 THEN stack
              ELSE [stack EXCEPT ![cpu.rsp.stack][cpu.rsp.depth] = Data]
  /\ UNCHANGED <<schedVars, irr, isr, nested>>

Next ==
  \/ Boot(init_kernel_task)
  \/ Boot(set_current_task)
  \/ \E t \in Tasks : Boot(create_task(t))
  \/ Boot(start_scheduler)
  \/ Boot(enable_interrupts)
  \/ TaskStep
  \/ TimerFire
  \/ Interrupt
  \/ lapic_timer_handler
  \/ iretq

Spec == Init /\ [][Next]_vars

(* KernelMain never stops before enable_interrupts, the timer is periodic, *)
(* and the CPU takes a pending interrupt and works through the handler.    *)
(* Nothing is assumed of the tasks: they may halt or loop for ever.        *)
Fairness ==
  /\ WF_vars(Boot(KernelMain))
  /\ WF_vars(TimerFire)
  /\ WF_vars(Interrupt)
  /\ WF_vars(lapic_timer_handler)
  /\ WF_vars(iretq)

FairSpec == Spec /\ Fairness

-----------------------------------------------------------------------------
(* Types.  StackDepth is a bound of the model; the code has 4096-byte      *)
(* stacks and no check.                                                    *)
TypeOK ==
  /\ SchedTypeOK
  /\ cpu \in Regs
  /\ stack \in [Tasks -> [1..StackDepth -> Regs]]
  /\ irr \in BOOLEAN
  /\ isr \in BOOLEAN
  /\ nested \in 0..MaxNested

(* The composition drives the scheduler only as sched.cc alone allows.     *)
SchedulerSteps == [][SchedNext]_schedVars

(* r is a point in t's own code with t's own stack: resuming r resumes t.  *)
Owns(t, r) == /\ r.rip.owner = t
              /\ r.rsp.stack = t
              /\ r.iflag

(* What a created task that does not have the CPU will resume is its own:  *)
(* the frame that was saved into its context was its own, although frames  *)
(* are built, saved and consumed on three different stacks.  Only a tick   *)
(* taken between sti and iretq can break this.                             *)
ContextsAreOwn ==
  boot = "running" /\ nested = 0 =>
    \A t \in Created \ {current_task} : Owns(t, task[t].context)

(* Whenever task code executes it is the code of current_task, on its own  *)
(* stack and with interrupts on, so that the next tick is taken.  Again,   *)
(* only a nested tick can break it.                                        *)
CpuIsCurrent ==
  boot = "running" /\ nested = 0 /\ cpu.rip # Handler /\ cpu.rip # Iretq =>
    Owns(current_task, cpu)

(* Interrupt frames do not pile up: a stack never holds more than its      *)
(* task's own calls and one frame, and one more for every tick that was    *)
(* taken between sti and iretq, however long the system runs and whatever  *)
(* became of those frames.                                                 *)
FramesPerNesting == cpu.rsp.depth <= UserDepth + 1 + nested

(* The frame an iretq pops is a frame: no task's calls have overwritten it *)
(* between the interrupt and the return from it.                           *)
FrameSurvives == cpu.rip = Iretq => stack[cpu.rsp.stack][cpu.rsp.depth] # Data

(* create_task's 0xDEADBEEF in rax says "has not run yet" to               *)
(* schedule_from_interrupt: a context that holds it is at its entry point. *)
MarkerMeansNew ==
  \A t \in Created :
    task[t].context.rax = Marker => task[t].context.rip = CodePoint(t, Entry)

(* Every task created before the scheduler started executes its own code   *)
(* again and again, whatever the other tasks do, unless a tick nests.      *)
EveryTaskRuns ==
  \A t \in Tasks :
    (boot = "running" /\ t \in Created) ~> []<>(cpu.rip.owner = t \/ nested > 0)

-----------------------------------------------------------------------------
(* Preemption is transparent: the kernel implements VirtualCpus, step by   *)
(* step until a tick nests.                                                *)

(* The tasks in the order of their PIDs.                                   *)
Ring == LET C == Created
        IN  [i \in 1..Cardinality(C) |-> CHOOSE t \in C : task[t].pid = i - 1]

(* Where the registers of the running task are: in the CPU while it        *)
(* executes; in the interrupt frame while the handler runs, except that    *)
(* the CPU holds rax once it has been popped.                              *)
CurrentRegs ==
  LET frame == stack[cpu.rsp.stack][cpu.rsp.depth]
  IN  CASE cpu.rip = Handler -> frame
        [] cpu.rip = Iretq   -> [frame EXCEPT !.rax = cpu.rax]
        [] OTHER             -> cpu

(* A task that is switched out has them in its context.                    *)
VirtualRegs(t) ==
  IF boot # "running" \/ t \notin Created THEN FreshRegs(t)
  ELSE IF t = current_task THEN CurrentRegs
  ELSE ClearMarker(task[t].context)

Virtual == INSTANCE VirtualCpus WITH
  ring    <- Ring,
  running <- IF boot = "running" THEN current_task ELSE Null,
  vcpu    <- [t \in Tasks |-> VirtualRegs(t)]

PreemptionTransparent ==
  /\ Virtual!VirtualInit
  /\ [][nested' > 0 \/ Virtual!VirtualNext]_(Virtual!virtualVars)
=============================================================================
