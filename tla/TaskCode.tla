------------------------------ MODULE TaskCode ------------------------------
(***************************************************************************)
(* What a kernel task looks like to the scheduler: the registers the CPU   *)
(* holds while it executes, and the register changes its own code may      *)
(* make.  The tasks are task1 and task2 of main.cc and KernelMain itself,  *)
(* which becomes the task with PID 0.  All run in ring 0 with the same     *)
(* segment registers and the same page table, so a register file is        *)
(*   rip  the code point,      rsp  the stack pointer,                     *)
(*   rax  one general purpose register standing for all fifteen,           *)
(*   iflag  the interrupt flag of rflags.                                  *)
(***************************************************************************)
EXTENDS Naturals

CONSTANTS
  Tasks,      \* addresses of task_t objects: init_task and kmalloc results
  init_task,  \* the statically allocated task of KernelMain
  Null,       \* nullptr
  RaxVals,    \* the values task code computes in rax
  Zero,       \* 0, the value a new task starts with
  Marker,     \* 0xDEADBEEF
  UserDepth,  \* bound: stack slots a task's own calls use
  StackDepth  \* bound: stack slots of a task, interrupt frames included

ASSUME TaskCodeAssumption ==
  /\ init_task \in Tasks
  /\ Null \notin Tasks
  /\ Zero \in RaxVals
  /\ Zero # Marker
  /\ UserDepth \in Nat
  /\ StackDepth \in Nat
  /\ UserDepth < StackDepth

-----------------------------------------------------------------------------
(* Code points.  A task's code is its entry point, the loop body that      *)
(* calls printk, and the hlt inside yield() (or halt_cpu()).  Owner Null   *)
(* is kernel code that belongs to no task: address zero, the timer entry   *)
(* path up to its sti, and the window between that sti and the iretq.      *)
Entry == 0
Body  == 1
Hlt   == 2

CodePoint(o, p) == [owner |-> o, pc |-> p]
NoRip    == CodePoint(Null, 0)
Handler  == CodePoint(Null, 3)
Iretq    == CodePoint(Null, 4)

Points   == [owner : Tasks \cup {Null}, pc : 0..4]
StackPtr == [stack : Tasks \cup {Null}, depth : 0..StackDepth]
Regs     == [rip : Points, rsp : StackPtr, rax : RaxVals \cup {Marker},
             iflag : BOOLEAN]

(* Mutant: `+ stack_size` forgotten, rsp lies beyond the stack's last slot. *)
FreshRegs_StackBase(t) == [rip |-> CodePoint(t, Entry),
                           rsp |-> [stack |-> t, depth |-> StackDepth + 1],
                           rax |-> Zero, iflag |-> TRUE]

(* The registers create_task prepares for a task that has not run yet.     *)
FreshRegs(t) == [rip |-> CodePoint(t, Entry),
                 rsp |-> [stack |-> t, depth |-> 0],
                 rax |-> Zero, iflag |-> TRUE]

(* A zeroed task_context_t.                                                *)
NoRegs == [rip |-> NoRip, rsp |-> [stack |-> Null, depth |-> 0],
           rax |-> Zero, iflag |-> FALSE]

-----------------------------------------------------------------------------
(* One step of a task's own code: it computes, calls and returns, and in   *)
(* yield() executes "sti; hlt".  At the hlt the code makes no step of its  *)
(* own: an interrupt has to arrive.                                        *)
ProgramSteps(r) ==
  IF r.rip.pc = Hlt THEN {}
  ELSE { [rip |-> CodePoint(r.rip.owner, p),
          rsp |-> [r.rsp EXCEPT !.depth = d],
          rax |-> v,
          iflag |-> r.iflag \/ p = Hlt] :
            p \in {Body, Hlt}, d \in 0..UserDepth, v \in RaxVals }

(* The registers the CPU pushes when it is interrupted: a halted CPU       *)
(* continues behind the hlt, in the loop around yield() or in halt_cpu().  *)
Woken(r) == IF r.rip.pc = Hlt THEN [r EXCEPT !.rip.pc = Body] ELSE r
=============================================================================
