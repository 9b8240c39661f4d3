---------------------------- MODULE VirtualCpus ----------------------------
(***************************************************************************)
(* What preemptive scheduling promises: every task owns a virtual CPU that *)
(* nobody else touches.  Tasks are admitted to a ring; from the moment the *)
(* scheduler starts exactly one of them runs, only the running one changes *)
(* its own registers, and a switch hands the CPU to its successor in the   *)
(* order of admission without changing any register of any task.           *)
(***************************************************************************)
EXTENDS TaskCode, Sequences

VARIABLES
  ring,     \* the admitted tasks, in order of admission
  running,  \* the task that has the CPU, Null before the scheduler starts
  vcpu      \* the registers of each task's virtual CPU

virtualVars == <<ring, running, vcpu>>

VirtualInit ==
  /\ ring = <<>>
  /\ running = Null
  /\ vcpu = [t \in Tasks |-> FreshRegs(t)]

Admitted(t) == \E i \in DOMAIN ring : ring[i] = t

Successor(t) ==
  LET i == CHOOSE j \in DOMAIN ring : ring[j] = t
  IN  ring[(i % Len(ring)) + 1]

Admit(t) ==
  /\ running = Null
  /\ ~Admitted(t)
  /\ ring' = Append(ring, t)
  /\ UNCHANGED <<running, vcpu>>

Start ==
  /\ running = Null
  /\ Admitted(init_task)
  /\ running' = init_task
  /\ UNCHANGED <<ring, vcpu>>

(* The running task changes its own registers: a step of its code, or the  *)
(* step from a hlt to the instruction behind it.                           *)
Run ==
  /\ running # Null
  /\ running' = running
  /\ vcpu'[running] \in ProgramSteps(vcpu[running]) \cup {Woken(vcpu[running])}
  /\ vcpu' = [vcpu EXCEPT ![running] = vcpu'[running]]
  /\ ring' = ring

Switch ==
  /\ running # Null
  /\ running' = Successor(running)
  /\ UNCHANGED <<ring, vcpu>>

VirtualNext == (\E t \in Tasks : Admit(t)) \/ Start \/ Run \/ Switch

VirtualSpec == VirtualInit /\ [][VirtualNext]_virtualVars
=============================================================================
