---------------------------- MODULE MCTaskSwitch ----------------------------
(* Model checking of TaskSwitch.  The tasks are KernelMain, task1 and task2 *)
(* of main.cc and, where the state space allows it, one more; `other`       *)
(* stands for every non-zero register value.                                *)
EXTENDS TaskSwitch, TLC

CONSTANTS kernel_main, task1, task2, task3, zero, other, deadbeef

MCThreeTasks == {kernel_main, task1, task2}
MCTasks      == {kernel_main, task1, task2, task3}

(* Nothing tells the tasks made by create_task apart.                      *)
TaskSymmetry == Permutations({task1, task2, task3})

MCRaxVals == {zero, other}

(* Where no property looks at register values.                             *)
MCOneRaxVal == {zero}

(* Task code that may also compute the value create_task uses as its mark. *)
MCRaxValsWithMarker == {zero, other, deadbeef}

(* Bound: after a tick has nested, behaviours are followed through the     *)
(* handlers and the iretqs, until code of a task executes again.           *)
NestingsOnly == nested = 0 \/ cpu.rip \in {Handler, Iretq}
=============================================================================
