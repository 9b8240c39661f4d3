-------------------------------- MODULE ApStart --------------------------------
(***************************************************************************)
(* Starting the other processors: the end of fw_fini in loader_x86.c, the  *)
(* trampoline it copies to 0x8000, the hand-over in _start, and the first  *)
(* lines of the kernel, which send every processor but one to sleep.       *)
(*                                                                         *)
(* The processors share a few bytes of low memory: flag (0x558), which a   *)
(* processor increments when it comes up, and entry (0x538), on which it   *)
(* then spins.                                                             *)
(***************************************************************************)
EXTENDS Integers, Sequences, SequencesExt, FiniteSets

CONSTANTS
  Madt,      \* the APIC tables found: sequences of [id, enabled]
  Bsp,       \* the local APIC id of the processor that boots
  Dead,      \* processors that do not answer
  TscLow,    \* what the low half of the time stamp counter may read as
  StackTop,  \* 0x90000
  StackRoom, \* 1024, what a processor is given of it
  StackUse,  \* how much of it a processor needs that only finds out it is to halt
  BootUse    \* how much the processor with the id 0 needs, which runs the whole kernel

(* Local APIC ids are bytes (loader_x86.c: uint8_t ids). *)
ASSUME ApStartAssumption ==
  /\ Madt \in Seq(Seq([id : 0..255, enabled : BOOLEAN]))
  /\ Bsp \in 0..255 /\ StackTop \in Int
  /\ TscLow \subseteq Nat \ {0} /\ TscLow /= {}
  /\ StackUse \in Nat \ {0} /\ StackRoom \in Nat \ {0} /\ StackUse <= StackRoom
  /\ BootUse \in Nat

VARIABLES
  pc, i,     \* where the booting processor is, and at which core
  a,         \* the variable that counts down and that sleep overwrites
  flag, entry,
  running,   \* the tag's count
  cpu,       \* what each processor does
  rsp,       \* its stack pointer when it entered the kernel
  retried    \* history: a wait has ended without the flag

vars == <<pc, i, a, flag, entry, running, cpu, rsp, retried>>

(* Mutant: disabled cores are taken as well. *)
IdsOf_Disabled(table) == SelectSeq(table, LAMBDA x : x.id /= 255)

(* Cores of an APIC table: enabled ones, and 0xFF is no core. *)
IdsOf(table) == SelectSeq(table, LAMBDA x : x.enabled /\ x.id /= 255)

(* The list is begun anew for every table. *)
ids == IF Madt = <<>> THEN <<>> ELSE [j \in DOMAIN IdsOf(Last(Madt)) |-> IdsOf(Last(Madt))[j].id]

Cores == {x.id : x \in UNION {ToSet(Madt[j]) : j \in DOMAIN Madt}} \cup {Bsp}
Alive == Cores \ Dead

Skipped == ids[i] = Bsp

(* The next core of the loop, or what follows the loop. *)
NextCore(loop, after) == IF i < Len(ids) THEN pc' = loop /\ i' = i + 1 ELSE pc' = after /\ i' = 1

Init ==
  /\ pc = "start" /\ i = 1 /\ a = 0
  /\ flag = 0 /\ entry \in {0, 1}   \* low memory holds whatever was there
  /\ running = 1 /\ retried = FALSE
  /\ cpu = [c \in Cores |-> IF c = Bsp THEN "loader" ELSE "off"]
  /\ rsp = [c \in Cores |-> 0]

(* Mutant: the semaphore keeps its old contents. *)
PrepareLowMemory_Keep ==
  /\ pc = "start"
  /\ pc' = IF Len(ids) > 1 THEN "init" ELSE "single"
  /\ UNCHANGED <<i, a, flag, entry, running, cpu, rsp, retried>>

(* 0x530 to 0x550 are filled in when there is more than one core. *)
PrepareLowMemory ==
  /\ pc = "start"
  /\ IF Len(ids) > 1 THEN pc' = "init" /\ entry' = 0 ELSE pc' = "single" /\ UNCHANGED entry
  /\ UNCHANGED <<i, a, flag, running, cpu, rsp, retried>>

(* Each other core is reset. *)
SendInit ==
  /\ pc = "init"
  /\ NextCore("init", "sipi")
  /\ cpu' = IF Skipped THEN cpu ELSE [cpu EXCEPT ![ids[i]] = "reset"]
  /\ UNCHANGED <<a, flag, entry, running, rsp, retried>>

(* What a start-up message does: only a core that was reset minds it. *)
Started(id) == IF cpu[id] = "reset" /\ id \in Alive THEN [cpu EXCEPT ![id] = "started"] ELSE cpu

SkipBsp ==
  /\ pc = "sipi" /\ Skipped
  /\ NextCore("sipi", "handover")
  /\ UNCHANGED <<a, flag, entry, running, cpu, rsp, retried>>

(* Mutant: the flag of the processor before is left standing. *)
SendSipi_KeepFlag ==
  /\ pc = "sipi" /\ ~Skipped
  /\ cpu' = Started(ids[i])
  /\ a' = 250
  /\ pc' = "wait"
  /\ UNCHANGED <<i, flag, entry, running, rsp, retried>>

SendSipi ==
  /\ pc = "sipi" /\ ~Skipped
  /\ flag' = 0
  /\ cpu' = Started(ids[i])
  /\ a' = 250
  /\ pc' = "wait"
  /\ UNCHANGED <<i, entry, running, rsp, retried>>

(* for(a = 250; !flag && a > 0; a--) sleep(1): sleep reads the time stamp  *)
(* counter into a.                                                         *)
WaitForFlag ==
  /\ pc = "wait"
  /\ IF flag = 0 /\ a > 0
     THEN \E t \in TscLow : a' = t - 1 /\ UNCHANGED <<pc, retried>>
     ELSE /\ pc' = IF flag = 0 THEN "again" ELSE "count"
          /\ retried' = (retried \/ flag = 0)
          /\ UNCHANGED a
  /\ UNCHANGED <<i, flag, entry, running, cpu, rsp>>

SendSecondSipi ==
  /\ pc = "again"
  /\ cpu' = Started(ids[i])
  /\ pc' = "count"
  /\ UNCHANGED <<i, a, flag, entry, running, rsp, retried>>

CountCore ==
  /\ pc = "count"
  /\ running' = running + (IF flag /= 0 THEN 1 ELSE 0)
  /\ NextCore("sipi", "handover")
  /\ UNCHANGED <<a, flag, entry, cpu, rsp, retried>>

StackOf(id) == StackTop - id * StackRoom

(* The booting processor enters the kernel on the stack at the top. *)
HandOver ==
  /\ pc \in {"handover", "single"}
  /\ flag' = 0
  /\ entry' = IF pc = "handover" THEN 1 ELSE entry
  /\ cpu' = [cpu EXCEPT ![Bsp] = "kernel"]
  /\ rsp' = [rsp EXCEPT ![Bsp] = StackTop]
  /\ pc' = "done"
  /\ UNCHANGED <<i, a, running, retried>>

(* The trampoline: incb (0x558), then a spin on 0x538. *)
ComeUp(id) ==
  /\ cpu[id] = "started"
  /\ flag' = (flag + 1) % 256
  /\ cpu' = [cpu EXCEPT ![id] = "spinning"]
  /\ UNCHANGED <<pc, i, a, entry, running, rsp, retried>>

EnterKernel(id) ==
  /\ cpu[id] = "spinning" /\ entry /= 0
  /\ cpu' = [cpu EXCEPT ![id] = "kernel"]
  /\ rsp' = [rsp EXCEPT ![id] = StackOf(id)]
  /\ UNCHANGED <<pc, i, a, flag, entry, running, retried>>

(* main.cc: the processor with id 0 goes on, the others halt for good. *)
KernelMain(id) ==
  /\ cpu[id] = "kernel"
  /\ cpu' = [cpu EXCEPT ![id] = IF id /= 0 THEN "halted" ELSE "main"]
  /\ UNCHANGED <<pc, i, a, flag, entry, running, rsp, retried>>

Loader ==
  \/ PrepareLowMemory \/ SendInit
  \/ SkipBsp \/ SendSipi \/ WaitForFlag \/ SendSecondSipi \/ CountCore
  \/ HandOver

Core(id) == ComeUp(id) \/ EnterKernel(id) \/ KernelMain(id)

Next == Loader \/ \E id \in Cores : Core(id)

(* Every processor executes; one that answers at all comes up some time. *)
Spec ==
  /\ Init /\ [][Next]_vars
  /\ WF_vars(Loader)
  /\ \A id \in Cores : WF_vars(Core(id))

(***************************************************************************)
(* Properties                                                              *)
(***************************************************************************)
(* The counters stay in bounds, and the booting processor is never reset   *)
(* or started by its own messages.                                         *)
TypeOK ==
  /\ pc \in {"start", "init", "sipi", "wait", "again", "count", "handover", "single", "done"}
  /\ i \in 1..Len(ids) + 1 /\ a \in 0..250 \cup TscLow /\ flag \in 0..255 /\ entry \in {0, 1}
  /\ running \in 1..Cardinality(Cores)
  /\ cpu[Bsp] \in {"loader", "kernel", "halted", "main"}
  /\ \A c \in Cores \ {Bsp} : cpu[c] \in {"off", "reset", "started", "spinning", "kernel", "halted", "main"}

Up == {c \in Cores \ {Bsp} : cpu[c] \notin {"off", "reset", "started"}}

(* The tag never counts a core that did not come up, also when one comes   *)
(* up late and is taken for the next; and when no wait has ended early it  *)
(* counts them all (docs/ABI.md:393-394).                                  *)
RunningCounts ==
  /\ running <= 1 + Cardinality(Up)
  /\ pc = "done" /\ ~retried => running = 1 + Cardinality(Up)

(* No other processor is in the kernel before the booting one has set      *)
(* everything up, whatever low memory held.                                *)
ApsWaitForLoader == \A c \in Cores \ {Bsp} : cpu[c] \in {"kernel", "halted", "main"} => pc = "done"

(* No two processors that execute in the kernel use the same memory as     *)
(* stack, "All CPU cores have their own stacks" (docs/ABI.md:74).  A halted *)
(* one needs none.  Not so: KernelMain calls printk on the stack at the    *)
(* top, with char buf[1024] (main.cc:48, print.cc:32).                     *)
StackBelow(top, use) == top - use + 1..top
Use(c) == IF c = 0 THEN BootUse ELSE StackUse
StacksApart ==
  \A c, d \in {x \in Cores : cpu[x] \in {"kernel", "main"}} : c /= d =>
    StackBelow(rsp[c], Use(c)) \cap StackBelow(rsp[d], Use(d)) = {}

(* What is true of it: the processors KernelMain sends to sleep never      *)
(* share memory among themselves, the booting one included if it is one.   *)
Sleepers == {c \in Cores : c /= 0 /\ cpu[c] \in {"kernel", "halted"}}
SleepersApart ==
  \A c, d \in Sleepers : c /= d =>
    StackBelow(rsp[c], StackUse) \cap StackBelow(rsp[d], StackUse) = {}

(* Some processor gets past KernelMain's first lines: the loader waits no  *)
(* longer than it means to, "wait for AP with 250 msec timeout"            *)
(* (loader_x86.c:2535), and not everybody halts.                           *)
KernelRuns == <>(\E c \in Cores : cpu[c] = "main")
================================================================================
