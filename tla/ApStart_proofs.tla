--------------------------- MODULE ApStart_proofs ---------------------------
(***************************************************************************)
(* Theorems about the start of the other processors, for any APIC tables,  *)
(* any processors that do not answer and any reading of the time stamp     *)
(* counter.                                                                *)
(***************************************************************************)
EXTENDS ApStart, FiniteSetTheorems, TLAPS

Others == Cores \ {Bsp}
States == {"loader", "off", "reset", "started", "spinning", "kernel", "halted", "main"}
Entered == {"kernel", "halted", "main"}

(* While the booting processor sends its messages the other ones find entry *)
(* closed; before, and when it never opens, none of them is awake.          *)
EntryInv ==
  /\ pc \in {"start", "init", "sipi", "wait", "again", "count", "handover", "single", "done"}
  /\ cpu \in [Cores -> States]
  /\ cpu[Bsp] \in {"loader"} \cup Entered
  /\ pc # "done" => cpu[Bsp] = "loader"
  /\ pc \in {"init", "sipi", "wait", "again", "count", "handover"} => entry = 0
  /\ pc \in {"start", "single"} => \A c \in Others : cpu[c] = "off"
  /\ pc = "init" => \A c \in Others : cpu[c] \in {"off", "reset"}
  /\ \A c \in Others : cpu[c] \in Entered => pc = "done"

(* Whoever is in the kernel got there with the stack meant for it.          *)
StackInv ==
  /\ rsp \in [Cores -> Int]
  /\ cpu[Bsp] \in Entered => rsp[Bsp] = StackTop
  /\ \A c \in Others : cpu[c] \in Entered => rsp[c] = StackOf(c)

(* The flag stands for one core that is up and not counted yet, from the    *)
(* start-up message to CountCore.  As long as no wait ended early, nobody   *)
(* comes up outside its own wait.                                           *)
Pending == IF flag # 0 /\ pc \in {"wait", "again", "count"} THEN 1 ELSE 0

CountInv ==
  /\ running \in Nat
  /\ flag \in 0..255
  /\ running + Pending <= 1 + Cardinality(Up)
  /\ ~retried =>
       /\ running + Pending = 1 + Cardinality(Up)
       /\ pc # "again"
       /\ pc = "wait" /\ flag = 0 =>
            \A c, d \in Cores : cpu[c] = "started" /\ cpu[d] = "started" => c = d
       /\ ~(pc = "wait" /\ flag = 0) => \A c \in Cores : cpu[c] # "started"

-----------------------------------------------------------------------------
(* Cores are bytes, and so are finitely many.                              *)
LEMMA CoresFinite == Cores \subseteq 0..255 /\ IsFiniteSet(Cores)
<1> DEFINE Entries == [id : 0..255, enabled : BOOLEAN]
<1>1. ASSUME NEW j \in DOMAIN Madt, NEW x \in ToSet(Madt[j])
      PROVE  x.id \in 0..255
  <2>1. Madt[j] \in Seq(Entries)
    BY ApStartAssumption
  <2>2. PICK k \in DOMAIN Madt[j] : x = Madt[j][k]
    BY DEF ToSet
  <2> HIDE DEF Entries
  <2>3. x \in Entries
    BY <2>1, <2>2
  <2> QED
    BY <2>3 DEF Entries
<1>2. ASSUME NEW c \in Cores
      PROVE  c \in 0..255
  <2>1. CASE c = Bsp
    BY <2>1, ApStartAssumption
  <2>2. CASE c # Bsp
    <3>1. PICK x \in UNION {ToSet(Madt[j]) : j \in DOMAIN Madt} : c = x.id
      BY <2>2 DEF Cores
    <3> QED
      BY <1>1, <3>1
  <2> QED
    BY <2>1, <2>2
<1>3. IsFiniteSet(0..255)
  <2>1. 0 \in Int /\ 255 \in Int
    OBVIOUS
  <2> QED
    BY <2>1, FS_Interval, Zenon
<1>4. Cores \in SUBSET (0..255)
  BY <1>2
<1>5. IsFiniteSet(Cores)
  BY <1>3, <1>4, FS_Subset, Zenon
<1> QED
  BY <1>4, <1>5

(* Where the booting processor goes next, whatever the list of cores is.   *)
LEMMA NextCoreGoes ==
  ASSUME NEW loop, NEW after, NextCore(loop, after)
  PROVE  pc' \in {loop, after}
BY DEF NextCore

(* A start-up message starts at most the core it is sent to, and that one  *)
(* only from its reset state.                                              *)
LEMMA StartedOnly ==
  ASSUME NEW id, cpu \in [Cores -> States]
  PROVE  \/ Started(id) = cpu
         \/ /\ id \in Cores /\ cpu[id] = "reset"
            /\ Started(id) = [cpu EXCEPT ![id] = "started"]
BY DEF Started, Alive

(* The booting processor is in Cores.                                      *)
LEMMA BspIsCore == Bsp \in Cores
BY DEF Cores

-----------------------------------------------------------------------------
(* What the loader's messages and the trampoline guarantee, for any tables. *)
LEMMA EntryCorrect == Spec => []EntryInv
<1> USE BspIsCore DEF Others, States, Entered
<1>1. Init => EntryInv
  BY DEF Init, EntryInv
<1>2. EntryInv /\ [Next]_vars => EntryInv'
  <2> SUFFICES ASSUME EntryInv, [Next]_vars
               PROVE  EntryInv'
    OBVIOUS
  <2> USE DEF EntryInv
  <2>1. CASE PrepareLowMemory
    BY <2>1 DEF PrepareLowMemory
  <2>2. CASE SendInit
    <3>1. pc' \in {"init", "sipi"} /\ pc = "init" /\ entry' = entry
      BY <2>2, NextCoreGoes DEF SendInit
    <3>2. cpu' = cpu \/ (ids[i] # Bsp /\ cpu' = [cpu EXCEPT ![ids[i]] = "reset"])
      BY <2>2 DEF SendInit, Skipped
    <3> QED
      BY <3>1, <3>2
  <2>3. CASE SkipBsp
    BY <2>3, NextCoreGoes DEF SkipBsp
  <2>4. CASE SendSipi
    <3>1. \/ cpu' = cpu
          \/ \E id \in Cores : cpu[id] = "reset" /\ cpu' = [cpu EXCEPT ![id] = "started"]
      BY <2>4, StartedOnly DEF SendSipi
    <3> QED
      BY <2>4, <3>1 DEF SendSipi
  <2>5. CASE WaitForFlag
    BY <2>5 DEF WaitForFlag
  <2>6. CASE SendSecondSipi
    <3>1. \/ cpu' = cpu
          \/ \E id \in Cores : cpu[id] = "reset" /\ cpu' = [cpu EXCEPT ![id] = "started"]
      BY <2>6, StartedOnly DEF SendSecondSipi
    <3> QED
      BY <2>6, <3>1 DEF SendSecondSipi
  <2>7. CASE CountCore
    BY <2>7, NextCoreGoes DEF CountCore
  <2>8. CASE HandOver
    BY <2>8 DEF HandOver
  <2>9. ASSUME NEW id \in Cores, ComeUp(id)
        PROVE  EntryInv'
    BY <2>9 DEF ComeUp
  <2>10. ASSUME NEW id \in Cores, EnterKernel(id)
         PROVE  EntryInv'
    <3>1. id # Bsp /\ pc = "done"
      BY <2>10 DEF EnterKernel
    <3> QED
      BY <2>10, <3>1 DEF EnterKernel
  <2>11. ASSUME NEW id \in Cores, KernelMain(id)
         PROVE  EntryInv'
    BY <2>11 DEF KernelMain
  <2>12. CASE UNCHANGED vars
    BY <2>12 DEF vars
  <2> QED
    BY <2>1, <2>2, <2>3, <2>4, <2>5, <2>6, <2>7, <2>8, <2>9, <2>10, <2>11, <2>12
    DEF Next, Loader, Core
<1> QED
  BY <1>1, <1>2, PTL DEF Spec

(* No other processor is in the kernel before the booting one has set       *)
(* everything up, whatever low memory held.                                 *)
THEOREM LoaderFirst == Spec => []ApsWaitForLoader
<1>1. EntryInv => ApsWaitForLoader
  BY DEF EntryInv, ApsWaitForLoader, Others, Entered
<1> QED
  BY <1>1, EntryCorrect, PTL

-----------------------------------------------------------------------------
(* A start-up message changes neither stack pointers nor who has entered.   *)
LEMMA StackKeeps ==
  ASSUME StackInv, rsp' = rsp,
         \A c \in Cores : cpu'[c] \in Entered => cpu[c] \in Entered
  PROVE  StackInv'
BY BspIsCore DEF StackInv, Others, StackOf

(* Every processor in the kernel has the stack pointer computed for it.     *)
LEMMA StackCorrect == Spec => []StackInv
<1> USE BspIsCore, ApStartAssumption, CoresFinite DEF Others, States, Entered
<1>1. Init => StackInv
  BY DEF Init, StackInv
<1>2. EntryInv /\ StackInv /\ [Next]_vars => StackInv'
  <2> SUFFICES ASSUME EntryInv, StackInv, [Next]_vars
               PROVE  StackInv'
    OBVIOUS
  <2> USE DEF EntryInv, StackInv, StackOf
  <2>1. CASE PrepareLowMemory
    BY <2>1 DEF PrepareLowMemory
  <2>2. CASE SendInit
    <3>1. cpu' = cpu \/ (ids[i] # Bsp /\ cpu' = [cpu EXCEPT ![ids[i]] = "reset"])
      BY <2>2 DEF SendInit, Skipped
    <3> QED
      BY <2>2, <3>1 DEF SendInit
  <2>3. CASE SkipBsp
    BY <2>3 DEF SkipBsp
  <2>4. CASE SendSipi
    <3>1. \/ cpu' = cpu
          \/ \E id \in Cores : cpu[id] = "reset" /\ cpu' = [cpu EXCEPT ![id] = "started"]
      BY <2>4, StartedOnly DEF SendSipi
    <3>2. \A c \in Cores : cpu'[c] \in Entered => cpu[c] \in Entered
      BY <3>1
    <3>3. rsp' = rsp
      BY <2>4 DEF SendSipi
    <3> QED
      BY <3>2, <3>3, StackKeeps
  <2>5. CASE WaitForFlag
    BY <2>5 DEF WaitForFlag
  <2>6. CASE SendSecondSipi
    <3>1. \/ cpu' = cpu
          \/ \E id \in Cores : cpu[id] = "reset" /\ cpu' = [cpu EXCEPT ![id] = "started"]
      BY <2>6, StartedOnly DEF SendSecondSipi
    <3>2. \A c \in Cores : cpu'[c] \in Entered => cpu[c] \in Entered
      BY <3>1
    <3>3. rsp' = rsp
      BY <2>6 DEF SendSecondSipi
    <3> QED
      BY <3>2, <3>3, StackKeeps
  <2>7. CASE CountCore
    BY <2>7 DEF CountCore
  <2>8. CASE HandOver
    BY <2>8 DEF HandOver
  <2>9. ASSUME NEW id \in Cores, ComeUp(id)
        PROVE  StackInv'
    BY <2>9 DEF ComeUp
  <2>10. ASSUME NEW id \in Cores, EnterKernel(id)
         PROVE  StackInv'
    <3>1. id # Bsp
      BY <2>10 DEF EnterKernel
    <3>2. StackOf(id) \in Int
      OBVIOUS
    <3> QED
      BY <2>10, <3>1, <3>2 DEF EnterKernel
  <2>11. ASSUME NEW id \in Cores, KernelMain(id)
         PROVE  StackInv'
    BY <2>11 DEF KernelMain
  <2>12. CASE UNCHANGED vars
    BY <2>12 DEF vars
  <2> QED
    BY <2>1, <2>2, <2>3, <2>4, <2>5, <2>6, <2>7, <2>8, <2>9, <2>10, <2>11, <2>12
    DEF Next, Loader, Core
<1> QED
  BY <1>1, <1>2, EntryCorrect, PTL DEF Spec

(* Different ids are at least one room apart.                               *)
LEMMA RoomsApart ==
  ASSUME NEW c \in Nat, NEW d \in Nat, c < d
  PROVE  StackOf(d) + StackRoom <= StackOf(c)
<1>1. PICK k \in Nat : d = c + 1 + k
  <2>1. d - c - 1 \in Nat /\ d = c + 1 + (d - c - 1)
    OBVIOUS
  <2> QED
    BY <2>1
<1>2. d * StackRoom = c * StackRoom + StackRoom + k * StackRoom
  BY <1>1, ApStartAssumption
<1>3. c * StackRoom \in Nat /\ k * StackRoom \in Nat /\ d * StackRoom \in Nat
  BY <1>1, ApStartAssumption
<1> QED
  BY <1>2, <1>3, ApStartAssumption DEF StackOf

(* The processors that KernelMain sends to sleep use different stacks,      *)
(* whatever their ids and whoever boots.  Nothing of the kind holds of the  *)
(* one that goes on, see StacksApart.                                       *)
THEOREM StacksDisjoint == Spec => []SleepersApart
<1>1. EntryInv /\ StackInv => SleepersApart
  <2> SUFFICES ASSUME EntryInv, StackInv,
                      NEW c \in Sleepers, NEW d \in Sleepers, c # d
               PROVE  StackBelow(rsp[c], StackUse) \cap StackBelow(rsp[d], StackUse) = {}
    BY DEF SleepersApart
  <2>1. c \in Nat \ {0} /\ d \in Nat \ {0}
    BY CoresFinite DEF Sleepers
  <2>2. rsp[c] = (IF c = Bsp THEN StackTop ELSE StackOf(c))
    BY DEF Sleepers, StackInv, Entered, Others
  <2>3. rsp[d] = (IF d = Bsp THEN StackTop ELSE StackOf(d))
    BY DEF Sleepers, StackInv, Entered, Others
  <2>4. StackOf(c) \in Int /\ StackOf(d) \in Int /\ StackOf(0) = StackTop
    BY <2>1, ApStartAssumption DEF StackOf
  <2>5. StackOf(c) + StackRoom <= StackTop /\ StackOf(d) + StackRoom <= StackTop
    BY <2>1, <2>4, RoomsApart
  <2>6. \/ StackOf(d) + StackRoom <= StackOf(c)
        \/ StackOf(c) + StackRoom <= StackOf(d)
    BY <2>1, RoomsApart
  <2>7. rsp[c] \in Int /\ rsp[d] \in Int
    BY <2>2, <2>3, <2>4, ApStartAssumption
  <2>8. rsp[d] + StackRoom <= rsp[c] \/ rsp[c] + StackRoom <= rsp[d]
    BY <2>2, <2>3, <2>5, <2>6
  <2> QED
    BY <2>7, <2>8, ApStartAssumption DEF StackBelow
<1> QED
  BY <1>1, EntryCorrect, StackCorrect, PTL

-----------------------------------------------------------------------------
(* How a step of one processor changes the set of those that are up.        *)
LEMMA UpFinite == IsFiniteSet(Up) /\ Cardinality(Up) \in Nat
BY CoresFinite, FS_Subset, FS_CardinalityType DEF Up

LEMMA UpUnchanged ==
  ASSUME \A c \in Others : cpu'[c] \in {"off", "reset", "started"} <=>
                           cpu[c] \in {"off", "reset", "started"}
  PROVE  Up' = Up
BY DEF Up, Others

LEMMA UpGrows ==
  ASSUME NEW id \in Others, cpu \in [Cores -> States],
         cpu[id] = "started", cpu' = [cpu EXCEPT ![id] = "spinning"]
  PROVE  Cardinality(Up') = Cardinality(Up) + 1
<1>1. Up' = Up \cup {id} /\ id \notin Up
  BY DEF Up, Others, States
<1> QED
  BY <1>1, UpFinite, FS_AddElement

(* The count of the tag, wait by wait.                                      *)
LEMMA CountCorrect == Spec => []CountInv
<1> USE BspIsCore, UpFinite DEF Others, States, Entered
<1>1. Init => CountInv
  <2> SUFFICES ASSUME Init PROVE CountInv
    OBVIOUS
  <2>1. Up = {} /\ \A c \in Cores : cpu[c] # "started"
    BY DEF Init, Up
  <2>2. Cardinality(Up) = 0
    BY <2>1, FS_EmptySet
  <2> QED
    BY <2>1, <2>2 DEF Init, CountInv, Pending
<1>2. EntryInv /\ CountInv /\ [Next]_vars => CountInv'
  <2> SUFFICES ASSUME EntryInv, CountInv, [Next]_vars
               PROVE  CountInv'
    OBVIOUS
  <2> USE DEF EntryInv, CountInv, Pending
  <2>1. CASE PrepareLowMemory
    <3>1. Up' = Up
      BY <2>1, UpUnchanged DEF PrepareLowMemory
    <3> QED
      BY <2>1, <3>1 DEF PrepareLowMemory
  <2>2. CASE SendInit
    <3>1. pc' \in {"init", "sipi"} /\ pc = "init" /\ UNCHANGED <<flag, running, retried>>
      BY <2>2, NextCoreGoes DEF SendInit
    <3>2. cpu' = cpu \/ cpu' = [cpu EXCEPT ![ids[i]] = "reset"]
      BY <2>2 DEF SendInit
    <3>3. Up' = Up
      BY <3>1, <3>2, UpUnchanged
    <3>4. \A c \in Cores : cpu'[c] = cpu[c] \/ cpu'[c] = "reset"
      BY <3>2
    <3> QED
      BY <3>1, <3>3, <3>4
  <2>3. CASE SkipBsp
    <3>1. Up' = Up
      BY <2>3, UpUnchanged DEF SkipBsp
    <3> QED
      BY <2>3, <3>1, NextCoreGoes DEF SkipBsp
  <2>4. CASE SendSipi
    <3>1. \/ cpu' = cpu
          \/ \E id \in Cores : cpu[id] = "reset" /\ cpu' = [cpu EXCEPT ![id] = "started"]
      BY <2>4, StartedOnly DEF SendSipi
    <3>2. Up' = Up
      BY <3>1, UpUnchanged
    <3>3. ~retried => \A c, d \in Cores : cpu'[c] = "started" /\ cpu'[d] = "started" => c = d
      <4>1. ~retried => \A c \in Cores : cpu[c] # "started"
        BY <2>4 DEF SendSipi
      <4>2. CASE cpu' = cpu
        BY <4>1, <4>2
      <4>3. ASSUME NEW id \in Cores, cpu' = [cpu EXCEPT ![id] = "started"]
            PROVE  ~retried => \A c, d \in Cores :
                     cpu'[c] = "started" /\ cpu'[d] = "started" => c = d
        BY <4>1, <4>3
      <4> QED
        BY <3>1, <4>2, <4>3
    <3> QED
      BY <2>4, <3>2, <3>3 DEF SendSipi
  <2>5. CASE WaitForFlag
    <3>1. Up' = Up
      BY <2>5, UpUnchanged DEF WaitForFlag
    <3> QED
      BY <2>5, <3>1 DEF WaitForFlag
  <2>6. CASE SendSecondSipi
    <3>1. \/ cpu' = cpu
          \/ \E id \in Cores : cpu[id] = "reset" /\ cpu' = [cpu EXCEPT ![id] = "started"]
      BY <2>6, StartedOnly DEF SendSecondSipi
    <3>2. Up' = Up
      BY <3>1, UpUnchanged
    <3> QED
      BY <2>6, <3>2 DEF SendSecondSipi
  <2>7. CASE CountCore
    <3>1. Up' = Up
      BY <2>7, UpUnchanged DEF CountCore
    <3> QED
      BY <2>7, <3>1, NextCoreGoes DEF CountCore
  <2>8. CASE HandOver
    <3>1. Up' = Up
      BY <2>8, UpUnchanged DEF HandOver
    <3>2. \A c \in Cores : cpu'[c] = "started" => cpu[c] = "started"
      BY <2>8 DEF HandOver
    <3> QED
      BY <2>8, <3>1, <3>2 DEF HandOver
  <2>9. ASSUME NEW id \in Cores, ComeUp(id)
        PROVE  CountInv'
    <3>1. id \in Others
      BY <2>9 DEF ComeUp
    <3>2. Cardinality(Up') = Cardinality(Up) + 1
      BY <2>9, <3>1, UpGrows DEF ComeUp
    <3>3. flag' \in 0..255 /\ (flag = 0 => flag' = 1) /\ UNCHANGED <<pc, running, retried>>
      BY <2>9 DEF ComeUp
    <3>4. ~retried => pc = "wait" /\ flag = 0 /\ \A c \in Cores : cpu'[c] # "started"
      BY <2>9 DEF ComeUp
    <3> QED
      BY <3>2, <3>3, <3>4
  <2>10. ASSUME NEW id \in Cores, EnterKernel(id)
         PROVE  CountInv'
    <3>1. Up' = Up
      BY <2>10, UpUnchanged DEF EnterKernel
    <3>2. \A c \in Cores : cpu'[c] = "started" => cpu[c] = "started"
      BY <2>10 DEF EnterKernel
    <3> QED
      BY <2>10, <3>1, <3>2 DEF EnterKernel
  <2>11. ASSUME NEW id \in Cores, KernelMain(id)
         PROVE  CountInv'
    <3>1. Up' = Up
      BY <2>11, UpUnchanged DEF KernelMain
    <3>2. \A c \in Cores : cpu'[c] = "started" => cpu[c] = "started"
      BY <2>11 DEF KernelMain
    <3> QED
      BY <2>11, <3>1, <3>2 DEF KernelMain
  <2>12. CASE UNCHANGED vars
    <3>1. Up' = Up
      BY <2>12 DEF vars, Up
    <3> QED
      BY <2>12, <3>1 DEF vars
  <2> QED
    BY <2>1, <2>2, <2>3, <2>4, <2>5, <2>6, <2>7, <2>8, <2>9, <2>10, <2>11, <2>12
    DEF Next, Loader, Core
<1> QED
  BY <1>1, <1>2, EntryCorrect, PTL DEF Spec

(* The tag never counts a core that did not come up, also when one comes   *)
(* up late and its flag is taken for the next one's; and when no wait ended *)
(* early it counts them all (docs/ABI.md:393-394).                          *)
THEOREM CountOfRunning == Spec => []RunningCounts
<1>1. CountInv => RunningCounts
  BY UpFinite DEF CountInv, Pending, RunningCounts
<1> QED
  BY <1>1, CountCorrect, PTL
=============================================================================
