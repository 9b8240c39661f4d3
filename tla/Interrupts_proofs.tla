------------------------- MODULE Interrupts_proofs -------------------------
(***************************************************************************)
(* Theorems about Interrupts, for every state the firmware may leave the   *)
(* PIC and LINT0 in.                                                       *)
(*                                                                         *)
(* TypeInv holds on every machine.  ClaimInv needs a first timer period    *)
(* that outlasts init_lapic: without it vector 239, which no callback is   *)
(* registered for, is requested before init_lapic_timer replaces it.       *)
(***************************************************************************)
EXTENDS Interrupts, TLAPS

(* The steps of KernelMain that come before LINT0 is masked, and before     *)
(* and after the timer has the vector it keeps.                             *)
Unrouted == {"init_idt", "init_lapic_internal", "disable_pic", "route_lapic_interrupts"}
Routed   == {"register_timer", "init_lapic_timer"}
TimerSet == {"enable_interrupts", "init_ps2", "running"}
Enabled  == {"init_ps2", "running"}

(* The PIC is cut off before the CPU accepts interrupts, so that its        *)
(* vectors never reach the CPU, wherever the firmware put them.             *)
TypeInv ==
  /\ TypeOK
  /\ pc \in Unrouted \cup Routed \cup TimerSet
  /\ timer.counting => timer.vec # None
  /\ pc \notin Unrouted => lint0 = "masked"
  /\ iflag \/ int_no # None => pc \in Enabled

(* Only the timer requests, and not before init_lapic_timer gave it its     *)
(* vector; and what is in service is what is being handled, so that every   *)
(* acknowledgement finds the vector it is for.                              *)
TimerRequests ==
  /\ pc \in TimerSet => timer.vec = TimerVec
  /\ irr \subseteq {TimerVec}
  /\ irr # {} => pc \in TimerSet

TimerClaimed == pc \in TimerSet \cup {"init_lapic_timer"} => TimerVec \in callbacks

TimerHandled ==
  /\ int_no \in {None, TimerVec}
  /\ isr = IF int_no = None THEN {} ELSE {TimerVec}
  /\ iflag => int_no = None

ClaimInv == TypeInv /\ TimerRequests /\ TimerClaimed /\ TimerHandled

-----------------------------------------------------------------------------
(* The highest vector in service is the one in service when there is one.  *)
LEMMA MaxOfOne == ASSUME NEW v \in Int PROVE Max({v}) = v
BY DEF Max

(* The timer's entry stays one when it gets another vector and mode.       *)
TimerEntry == [vec : {None, TimerVec, 239}, periodic : BOOLEAN, counting : BOOLEAN]
EntryWith(t, v, x) == [t EXCEPT !.vec = v, !.periodic = x]

LEMMA EntrySet ==
  ASSUME NEW t \in TimerEntry, NEW v \in {None, TimerVec, 239}, NEW x \in BOOLEAN
  PROVE  EntryWith(t, v, x) \in TimerEntry
BY DEF TimerEntry, EntryWith

(* On every machine the registers of PIC and APIC keep their types, and no *)
(* vector of the PIC is ever handled.                                      *)
THEOREM TypeCorrect == Spec => []TypeInv
<1> USE InterruptsAssumption
    DEF Unrouted, Routed, TimerSet, Enabled, Lines, None, TimerVec, KbdVec
<1>1. Init => TypeInv
  <2> SUFFICES ASSUME Init PROVE TypeInv
    OBVIOUS
  <2> USE DEF Init
  <2>1. timer \in [vec : {None, TimerVec, 239}, periodic : BOOLEAN, counting : BOOLEAN]
    OBVIOUS
  <2>2. picBase \in 0..255 /\ lint0 \in {"extint", "masked"}
    OBVIOUS
  <2>3. TypeOK
    BY <2>1, <2>2 DEF TypeOK
  <2> QED
    BY <2>3 DEF TypeInv
<1>2. TypeInv /\ [Next]_vars => TypeInv'
  <2> SUFFICES ASSUME TypeInv, [Next]_vars
               PROVE  TypeInv'
    OBVIOUS
  <2> USE DEF TypeInv, TypeOK
  <2>1. CASE init_idt
    BY <2>1 DEF init_idt, Call
  <2>2. CASE init_lapic_internal
    <3>1. timer' \in [vec : {None, TimerVec, 239}, periodic : BOOLEAN, counting : BOOLEAN]
      BY <2>2 DEF init_lapic_internal
    <3>2. isr' \subseteq isr
      BY <2>2 DEF init_lapic_internal
    <3>3. timer'.vec # None
      BY <2>2 DEF init_lapic_internal
    <3>4. /\ pc' = "disable_pic" /\ pc = "init_lapic_internal"
          /\ UNCHANGED <<picBase, picMask, picIrr, lint0, irr, callbacks, iflag, int_no>>
      BY <2>2 DEF init_lapic_internal, Call
    <3> QED
      BY <3>1, <3>2, <3>3, <3>4
  <2>3. CASE disable_pic
    BY <2>3 DEF disable_pic, Call
  <2>4. CASE route_lapic_interrupts
    <3>1. timer' \in [vec : {None, TimerVec, 239}, periodic : BOOLEAN, counting : BOOLEAN]
      <4>1. timer' = [timer EXCEPT !.vec = 239, !.periodic = FALSE]
        BY <2>4 DEF route_lapic_interrupts
      <4>2. timer \in TimerEntry
        BY DEF TimerEntry
      <4>3. timer' = EntryWith(timer, 239, FALSE)
        BY <4>1 DEF EntryWith
      <4>4. \A v \in {None, TimerVec, 239}, x \in BOOLEAN : EntryWith(timer, v, x) \in TimerEntry
        BY <4>2, EntrySet
      <4>5. EntryWith(timer, 239, FALSE) \in TimerEntry
        BY ONLY <4>4
      <4>6. timer' \in TimerEntry
        BY ONLY <4>3, <4>5
      <4> QED
        BY ONLY <4>6 DEF TimerEntry
    <3>2. timer'.vec = 239
      BY <2>4 DEF route_lapic_interrupts
    <3> QED
      BY <2>4, <3>1, <3>2 DEF route_lapic_interrupts, Call
  <2>5. CASE Call("register_timer", "init_lapic_timer") /\ register_irq_handler(TimerVec)
    BY <2>5 DEF register_irq_handler, UnmaskedLines, Call
  <2>6. CASE init_lapic_timer
    BY <2>6 DEF init_lapic_timer, Call
  <2>7. CASE enable_interrupts
    BY <2>7 DEF enable_interrupts, Call
  <2>8. CASE Call("init_ps2", "running") /\ register_irq_handler(KbdVec)
    BY <2>8 DEF register_irq_handler, UnmaskedLines, Call
  <2>9. CASE TimerExpires
    BY <2>9 DEF TimerExpires
  <2>10. ASSUME NEW line \in Lines, LineRaised(line)
         PROVE  TypeInv'
    BY <2>10 DEF LineRaised, setup
  <2>11. CASE Interrupt
    <3>1. PicRequests = {}
      BY <2>11 DEF Interrupt, PicRequests
    <3>2. PICK v \in Requests : /\ int_no' = v
                                /\ irr' = irr \ {v}
                                /\ isr' = isr \cup {v}
                                /\ picIrr' = picIrr
      BY <2>11, <3>1 DEF Interrupt
    <3>3. v \in 0..255
      BY DEF Requests
    <3>4. iflag /\ iflag' = FALSE /\ UNCHANGED setup
      BY <2>11 DEF Interrupt
    <3>5. int_no' \in 0..255 /\ irr' \subseteq 0..255 /\ isr' \subseteq 0..255
      BY <3>2, <3>3
    <3>6. UNCHANGED <<pc, picBase, picMask, picIrr, lint0, timer, callbacks>> /\ iflag' = FALSE
      BY <3>2, <3>4 DEF setup
    <3>7. pc \in Enabled
      BY <3>4
    <3>8. timer \in [vec : {None, TimerVec, 239}, periodic : BOOLEAN, counting : BOOLEAN]
      OBVIOUS
    <3>9. TypeOK'
      <4>1. /\ UNCHANGED <<picBase, picMask, picIrr, lint0, timer, callbacks>>
            /\ iflag' \in BOOLEAN /\ int_no' \in {None} \cup 0..255
        BY ONLY <3>5, <3>6, Zenon
      <4>2. TypeOK
        OBVIOUS
      <4> QED
        BY ONLY <3>5, <4>1, <4>2 DEF TypeOK
    <3> HIDE DEF TypeOK
    <3> QED
      BY <3>6, <3>7, <3>9
  <2>12. CASE Callback
    <3>1. isr' \subseteq isr
      BY <2>12 DEF Callback, lapic_eoi
    <3>2. UNCHANGED <<setup, picIrr, irr>> /\ iflag' = TRUE /\ int_no' = None /\ pc \in Enabled
      BY <2>12 DEF Callback
    <3> QED
      BY <3>1, <3>2 DEF setup
  <2>13. CASE UNCHANGED vars
    BY <2>13 DEF vars, setup
  <2> QED
    BY <2>1, <2>2, <2>3, <2>4, <2>5, <2>6, <2>7, <2>8, <2>9, <2>10, <2>11, <2>12, <2>13
    DEF Next, KernelMain
<1> QED
  BY <1>1, <1>2, PTL DEF Spec

(* The interrupts that reach the CPU, on a machine whose first timer period *)
(* outlasts init_lapic: init_lapic starts the timer, changes its vector     *)
(* twice and leaves the PIC with its requests, and nothing but the timer's  *)
(* last vector, whose callback is registered by then, gets through.         *)
LEMMA ClaimCorrect == ASSUME FirstPeriodLong PROVE Spec => []ClaimInv
<1> USE DEF Unrouted, Routed, TimerSet, Enabled, None, TimerVec
<1>1. Init /\ TypeInv => ClaimInv
  BY DEF Init, ClaimInv, TimerRequests, TimerClaimed, TimerHandled
<1>2. TypeInv' /\ ClaimInv /\ [Next]_vars => ClaimInv'
  <2> SUFFICES ASSUME TypeInv', ClaimInv, [Next]_vars
               PROVE  TimerRequests' /\ TimerClaimed' /\ TimerHandled'
    BY DEF ClaimInv
  <2> USE DEF ClaimInv, TypeInv, TimerRequests, TimerClaimed, TimerHandled
  <2>1. CASE init_idt
    BY <2>1 DEF init_idt, Call
  <2>2. CASE init_lapic_internal
    BY <2>2 DEF init_lapic_internal, Call
  <2>3. CASE disable_pic
    BY <2>3 DEF disable_pic, Call
  <2>4. CASE route_lapic_interrupts
    BY <2>4 DEF route_lapic_interrupts, Call
  <2>5. CASE Call("register_timer", "init_lapic_timer") /\ register_irq_handler(TimerVec)
    BY <2>5 DEF register_irq_handler, Call
  <2>6. CASE init_lapic_timer
    BY <2>6 DEF init_lapic_timer, Call
  <2>7. CASE enable_interrupts
    BY <2>7 DEF enable_interrupts, Call
  <2>8. CASE Call("init_ps2", "running") /\ register_irq_handler(KbdVec)
    BY <2>8 DEF register_irq_handler, Call
  <2>9. CASE TimerExpires
    BY <2>9, FirstPeriodLong DEF TimerExpires, TypeOK
  <2>10. ASSUME NEW line \in Lines, LineRaised(line)
         PROVE  TimerRequests' /\ TimerClaimed' /\ TimerHandled'
    BY <2>10 DEF LineRaised, setup
  <2>11. CASE Interrupt
    <3>1. PicRequests = {}
      BY <2>11 DEF Interrupt, PicRequests
    <3>2. PICK v \in Requests : /\ int_no' = v
                                /\ irr' = irr \ {v}
                                /\ isr' = isr \cup {v}
      BY <2>11, <3>1 DEF Interrupt
    <3>3. v = TimerVec
      BY DEF Requests
    <3>4. iflag /\ iflag' = FALSE /\ UNCHANGED setup
      BY <2>11 DEF Interrupt
    <3> QED
      BY <3>2, <3>3, <3>4 DEF setup
  <2>12. CASE Callback
    <3>1. int_no = TimerVec /\ pc \in Enabled /\ isr = {TimerVec}
      BY <2>12 DEF Callback, TypeOK
    <3>2. isr' = {}
      BY <2>12, <3>1, MaxOfOne DEF Callback, lapic_eoi
    <3>3. UNCHANGED <<setup, irr>> /\ int_no' = None
      BY <2>12 DEF Callback
    <3> QED
      BY <3>1, <3>2, <3>3 DEF setup
  <2>13. CASE UNCHANGED vars
    BY <2>13 DEF vars, setup
  <2> QED
    BY <2>1, <2>2, <2>3, <2>4, <2>5, <2>6, <2>7, <2>8, <2>9, <2>10, <2>11, <2>12, <2>13
    DEF Next, KernelMain
<1> QED
  BY <1>1, <1>2, TypeCorrect, PTL DEF Spec

(* No interrupt that reaches the CPU lacks a callback, so that             *)
(* handle_interrupt never halts the machine.                               *)
THEOREM EveryInterruptClaimed ==
  ASSUME FirstPeriodLong
  PROVE  Spec => []NoUnclaimedInterrupt
<1>1. ClaimInv => NoUnclaimedInterrupt
  BY DEF ClaimInv, TypeInv, TimerClaimed, TimerHandled, NoUnclaimedInterrupt, Halted,
         Enabled, TimerSet
<1> QED
  BY <1>1, ClaimCorrect, PTL

(* Whenever a callback runs it is the timer's, and the vector its          *)
(* acknowledgement ends is its own.                                        *)
THEOREM TicksFromTimer ==
  ASSUME FirstPeriodLong
  PROVE  Spec => []TicksComeFromTimer
<1>1. ClaimInv => TicksComeFromTimer
  BY DEF ClaimInv, TypeInv, TypeOK, TimerHandled, TicksComeFromTimer, None, TimerVec
<1> QED
  BY <1>1, ClaimCorrect, PTL
============================================================================
