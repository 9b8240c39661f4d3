----------------------------- MODULE Interrupts -----------------------------
(***************************************************************************)
(* How the boot CPU gets its interrupts: the 8259 PIC and the local APIC   *)
(* as init_lapic (arch/lapic.cc) programs them, the callback table of      *)
(* arch/idt.cc, and what handle_interrupt does with a vector.  KernelMain  *)
(* runs with interrupts off until enable_interrupts, so whatever fires     *)
(* before stays latched in the APIC and is delivered then.                 *)
(*                                                                         *)
(* TaskSwitch starts where this ends: it takes for granted that the timer  *)
(* vector arrives, is the scheduler's, and is acknowledged.                *)
(***************************************************************************)
EXTENDS Integers, FiniteSets, FiniteSetsExt

CONSTANTS
  FirmwareBase,    \* the vector the firmware gave PIC line 0
  FirmwareLint0,   \* settings the firmware may have left LINT0 in
  FirstPeriodLong  \* do the 10000000 counts of init_lapic_internal outlast
                   \* the rest of init_lapic?

ASSUME InterruptsAssumption ==
  /\ FirmwareBase \in 0..255
  /\ FirmwareLint0 \subseteq {"extint", "masked"}
  /\ FirstPeriodLong \in BOOLEAN

None     == -1
Lines    == {0, 1}     \* PIC lines with a device: the PIT and the keyboard
TimerVec == 32         \* 0x20
KbdVec   == 33         \* 0x21
ErrorVec == 254        \* 0xFE

VARIABLES
  pc,         \* the next call of KernelMain, init_lapic or init_ps2
  picBase,    \* PIC: vector of line 0
  picMask,    \* PIC: masked lines
  picIrr,     \* PIC: lines with a request
  lint0,      \* local APIC: LVT entry of the PIC's line
  timer,      \* local APIC: LVT entry and state of the timer
  irr,        \* local APIC: vectors requested
  isr,        \* local APIC: vectors in service
  callbacks,  \* vectors with a callback
  iflag,      \* the CPU accepts interrupts
  int_no      \* vector being handled, or None

setup == <<pc, picBase, picMask, lint0, timer, callbacks>>
vars  == <<setup, picIrr, irr, isr, iflag, int_no>>

Init ==
  /\ pc = "init_idt"
  /\ picBase = FirmwareBase
  /\ picMask \in SUBSET Lines
  /\ picIrr = {}
  /\ lint0 \in FirmwareLint0
  /\ timer = [vec |-> None, periodic |-> FALSE, counting |-> FALSE]
  /\ irr = {}
  /\ isr = {}
  /\ callbacks = {}
  /\ iflag = FALSE
  /\ int_no = None

-----------------------------------------------------------------------------
(* Set-up.  KernelMain goes on only while no interrupt is being handled.   *)
Call(from, to) == pc = from /\ pc' = to /\ int_no = None

init_idt ==
  /\ Call("init_idt", "init_lapic_internal")
  /\ callbacks' = {}
  /\ UNCHANGED <<picBase, picMask, picIrr, lint0, timer, irr, isr, iflag, int_no>>

(* Acknowledges whatever is in service and starts the timer, after         *)
(* enable_lapic.                                                           *)
init_lapic_internal ==
  /\ Call("init_lapic_internal", "disable_pic")
  /\ timer' = [vec |-> TimerVec, periodic |-> TRUE, counting |-> TRUE]
  /\ isr' = IF isr = {} THEN {} ELSE isr \ {Max(isr)}
  /\ UNCHANGED <<picBase, picMask, picIrr, lint0, irr, callbacks, iflag, int_no>>

(* ICW1 clears the requests; then vectors from 0x20 and all lines masked.  *)
disable_pic ==
  /\ Call("disable_pic", "route_lapic_interrupts")
  /\ picBase' = TimerVec
  /\ picMask' = Lines
  /\ picIrr' = {}
  /\ UNCHANGED <<lint0, timer, irr, isr, callbacks, iflag, int_no>>

(* The timer goes on counting, one-shot, with vector 0xEF; LINT0 and LINT1 *)
(* are masked.                                                             *)
route_lapic_interrupts ==
  /\ Call("route_lapic_interrupts", "register_timer")
  /\ timer' = [timer EXCEPT !.vec = 239, !.periodic = FALSE]
  /\ lint0' = "masked"
  /\ UNCHANGED <<picBase, picMask, picIrr, irr, isr, callbacks, iflag, int_no>>

(* lapic_unmask_irq: `1 || (irq - 0x20)` is 1 whatever the irq, so that    *)
(* bit 0 of the PIC's mask is cleared.                                     *)
UnmaskedLines(irq) == {0}

register_irq_handler(no) ==
  /\ callbacks' = callbacks \cup {no}
  /\ picMask' = picMask \ UnmaskedLines(no - 32)
  /\ UNCHANGED <<picBase, picIrr, lint0, timer, irr, isr, iflag, int_no>>

(* Mutant: the vector of route_lapic_interrupts is kept.                   *)
init_lapic_timer_KeepVector ==
  /\ Call("init_lapic_timer", "enable_interrupts")
  /\ timer' = [timer EXCEPT !.periodic = TRUE, !.counting = TRUE]
  /\ UNCHANGED <<picBase, picMask, picIrr, lint0, irr, isr, callbacks, iflag, int_no>>

init_lapic_timer ==
  /\ Call("init_lapic_timer", "enable_interrupts")
  /\ timer' = [vec |-> TimerVec, periodic |-> TRUE, counting |-> TRUE]
  /\ UNCHANGED <<picBase, picMask, picIrr, lint0, irr, isr, callbacks, iflag, int_no>>

enable_interrupts ==
  /\ Call("enable_interrupts", "init_ps2")
  /\ iflag' = TRUE
  /\ UNCHANGED <<picBase, picMask, picIrr, lint0, timer, irr, isr, callbacks, int_no>>

KernelMain ==
  \/ init_idt
  \/ init_lapic_internal
  \/ disable_pic
  \/ route_lapic_interrupts
  \/ Call("register_timer", "init_lapic_timer") /\ register_irq_handler(TimerVec)
  \/ init_lapic_timer
  \/ enable_interrupts
  \/ Call("init_ps2", "running") /\ register_irq_handler(KbdVec)

-----------------------------------------------------------------------------
(* Devices and CPU.                                                        *)

TimerExpires ==
  /\ timer.counting
  /\ FirstPeriodLong => pc \in {"enable_interrupts", "init_ps2", "running"}
  /\ irr' = irr \cup {timer.vec}
  /\ timer' = [timer EXCEPT !.counting = timer.periodic]
  /\ UNCHANGED <<pc, picBase, picMask, picIrr, lint0, isr, callbacks, iflag, int_no>>

LineRaised(line) ==
  /\ picIrr' = picIrr \cup {line}
  /\ UNCHANGED <<setup, irr, isr, iflag, int_no>>

PriorityClass(v) == v \div 16

(* What may interrupt the CPU: the requested APIC vector of highest         *)
(* priority, unless its class is in service, and, while LINT0 passes it    *)
(* on, the lowest requested line of the PIC.                               *)
Requests ==
  {v \in irr : /\ v = Max(irr)
               /\ \A s \in isr : PriorityClass(v) > PriorityClass(s)}

PicRequests ==
  {line \in picIrr \ picMask : /\ lint0 = "extint"
                               /\ \A l \in picIrr \ picMask : line <= l}

Interrupt ==
  /\ iflag
  /\ iflag' = FALSE
  /\ UNCHANGED setup
  /\ \E v \in Requests \cup {picBase + line : line \in PicRequests} :
       /\ int_no' = v
       /\ IF v \in Requests
          THEN irr' = irr \ {v} /\ isr' = isr \cup {v} /\ picIrr' = picIrr
          ELSE picIrr' = picIrr \ {v - picBase} /\ UNCHANGED <<irr, isr>>

(* Mutant: the handler does not acknowledge.                               *)
lapic_eoi_Forgotten == isr' = isr

(* lapic_eoi acknowledges the highest vector in service, whoever calls.    *)
lapic_eoi == isr' = IF isr = {} THEN {} ELSE isr \ {Max(isr)}

(* A callback; ps2_irq_handler does nothing, lapic_timer_handler           *)
(* schedules (see TaskSwitch) and acknowledges.  service_interrupt ends in *)
(* sti and iretq.                                                          *)
Callback ==
  /\ int_no \in callbacks
  /\ IF int_no = TimerVec THEN lapic_eoi ELSE isr' = isr
  /\ int_no' = None
  /\ iflag' = TRUE
  /\ UNCHANGED <<setup, picIrr, irr>>

(* Without a callback handle_interrupt prints and halts, interrupts off:   *)
(* the CPU never leaves this state.                                        *)
Halted == int_no # None /\ int_no \notin callbacks

Next ==
  \/ KernelMain
  \/ TimerExpires
  \/ \E line \in Lines : LineRaised(line)
  \/ Interrupt
  \/ Callback

Spec == Init /\ [][Next]_vars

(* The timer is periodic, the CPU takes a request it may take, and both    *)
(* KernelMain and a callback get on with their work.                       *)
FairSpec ==
  /\ Spec
  /\ WF_vars(KernelMain)
  /\ WF_vars(TimerExpires)
  /\ WF_vars(Interrupt)
  /\ WF_vars(Callback)

-----------------------------------------------------------------------------
TypeOK ==
  /\ picBase \in 0..255
  /\ picMask \subseteq Lines
  /\ picIrr \subseteq Lines
  /\ lint0 \in {"extint", "masked"}
  /\ timer \in [vec : {None, TimerVec, 239}, periodic : BOOLEAN, counting : BOOLEAN]
  /\ irr \subseteq 0..255
  /\ isr \subseteq 0..255
  /\ callbacks \subseteq 0..255
  /\ iflag \in BOOLEAN
  /\ int_no \in {None} \cup 0..255

(* No interrupt that reaches the CPU lacks a callback, although the timer  *)
(* runs from init_lapic_internal on, its vector changes twice and the PIC  *)
(* may hold requests from before: the default branch of handle_interrupt   *)
(* would stop the machine for good.                                        *)
NoUnclaimedInterrupt == ~Halted

(* Whenever the timer's callback runs the timer asked for it: its vector   *)
(* is the one in service and the acknowledgement is for it.  The PIC has   *)
(* the same vectors and never gets through.                                *)
TicksComeFromTimer ==
  int_no \in callbacks => int_no = TimerVec /\ isr = {TimerVec}

(* The scheduler is called again and again.                                *)
TimerKeepsTicking == []<>(int_no = TimerVec /\ int_no \in callbacks)

(* What register_irq_handler announces: "[IRQ] Unmasking irq %i" (idt.cc   *)
(* line 125) - the PIC line of a vector with a callback is not masked.     *)
RegisteredLinesUnmasked ==
  pc = "running" => \A no \in callbacks : no - 32 \notin picMask
=============================================================================
