---------------------------- MODULE MCInterrupts ----------------------------
(* Model checking of Interrupts after a BIOS, which leaves line 0 of the    *)
(* PIC at vector 8, and after an UEFI firmware, which may have masked LINT0.*)
EXTENDS Interrupts
MCLint0 == {"extint", "masked"}
=============================================================================
